------------------------ MODULE NumberRoundTripProofs -------------------------
(***************************************************************************)
(* For every width and every text: the digits never leave their 64 bits    *)
(* unnoticed, and the callback gets the number that was read.              *)
(*                                                                         *)
(* While no digit overflowed the 64 bits hold the number itself, at most   *)
(* MaxIntValue; then neither the product by 10 nor the sum wraps when both *)
(* tests pass, and the number is beyond MaxIntValue when one fails         *)
(* (DigitCounts).  A sign is taken before any digit, so that the limit     *)
(* never changes under the digits (Fresh).                                 *)
(*                                                                         *)
(* For every integer: loads(dumps(n)) is n.  What is left of the magnitude,*)
(* in decimal, and what was written, turned round, are always the decimal  *)
(* of the integer together (WriterInv); the digits read so far are always  *)
(* the decimal of the number read so far (Reading); and decimals differ    *)
(* where numbers do (DecimalInjective).  What is said of every decimal is  *)
(* proved by induction over the set of the numbers it is true of.          *)
(*                                                                         *)
(* For every text: a number of JSON is read whole and as what it is, and   *)
(* nothing else is taken but literals and what the tests tolerate.  The    *)
(* grammar, which speaks of parts of the text, is put in terms of places   *)
(* in it (SliceIs, NumberIs, ToleratedIs); digits end at one place only    *)
(* (FirstNonDigitUnique); and the invariant says of the scanner's place    *)
(* which characters are behind it (ScanInv).                               *)
(***************************************************************************)
EXTENDS NumberRoundTrip, FiniteSetTheorems, SequenceTheorems,
        WellFoundedInduction, TLAPS

Fresh ==
  /\ pc \in {"value", "word"} => ~hasError /\ intValue = 0 /\ exact = 0
  /\ pc = "value" => offset = 1 /\ intNeg = 1
  /\ pc # "done" => start = 1 /\ event.kind = "none"

OnItsLetter ==
  pc = "word" => word \in DOMAIN Word /\ Letter \in 1..Len(Word[word])

FirstIsScalar ==
  /\ text # <<>>
  /\ \/ text[1] \in Digit \cup {Minus}
     \/ \E w \in DOMAIN Word : text[1] = Initial(w)

IInv == /\ TypeOK /\ NoticesOverflow /\ ReportsItsNumber /\ StopsAtNull
        /\ Fresh /\ OnItsLetter /\ FirstIsScalar

(***************************************************************************)
(* Arithmetic modulo n.                                                    *)
(***************************************************************************)
LEMMA ModRange ==
  ASSUME NEW n \in Nat \ {0}, NEW x \in Int
  PROVE  x % n \in 0..(n - 1)
OBVIOUS

(* The remainder of a small number.                                        *)
LEMMA ModSmall ==
  ASSUME NEW n \in Nat \ {0}, NEW x \in 0..(n - 1)
  PROVE  x % n = x
OBVIOUS

(* The remainder of a small negative number.                               *)
LEMMA ModNegative ==
  ASSUME NEW n \in Nat \ {0}, NEW x \in 1..(n - 1)
  PROVE  (-x) % n = n - x
OBVIOUS

(* The remainder of a multiple and a rest.                                 *)
LEMMA ModMultiple ==
  ASSUME NEW n \in Nat \ {0}, NEW q \in Nat, NEW x \in 0..(n - 1)
  PROVE  (q * n + x) % n = x
OBVIOUS

(* The widths are what the assumption makes of them.                       *)
LEMMA Widths ==
  /\ Half \in Nat \ {0} /\ Full \in Nat \ {0} /\ Full = 2 * Half
  /\ IntHalf \in Nat \ {0} /\ IntHalf <= Half
<1>1. PICK k \in 1..Half : Half = k * IntHalf BY WidthAssumption
<1>2. k * IntHalf >= IntHalf BY <1>1, WidthAssumption
<1> QED BY <1>1, <1>2, WidthAssumption DEF Full

(***************************************************************************)
(* The casts of the product with the sign.                                 *)
(***************************************************************************)
LEMMA PositiveProduct ==
  ASSUME intNeg = 1, intValue \in 0..(Full - 1)
  PROVE  Product = intValue
BY Widths, ModSmall DEF Product

(* The product with -1, as the unsigned word it is stored in.              *)
LEMMA NegativeProduct ==
  ASSUME intNeg = -1, intValue \in 1..(Full - 1)
  PROVE  Product = Full - intValue
<1>1. intValue * intNeg = -intValue OBVIOUS
<1> QED BY <1>1, Widths, ModNegative DEF Product

(* The cast of the product to a signed word gives the number back.         *)
LEMMA LongCast ==
  ASSUME TypeOK, intNeg = 1 => intValue < Half, intValue <= Half
  PROVE  Signed(Product, Half) = intNeg * intValue
<1> USE Widths
<1>1. CASE intNeg = 1
  <2>1. Product = intValue BY <1>1, PositiveProduct DEF TypeOK
  <2>2. intValue % (2 * Half) = intValue BY ModSmall, <1>1 DEF TypeOK
  <2> QED BY <1>1, <2>1, <2>2 DEF Signed, TypeOK
<1>2. CASE intNeg = -1 /\ intValue = 0
  <2>1. Product = 0 BY <1>2, ModSmall DEF Product
  <2>2. 0 % (2 * Half) = 0 BY ModSmall
  <2> QED BY <1>2, <2>1, <2>2 DEF Signed
<1>3. CASE intNeg = -1 /\ intValue # 0
  <2>1. Product = Full - intValue BY <1>3, NegativeProduct DEF TypeOK
  <2>2. Product \in 0..(2 * Half - 1) BY <1>3, <2>1 DEF TypeOK
  <2>3. Product % (2 * Half) = Product BY <2>2, ModSmall
  <2> QED BY <1>3, <2>1, <2>3 DEF Signed, TypeOK
<1> QED BY <1>1, <1>2, <1>3 DEF TypeOK

(* So does the cast to int of a small number.                              *)
LEMMA IntCast ==
  ASSUME TypeOK, intValue < IntHalf
  PROVE  Signed(Product, IntHalf) = intNeg * intValue
<1> USE Widths
<1>1. CASE intNeg = 1
  <2>1. Product = intValue BY <1>1, PositiveProduct DEF TypeOK
  <2>2. intValue % (2 * IntHalf) = intValue BY ModSmall, <1>1 DEF TypeOK
  <2> QED BY <1>1, <2>1, <2>2 DEF Signed, TypeOK
<1>2. CASE intNeg = -1 /\ intValue = 0
  <2>1. Product = 0 BY <1>2, ModSmall DEF Product
  <2>2. 0 % (2 * IntHalf) = 0 BY ModSmall
  <2> QED BY <1>2, <2>1, <2>2 DEF Signed
<1>3. CASE intNeg = -1 /\ intValue # 0
  <2>1. Product = Full - intValue BY <1>3, NegativeProduct DEF TypeOK
  <2>2. PICK k \in 1..Half : Half = k * IntHalf BY WidthAssumption
  <2>3. Full = (k - 1) * (2 * IntHalf) + 2 * IntHalf BY <2>2
  <2>4. Product = (k - 1) * (2 * IntHalf) + (2 * IntHalf - intValue)
    BY <2>1, <2>2, <2>3 DEF TypeOK
  <2>5. 2 * IntHalf - intValue \in 0..(2 * IntHalf - 1) BY <1>3 DEF TypeOK
  <2>6. k - 1 \in Nat /\ 2 * IntHalf \in Nat \ {0} BY <2>2
  <2>7. Product % (2 * IntHalf) = 2 * IntHalf - intValue
    BY <2>4, <2>5, <2>6, ModMultiple
  <2> QED BY <1>3, <2>7 DEF Signed, TypeOK
<1> QED BY <1>1, <1>2, <1>3 DEF TypeOK

(***************************************************************************)
(* A digit.                                                                *)
(***************************************************************************)
LEMMA Limits ==
  ASSUME TypeOK
  PROVE  /\ MaxIntValue \in Nat /\ MaxIntValue < Full
         /\ OverflowLimit \in Nat
         /\ 10 * OverflowLimit <= MaxIntValue
         /\ MaxIntValue < 10 * OverflowLimit + 10
BY Widths DEF TypeOK, MaxIntValue, MaxUnsigned, OverflowLimit

(* A digit more leaves the value in its word, or the overflow is noticed.  *)
LEMMA DigitCounts ==
  ASSUME TypeOK, NoticesOverflow, ReadDigit
  PROVE  intValue' \in 0..(Full - 1) /\ exact' \in Nat /\ hasError' \in BOOLEAN
         /\ NoticesOverflow'
<1> DEFINE d == Value(Oct)
<1>1. d \in 0..9 BY DEF ReadDigit, Digit, Value
<1>2. /\ hasError' = (hasError \/ Overflows(Oct))
      /\ exact' = 10 * exact + d
      /\ intValue' = Sum /\ intNeg' = intNeg
  BY DEF ReadDigit
<1>3. MaxIntValue' = MaxIntValue BY <1>2 DEF MaxIntValue, MaxUnsigned, Full
<1>4. Times10 \in 0..(Full - 1) BY Widths, ModRange DEF Times10, TypeOK
<1>5. Sum \in 0..(Full - 1)
  <2>1. Times10 + d \in Int BY <1>1, <1>4, Widths
  <2> QED BY <2>1, Widths, ModRange DEF Sum, d
<1>6. exact' \in Nat BY <1>1, <1>2 DEF TypeOK
<1>7. hasError' \in BOOLEAN BY <1>2 DEF TypeOK
<1> HIDE DEF d
<1>8. NoticesOverflow'
  <2>1. CASE hasError
    <3>1. exact > MaxIntValue BY <2>1 DEF NoticesOverflow
    <3>2. exact' > MaxIntValue BY <3>1, <1>1, <1>2, Limits DEF TypeOK
    <3>3. hasError' BY <2>1, <1>2
    <3> QED BY <3>2, <3>3, <1>3 DEF NoticesOverflow
  <2>2. CASE ~hasError /\ intValue > OverflowLimit
    <3>1. hasError' BY <2>2, <1>2 DEF Overflows, OverflowsInTimes
    <3>2. exact' > MaxIntValue
      BY <2>2, <1>1, <1>2, Limits DEF NoticesOverflow, TypeOK
    <3> QED BY <3>1, <3>2, <1>3 DEF NoticesOverflow
  <2>3. CASE ~hasError /\ intValue <= OverflowLimit
    <3>1. exact = intValue /\ 10 * intValue \in 0..MaxIntValue
      BY <2>3, Limits DEF NoticesOverflow, TypeOK
    <3>2. 10 * intValue \in 0..(Full - 1) BY <3>1, Limits, Widths
    <3>3. Times10 = 10 * intValue BY <3>2, Widths, ModSmall DEF Times10
    <3>4. MaxIntValue - Times10 \in 0..(Full - 1)
      BY <3>1, <3>3, Limits, Widths
    <3>5. (MaxIntValue - Times10) % Full = MaxIntValue - Times10
      BY <3>4, Widths, ModSmall
    <3>6. hasError' <=> exact' > MaxIntValue
      <4>1. Overflows(Oct) <=> MaxIntValue - Times10 < d
        BY <2>3, <3>5, Limits DEF Overflows, OverflowsInTimes, TypeOK, d
      <4>2. hasError' <=> MaxIntValue - Times10 < d BY <4>1, <1>2, <2>3
      <4>3. exact' = Times10 + d BY <1>2, <3>1, <3>3
      <4> QED BY <4>2, <4>3, <1>1, <1>4, Limits, Widths
    <3>7. ~hasError' => intValue' = exact'
      <4> SUFFICES ASSUME ~hasError' PROVE intValue' = exact' OBVIOUS
      <4>1. Times10 + d \in 0..(Full - 1)
        BY <1>1, <1>2, <3>1, <3>3, <3>6, Limits, Widths DEF TypeOK
      <4>2. Sum = Times10 + d BY <4>1, Widths, ModSmall DEF Sum, d
      <4> QED BY <4>2, <1>2, <3>1, <3>3
    <3> QED BY <3>6, <3>7, <1>3 DEF NoticesOverflow
  <2> QED BY <2>1, <2>2, <2>3, Limits DEF TypeOK
<1> QED BY <1>2, <1>5, <1>6, <1>7, <1>8

(***************************************************************************)
(* What is read, and where it ends.                                        *)
(***************************************************************************)
LEMMA NotNull ==
  ASSUME TypeOK, Oct # 0
  PROVE  offset <= Len(text)
BY DEF TypeOK, Oct, At

(* The words the scanner knows: their lengths and letters.                 *)
LEMMA Letters ==
  ASSUME NEW w \in DOMAIN Word
  PROVE  /\ Len(Word[w]) \in Nat /\ Len(Word[w]) > 1
         /\ \A i \in 1..Len(Word[w]) : Word[w][i] # 0
         /\ Initial(w) # Minus
<1>1. CASE w = "true" BY <1>1 DEF Word, Initial, Minus
<1>2. CASE w = "false" BY <1>2 DEF Word, Initial, Minus
<1>3. CASE w = "null" BY <1>3 DEF Word, Initial, Minus
<1>4. CASE w = "nan" BY <1>4 DEF Word, Initial, Minus
<1>5. CASE w = "inf" BY <1>5 DEF Word, Initial, Minus
<1> QED BY <1>1, <1>2, <1>3, <1>4, <1>5 DEF Word

(* Where the digits end.                                                   *)
LEMMA PastDigitsType ==
  ASSUME TypeOK, NEW i \in Nat
  PROVE  PastDigits(i) \in Nat /\ PastDigits(i) >= i
<1> DEFINE D == {j \in i..end : \A k \in i..j : Seen(k) \in Digit}
<1>1. end \in Int BY DEF TypeOK
<1>2. IsFiniteSet(i..end) BY <1>1, FS_Interval
<1>3. D \subseteq i..end OBVIOUS
<1>4. IsFiniteSet(D) BY <1>2, <1>3, FS_Subset
<1>5. Cardinality(D) \in Nat BY <1>4, FS_CardinalityType
<1>6. PastDigits(i) = i + Cardinality(D) BY DEF PastDigits
<1> QED BY <1>5, <1>6

(* Where a double ends.                                                    *)
LEMMA PastDoubleType ==
  ASSUME TypeOK, NEW i \in Nat \ {0}
  PROVE  PastDouble(i) \in Nat \ {0}
<1>1. PastSign(i) \in Nat \ {0} BY DEF PastSign
<1>2. PastDigits(PastSign(i)) \in Nat \ {0} BY <1>1, PastDigitsType
<1>3. ASSUME NEW j \in Nat \ {0} PROVE PastPoint(j) \in Nat \ {0}
  BY PastDigitsType DEF PastPoint
<1>4. ASSUME NEW j \in Nat \ {0} PROVE PastExponent(j) \in Nat \ {0}
  <2>1. PastExponentSign(j + 1) \in Nat \ {0} BY DEF PastExponentSign
  <2>2. PastDigits(PastExponentSign(j + 1)) \in Nat \ {0}
    BY <2>1, PastDigitsType
  <2> QED BY <2>2 DEF PastExponent
<1> QED BY <1>2, <1>3, <1>4 DEF PastDouble

(***************************************************************************)
(* The invariant.                                                          *)
(***************************************************************************)
LEMMA BeginInvariant ==
  Begin /\ text \in Seq(Byte) /\ end \in 0..Len(text) /\ FirstIsScalar => IInv
<1> SUFFICES ASSUME Begin, text \in Seq(Byte), end \in 0..Len(text),
                    FirstIsScalar
             PROVE  IInv
  OBVIOUS
<1> USE DEF Begin
<1>1. TypeOK
  <2>1. text \in Seq(Byte) /\ end \in 0..Len(text) OBVIOUS
  <2>2. 0 \in 0..(Full - 1) BY Widths
  <2>3. event.kind \in {"none", "string", "double", "word"} \cup Fixed
    OBVIOUS
  <2>4. /\ start = 1 /\ offset = 1 /\ intNeg = 1 /\ intValue = 0
        /\ hasError = FALSE /\ exact = 0 /\ word = "none" /\ pc = "value"
    OBVIOUS
  <2> HIDE DEF Begin
  <2>5. start \in Nat \ {0} /\ offset \in Nat \ {0} /\ intNeg \in {1, -1}
    BY <2>4
  <2>6. intValue \in 0..(Full - 1) /\ hasError \in BOOLEAN /\ exact \in Nat
    BY <2>2, <2>4
  <2>7. word \in DOMAIN Word \cup {"none"} BY <2>4
  <2>8. pc \in {"value", "integer", "word", "done", "error"} BY <2>4
  <2> QED BY <2>1, <2>3, <2>5, <2>6, <2>7, <2>8 DEF TypeOK
<1>2. MaxIntValue \in Nat BY <1>1, Limits
<1>3. NoticesOverflow BY <1>2 DEF NoticesOverflow
<1>4. ReportsItsNumber BY DEF ReportsItsNumber, Fixed
<1>5. StopsAtNull BY <1>1 DEF StopsAtNull, TypeOK
<1>6. Fresh /\ OnItsLetter BY DEF Fresh, OnItsLetter
<1> QED BY <1>1, <1>3, <1>4, <1>5, <1>6 DEF IInv

(* So does a text of loads.                                                *)
LEMMA InitInvariant == Init => IInv
<1> SUFFICES ASSUME Init PROVE IInv OBVIOUS
<1>1. text \in Seq(Byte) /\ FirstIsScalar
  BY TextsAssumption DEF Init, FirstIsScalar
<1>2. end \in 0..Len(text) BY <1>1, BehindAssumption DEF Init
<1> QED BY <1>1, <1>2, BeginInvariant DEF Init

(* The steps that leave the digits and the sign alone, and call nothing.   *)
LEMMA DigitsUntouched ==
  ASSUME IInv, UNCHANGED <<text, end, intNeg, digits, event>>
  PROVE  NoticesOverflow' /\ ReportsItsNumber' /\ FirstIsScalar'
<1>1. MaxIntValue' = MaxIntValue
  BY DEF MaxIntValue, MaxUnsigned, Full
<1>2. NoticesOverflow' BY <1>1 DEF IInv, NoticesOverflow, digits
<1>3. ReportsItsNumber' BY DEF IInv, ReportsItsNumber, digits
<1>4. FirstIsScalar' BY DEF IInv, FirstIsScalar
<1> QED BY <1>2, <1>3, <1>4

(* A callback for a scalar that was read to the end.                       *)
LEMMA Called ==
  ASSUME IInv, NEW e, NEW next, Call(e, next), next \in Nat \ {0},
         e.kind \in {"string", "double", "word"} \cup Fixed,
         /\ e.kind \in Fixed => e.value = intNeg * exact
         /\ e.kind = "string" =>
              intNeg * exact < -Half \/ intNeg * exact >= Full
  PROVE  IInv'
<1> USE DEF Call
<1>1. TypeOK'
  <2>1. event'.kind \in {"none", "string", "double", "word"} \cup Fixed
    OBVIOUS
  <2>2. UNCHANGED <<text, end, offset, intNeg, word, intValue, hasError, exact>>
        /\ start' = next /\ pc' = "done"
    BY DEF digits
  <2> QED BY <2>1, <2>2 DEF IInv, TypeOK, Full
<1>2. NoticesOverflow' BY DEF IInv, NoticesOverflow, digits, MaxIntValue,
                              MaxUnsigned, Full
<1>3. ReportsItsNumber'
  <2>1. intNeg' = intNeg /\ exact' = exact /\ event' = e BY DEF digits
  <2> QED BY <2>1 DEF ReportsItsNumber, Full
<1>4. StopsAtNull' BY DEF IInv, StopsAtNull
<1>5. Fresh' /\ OnItsLetter' BY DEF Fresh, OnItsLetter
<1>6. FirstIsScalar' BY DEF IInv, FirstIsScalar
<1> QED BY <1>1, <1>2, <1>3, <1>4, <1>5, <1>6 DEF IInv

(* A number without a sign keeps the invariant.                            *)
LEMMA BeginIntegerStep == IInv /\ BeginInteger => IInv'
<1> SUFFICES ASSUME IInv, BeginInteger PROVE IInv' OBVIOUS
<1> USE DEF BeginInteger
<1>1. TypeOK' BY DEF IInv, TypeOK, digits
<1>2. StopsAtNull' BY DEF IInv, StopsAtNull
<1>3. Fresh' /\ OnItsLetter' BY DEF IInv, Fresh, OnItsLetter
<1> QED BY <1>1, <1>2, <1>3, DigitsUntouched DEF IInv

(* So does a number with a sign.                                           *)
LEMMA BeginNegativeStep == IInv /\ BeginNegative => IInv'
<1> SUFFICES ASSUME IInv, BeginNegative PROVE IInv' OBVIOUS
<1> USE DEF BeginNegative
<1>1. start = 1 /\ offset = 1 /\ event.kind = "none" /\ ~hasError
      /\ intValue = 0 /\ exact = 0
  BY DEF IInv, Fresh
<1>2. UNCHANGED <<text, end, start, event, intValue, hasError, exact>>
      /\ intNeg' = -1 /\ offset' = 2
  BY <1>1 DEF digits
<1>3. TypeOK'
  <2>1. word' \in DOMAIN Word \cup {"none"}
    BY DEF IInv, TypeOK, Word
  <2> QED BY <1>2, <2>1 DEF IInv, TypeOK, Full
<1>4. NoticesOverflow'
  BY <1>1, <1>2, Widths DEF NoticesOverflow, MaxIntValue
<1>5. ReportsItsNumber' BY <1>1, <1>2 DEF ReportsItsNumber, Fixed
<1>6. StopsAtNull'
  <2>1. Oct # 0 BY DEF Minus
  <2>2. offset <= Len(text) BY <2>1, NotNull DEF IInv
  <2> QED BY <1>1, <1>2, <2>2 DEF StopsAtNull, IInv, TypeOK
<1>7. Fresh' BY <1>1, <1>2 DEF Fresh
<1>8. OnItsLetter'
  <2> SUFFICES ASSUME pc' = "word" PROVE OnItsLetter' BY DEF OnItsLetter
  <2>1. word' = "inf" /\ "inf" \in DOMAIN Word BY DEF Word
  <2>2. At(1) = Minus BY <1>1 DEF Oct
  <2>3. PastSign(start)' = 2 BY <1>1, <1>2, <2>2 DEF PastSign, At
  <2>4. Letter' = 1 BY <1>2, <2>3 DEF Letter
  <2> QED BY <2>1, <2>4, Letters DEF OnItsLetter
<1>9. FirstIsScalar' BY <1>2 DEF IInv, FirstIsScalar
<1> QED BY <1>3, <1>4, <1>5, <1>6, <1>7, <1>8, <1>9 DEF IInv

(* So does the first letter of a word.                                     *)
LEMMA BeginWordStep == IInv /\ BeginWord => IInv'
<1> SUFFICES ASSUME IInv, BeginWord PROVE IInv' OBVIOUS
<1> USE DEF BeginWord
<1>1. PICK w \in DOMAIN Word : Oct = Initial(w) /\ word' = w OBVIOUS
<1>2. TypeOK' BY <1>1 DEF IInv, TypeOK, digits
<1>3. StopsAtNull' BY DEF IInv, StopsAtNull
<1>4. Fresh' BY DEF IInv, Fresh, digits
<1>5. OnItsLetter'
  <2>1. offset = 1 /\ start = 1 BY DEF IInv, Fresh
  <2>2. At(1) # Minus BY <1>1, <2>1, Letters DEF Oct
  <2>3. PastSign(start)' = 1 BY <2>1, <2>2 DEF PastSign, At
  <2>4. Letter' = 1 BY <2>1, <2>3 DEF Letter
  <2> QED BY <1>1, <2>4, Letters DEF OnItsLetter
<1> QED BY <1>2, <1>3, <1>4, <1>5, DigitsUntouched DEF IInv

(* So does a digit.                                                        *)
LEMMA ReadDigitStep == IInv /\ ReadDigit => IInv'
<1> SUFFICES ASSUME IInv, ReadDigit PROVE IInv' OBVIOUS
<1>1. intValue' \in 0..(Full - 1) /\ exact' \in Nat /\ hasError' \in BOOLEAN
      /\ NoticesOverflow'
  BY DigitCounts DEF IInv
<1> USE DEF ReadDigit
<1>2. TypeOK' BY <1>1 DEF IInv, TypeOK, Full
<1>3. ReportsItsNumber' BY DEF IInv, Fresh, ReportsItsNumber, Fixed
<1>4. StopsAtNull'
  <2>1. Oct # 0 BY DEF Digit
  <2>2. offset <= Len(text) BY <2>1, NotNull DEF IInv
  <2> QED BY <2>2 DEF StopsAtNull, IInv, TypeOK
<1>5. Fresh' /\ OnItsLetter' BY DEF IInv, Fresh, OnItsLetter
<1>6. FirstIsScalar' BY DEF IInv, FirstIsScalar
<1> QED BY <1>1, <1>2, <1>3, <1>4, <1>5, <1>6 DEF IInv

(* Without overflow the 64 bits are below the limit of the sign.           *)
LEMMA InLimit ==
  ASSUME IInv, ~hasError
  PROVE  /\ intValue = exact
         /\ intNeg = -1 => intValue <= Half
BY Widths DEF IInv, TypeOK, NoticesOverflow, MaxIntValue

(* So do the four ways to make an integer.                                 *)
LEMMA IntegerStep ==
  IInv /\ (NewIntegerFromString \/ NewUnsignedLong \/ NewLong \/ NewInt)
    => IInv'
<1> SUFFICES ASSUME IInv, NewIntegerFromString \/ NewUnsignedLong
                            \/ NewLong \/ NewInt
             PROVE  IInv'
  OBVIOUS
<1>0. offset \in Nat \ {0} /\ TypeOK BY DEF IInv, TypeOK
<1>1. CASE NewIntegerFromString
  <2> DEFINE e == [kind |-> "string", from |-> start, to |-> offset - 1]
  <2>1. Call(e, offset) /\ hasError BY <1>1 DEF NewIntegerFromString
  <2>2. exact > MaxIntValue BY <2>1 DEF IInv, NoticesOverflow
  <2>3. intNeg * exact < -Half \/ intNeg * exact >= Full
    BY <1>0, <2>2, Widths DEF TypeOK, MaxIntValue, MaxUnsigned
  <2>4. e.kind = "string" /\ e.kind \notin Fixed BY DEF Fixed
  <2> HIDE DEF e
  <2> QED BY <1>0, <2>1, <2>3, <2>4, Called
<1>2. CASE NewUnsignedLong
  <2> DEFINE e == [kind |-> "unsigned", value |-> intValue]
  <2>1. Call(e, offset) /\ ~hasError /\ intNeg = 1
    BY <1>2 DEF NewUnsignedLong, IsUnsigned
  <2>2. e.kind = "unsigned" /\ e.value = intNeg * exact
    BY <1>0, <2>1, InLimit DEF TypeOK
  <2>3. e.kind \in Fixed BY <2>2 DEF Fixed
  <2> HIDE DEF e
  <2> QED BY <1>0, <2>1, <2>2, <2>3, Called
<1>3. CASE NewLong
  <2> DEFINE e == [kind |-> "long", value |-> Signed(Product, Half)]
  <2>1. Call(e, offset) /\ ~hasError /\ ~IsUnsigned BY <1>3 DEF NewLong
  <2>2. intNeg = 1 => intValue < Half
    BY <1>0, <2>1, Widths DEF TypeOK, IsUnsigned
  <2>3. intValue <= Half BY <1>0, <2>1, <2>2, InLimit, Widths DEF TypeOK
  <2>4. e.kind = "long" /\ e.value = intNeg * exact
    BY <1>0, <2>1, <2>2, <2>3, InLimit, LongCast
  <2>5. e.kind \in Fixed BY <2>4 DEF Fixed
  <2> HIDE DEF e
  <2> QED BY <1>0, <2>1, <2>4, <2>5, Called
<1>4. CASE NewInt
  <2> DEFINE e == [kind |-> "int", value |-> Signed(Product, IntHalf)]
  <2>1. Call(e, offset) /\ ~hasError /\ ~IsLong BY <1>4 DEF NewInt
  <2>2. intValue < IntHalf BY <1>0, <2>1, Widths DEF TypeOK, IsLong
  <2>3. e.kind = "int" /\ e.value = intNeg * exact
    BY <1>0, <2>1, <2>2, InLimit, IntCast
  <2>4. e.kind \in Fixed BY <2>3 DEF Fixed
  <2> HIDE DEF e
  <2> QED BY <1>0, <2>1, <2>3, <2>4, Called
<1> QED BY <1>1, <1>2, <1>3, <1>4

(* So does a double.                                                       *)
LEMMA NewDoubleStep == IInv /\ NewDouble => IInv'
<1> SUFFICES ASSUME IInv, NewDouble PROVE IInv' OBVIOUS
<1> DEFINE next == PastDouble(start)
           e == [kind |-> "double", from |-> start, to |-> next - 1]
<1>1. Call(e, next) BY DEF NewDouble
<1>2. next \in Nat \ {0} BY PastDoubleType DEF IInv, TypeOK
<1>3. e.kind = "double" /\ e.kind \notin Fixed BY DEF Fixed
<1> HIDE DEF e, next
<1> QED BY <1>1, <1>2, <1>3, Called

(* So does a letter in the middle of a word.                               *)
LEMMA ReadLetterStep == IInv /\ ReadLetter => IInv'
<1> SUFFICES ASSUME IInv, ReadLetter PROVE IInv' OBVIOUS
<1> USE DEF ReadLetter
<1>1. word \in DOMAIN Word /\ Letter \in 1..Len(Word[word])
  BY DEF IInv, OnItsLetter
<1>2. Oct # 0 BY <1>1, Letters
<1>3. offset <= Len(text) BY <1>2, NotNull DEF IInv
<1>4. TypeOK' BY DEF IInv, TypeOK, digits
<1>5. StopsAtNull' BY <1>3 DEF StopsAtNull, IInv, TypeOK
<1>6. Fresh' BY DEF IInv, Fresh, digits
<1>7. OnItsLetter'
  <2>1. PastSign(start)' = PastSign(start) BY DEF PastSign, At
  <2>2. PastSign(start) \in Nat BY DEF PastSign, IInv, TypeOK
  <2>3. Letter' = Letter + 1
    BY <2>1, <2>2 DEF Letter, IInv, TypeOK
  <2> QED BY <1>1, <2>3, Letters DEF OnItsLetter
<1> QED BY <1>4, <1>5, <1>6, <1>7, DigitsUntouched DEF IInv

(* So does its last letter.                                                *)
LEMMA LastLetterStep == IInv /\ LastLetter => IInv'
<1> SUFFICES ASSUME IInv, LastLetter PROVE IInv' OBVIOUS
<1> DEFINE e == [kind |-> "word", word |-> word, sign |-> intNeg]
<1>1. Call(e, offset + 1) BY DEF LastLetter
<1>2. offset + 1 \in Nat \ {0} BY DEF IInv, TypeOK
<1>3. e.kind = "word" /\ e.kind \notin Fixed BY DEF Fixed
<1> HIDE DEF e
<1> QED BY <1>1, <1>2, <1>3, Called

(* So does a wrong letter.                                                 *)
LEMMA BadLetterStep == IInv /\ BadLetter => IInv'
<1> SUFFICES ASSUME IInv, BadLetter PROVE IInv' OBVIOUS
<1> USE DEF BadLetter
<1>1. TypeOK' BY DEF IInv, TypeOK, digits
<1>2. StopsAtNull' BY DEF IInv, StopsAtNull
<1>3. Fresh' /\ OnItsLetter' BY DEF IInv, Fresh, OnItsLetter
<1> QED BY <1>1, <1>2, <1>3, DigitsUntouched DEF IInv

(* So does a stutter.                                                      *)
LEMMA StutterStep == IInv /\ UNCHANGED vars => IInv'
<1> SUFFICES ASSUME IInv, UNCHANGED vars PROVE IInv' OBVIOUS
<1> USE DEF vars
<1>1. TypeOK' BY DEF IInv, TypeOK, Full
<1>2. StopsAtNull' /\ Fresh' BY DEF IInv, StopsAtNull, Fresh
<1>3. OnItsLetter'
  BY DEF IInv, OnItsLetter, Letter, PastSign, At
<1> QED BY <1>1, <1>2, <1>3, DigitsUntouched DEF IInv, digits

(* So does every step.                                                     *)
LEMMA IInvSteps == IInv /\ [Next]_vars => IInv'
BY BeginIntegerStep, BeginNegativeStep, BeginWordStep, ReadDigitStep,
   IntegerStep, NewDoubleStep, ReadLetterStep, LastLetterStep,
   BadLetterStep, StutterStep DEF Next, Stopped

(* What is proved about every width and every text is one invariant.       *)
THEOREM Invariance == Spec => []IInv
<1>1. Init => IInv BY InitInvariant
<1>2. IInv /\ [Next]_vars => IInv' BY IInvSteps
<1> QED BY <1>1, <1>2, PTL DEF Spec

(* The variables of the scanner of numbers keep their types; intValue      *)
(* stays within its 64 bits.                                               *)
THEOREM TypeCorrect == Spec => []TypeOK
<1>1. IInv => TypeOK BY DEF IInv
<1> QED BY <1>1, Invariance, PTL

(* The two tests before each addition notice every overflow, of either     *)
(* limit, and no number that fits is taken for one that does not.          *)
THEOREM OverflowNoticed == Spec => []NoticesOverflow
<1>1. IInv => NoticesOverflow BY DEF IInv
<1> QED BY <1>1, Invariance, PTL

(* The callback chosen by sign and size is given the number itself, casts  *)
(* included; only what fits none is given as text.                         *)
THEOREM NumberReported == Spec => []ReportsItsNumber
<1>1. IInv => ReportsItsNumber BY DEF IInv
<1> QED BY <1>1, Invariance, PTL

(* Neither digits nor letters are looked for beyond the null byte.         *)
THEOREM StopsAtTheNull == Spec => []StopsAtNull
<1>1. IInv => StopsAtNull BY DEF IInv
<1> QED BY <1>1, Invariance, PTL

(***************************************************************************)
(* The decimal of a number.                                                *)
(***************************************************************************)
(* The digits of a number, as Python writes them.                          *)
Decimal == Writer!Decimal

(* Complete induction, over the set of the numbers of which it holds.      *)
LEMMA Induction ==
  ASSUME NEW S, \A n \in Nat : (\A m \in 0..(n - 1) : m \in S) => n \in S
  PROVE  Nat \subseteq S
<1> DEFINE T == Nat \ S
<1> SUFFICES ASSUME T # {} PROVE FALSE
  OBVIOUS
<1>1. PICK x \in T : \A y \in T : ~(<<y, x>> \in OpToRel(<, Nat))
  BY NatLessThanWellFounded, WFMin, Zenon
<1>2. ASSUME NEW m \in 0..(x - 1) PROVE m \in S
  <2>1. m \in Nat /\ x \in Nat /\ m < x
    OBVIOUS
  <2>2. <<m, x>> \in OpToRel(<, Nat)
    BY <2>1, Zenon DEF OpToRel
  <2>3. QED
    BY <1>1, <2>1, <2>2
<1>3. QED
  BY <1>2

(* The decimal digits of n, from those of n \div 10 in g.                  *)
Digits10(g, n) ==
  IF n < 10 THEN <<48 + n>> ELSE Append(g[n \div 10], 48 + (n % 10))
(* g has the digits of the numbers up to n.                                *)
Upto(g, n) == DOMAIN g = 0..n /\ \A i \in 0..n : g[i] = Digits10(g, i)

(* What is left of a number without its last digit, and that digit.        *)
LEMMA Tenth ==
  ASSUME NEW n \in Nat, n >= 10
  PROVE  /\ n \div 10 \in 0..(n - 1) /\ n \div 10 >= 1 /\ n \div 10 \in Nat
         /\ n % 10 \in 0..9 /\ n = 10 * (n \div 10) + (n % 10)
<1> DEFINE q == n \div 10
           r == n % 10
<1>1. q \in Nat /\ r \in 0..9 OBVIOUS
<1>2. 10 * q <= n /\ n < 10 * q + 10 OBVIOUS
<1>3. r = n - 10 * q OBVIOUS
<1> HIDE DEF q, r
<1>4. q \in 0..(n - 1) /\ q >= 1 /\ n = 10 * q + r
  BY <1>1, <1>2, <1>3
<1> QED BY <1>1, <1>4 DEF q, r

(* Two such functions agree.                                               *)
LEMMA UptoUnique ==
  ASSUME NEW g, NEW h, NEW n \in Nat, NEW m \in Nat,
         Upto(g, n), Upto(h, m), n <= m
  PROVE  \A i \in 0..n : g[i] = h[i]
<1> DEFINE S == {i \in Nat : i <= n => g[i] = h[i]}
<1>1. ASSUME NEW k \in Nat, \A j \in 0..(k - 1) : j \in S
      PROVE  k \in S
  <2>1. SUFFICES ASSUME k <= n PROVE g[k] = h[k]
    OBVIOUS
  <2>2. g[k] = Digits10(g, k) /\ h[k] = Digits10(h, k)
    BY <2>1 DEF Upto
  <2>3. CASE k < 10
    BY <2>2, <2>3 DEF Digits10
  <2>4. CASE k >= 10
    <3>1. k \div 10 \in 0..(k - 1)
      BY <2>4, Tenth
    <3>2. k \div 10 \in S /\ k \div 10 <= n
      BY <1>1, <2>1, <3>1
    <3>3. g[k \div 10] = h[k \div 10]
      BY <3>2
    <3>4. QED
      BY <2>2, <2>4, <3>3 DEF Digits10
  <2>5. QED
    BY <2>3, <2>4
<1> HIDE DEF S
<1>2. Nat \subseteq S
  BY <1>1, Induction
<1>3. QED
  BY <1>2 DEF S

(* There is one for every n.                                               *)
LEMMA UptoExists ==
  ASSUME NEW n \in Nat
  PROVE  \E g : Upto(g, n)
<1> DEFINE S == {i \in Nat : \E g : Upto(g, i)}
<1>1. ASSUME NEW k \in Nat, \A j \in 0..(k - 1) : j \in S
      PROVE  k \in S
  <2>1. CASE k = 0
    <3> DEFINE g == [i \in 0..0 |-> <<48>>]
    <3>1. Upto(g, 0)
      BY DEF Upto, Digits10
    <3>2. QED
      BY <2>1, <3>1
  <2>2. CASE k >= 1
    <3>1. k - 1 \in S
      BY <1>1, <2>2
    <3>2. PICK h : Upto(h, k - 1)
      BY <3>1
    <3> DEFINE g == [i \in 0..k |-> IF i = k THEN Digits10(h, k) ELSE h[i]]
    <3>3. \A i \in 0..(k - 1) : g[i] = h[i]
      BY <2>2
    <3>4. DOMAIN g = 0..k /\ g[k] = Digits10(h, k)
      BY <2>2
    <3> HIDE DEF g
    <3>5. ASSUME NEW i \in 0..k PROVE g[i] = Digits10(g, i)
      <4>1. Digits10(g, i) = Digits10(h, i)
        <5>1. CASE i < 10
          BY <5>1 DEF Digits10
        <5>2. CASE i >= 10
          <6>1. i \div 10 \in 0..(k - 1)
            BY <5>2, Tenth
          <6>2. QED
            BY <3>3, <5>2, <6>1 DEF Digits10
        <5>3. QED
          BY <5>1, <5>2
      <4>2. QED
        BY <3>2, <3>3, <3>4, <4>1, <2>2 DEF Upto
    <3>6. QED
      BY <3>4, <3>5 DEF Upto
  <2>3. QED
    BY <2>1, <2>2
<1> HIDE DEF S
<1>2. Nat \subseteq S
  BY <1>1, Induction
<1>3. QED
  BY <1>2 DEF S

(* So there is one for all numbers: the recursive definition is sound.     *)
LEMMA DecimalDef ==
  \A n \in Nat : Decimal[n] = Digits10(Decimal, n)
<1> DEFINE g(n) == CHOOSE h : Upto(h, n)
           f == [n \in Nat |-> g(n)[n]]
<1>1. \A n \in Nat : Upto(g(n), n)
  BY UptoExists
<1>2. ASSUME NEW n \in Nat PROVE f[n] = Digits10(f, n)
  <2>1. f[n] = Digits10(g(n), n)
    BY <1>1 DEF Upto
  <2>2. CASE n < 10
    BY <2>1, <2>2 DEF Digits10
  <2>3. CASE n >= 10
    <3> DEFINE k == n \div 10
    <3>1. k \in 0..(n - 1) /\ k \in Nat
      BY <2>3, Tenth
    <3> HIDE DEF k
    <3>2. f[k] = g(k)[k]
      BY <3>1
    <3>3. g(k)[k] = g(n)[k]
      <4>1. Upto(g(k), k) /\ Upto(g(n), n) /\ k <= n
        BY <1>1, <3>1
      <4>2. QED
        BY <3>1, <4>1, UptoUnique
    <3> HIDE DEF f, g
    <3>4. QED
      BY <2>1, <2>3, <3>2, <3>3 DEF Digits10, k
  <2>4. QED
    BY <2>2, <2>3
<1>3. f = [n \in Nat |-> Digits10(f, n)]
  <2>1. f = [n \in Nat |-> f[n]]
    OBVIOUS
  <2> HIDE DEF f
  <2>2. QED
    BY <1>2, <2>1
<1> HIDE DEF f
<1>4. Decimal = [n \in Nat |-> Digits10(Decimal, n)]
  BY <1>3 DEF Decimal, Writer!Decimal, Digits10
<1>5. QED
  BY <1>4

(* The two cases of it.                                                    *)
LEMMA DecimalCases ==
  ASSUME NEW n \in Nat
  PROVE  /\ n < 10 => Decimal[n] = <<48 + n>>
         /\ n >= 10 => Decimal[n] = Append(Decimal[n \div 10], 48 + (n % 10))
<1>1. Decimal[n] = IF n < 10 THEN <<48 + n>>
                   ELSE Append(Decimal[n \div 10], 48 + (n % 10))
  BY DecimalDef, Zenon DEF Digits10
<1>2. n >= 10 => ~(n < 10) OBVIOUS
<1> QED BY <1>1, <1>2, Zenon

(* Digits, at least one, and only zero begins with one.                    *)
LEMMA DecimalType ==
  \A n \in Nat : /\ Decimal[n] \in Seq(Digit) /\ Decimal[n] # <<>>
                 /\ n >= 1 => Decimal[n][1] # 48
                 /\ n < 10 <=> Len(Decimal[n]) = 1
<1> DEFINE P(n) == /\ Decimal[n] \in Seq(Digit) /\ Decimal[n] # <<>>
                   /\ n >= 1 => Decimal[n][1] # 48
                   /\ n < 10 <=> Len(Decimal[n]) = 1
           S == {n \in Nat : P(n)}
<1>1. ASSUME NEW k \in Nat, \A j \in 0..(k - 1) : j \in S
      PROVE  k \in S
  <2>1. CASE k < 10
    <3>1. Decimal[k] = <<48 + k>> BY <2>1, DecimalCases
    <3>2. 48 + k \in Digit BY <2>1 DEF Digit
    <3> DEFINE d == 48 + k
               s == <<d>>
    <3>3. /\ s \in Seq(Digit) /\ s # <<>> /\ Len(s) = 1
          /\ k >= 1 => s[1] # 48
      BY <3>2
    <3>4. Decimal[k] = s BY <3>1
    <3> HIDE DEF s, d
    <3> QED BY <2>1, <3>3, <3>4
  <2>2. CASE k >= 10
    <3> DEFINE q == k \div 10
               d == 48 + (k % 10)
    <3>1. q \in 0..(k - 1) /\ q >= 1 /\ d \in Digit
      BY <2>2, Tenth DEF Digit
    <3>2. Decimal[k] = Append(Decimal[q], d)
      BY <2>2, DecimalCases
    <3> HIDE DEF q, d
    <3>3. P(q) BY <1>1, <3>1
    <3>4. /\ Append(Decimal[q], d) \in Seq(Digit)
          /\ Len(Append(Decimal[q], d)) = Len(Decimal[q]) + 1
          /\ Append(Decimal[q], d)[1] = Decimal[q][1]
          /\ Len(Decimal[q]) >= 1
      BY <3>1, <3>3
    <3>5. Append(Decimal[q], d) # <<>> BY <3>3, <3>4
    <3>6. ~(k < 10) /\ Len(Decimal[k]) # 1 BY <2>2, <3>2, <3>4
    <3>7. k >= 1 => Decimal[k][1] # 48 BY <3>1, <3>2, <3>3, <3>4
    <3> QED BY <3>2, <3>4, <3>5, <3>6, <3>7
  <2> QED BY <2>1, <2>2
<1> HIDE DEF S
<1>2. Nat \subseteq S BY <1>1, Induction
<1> QED BY <1>2 DEF S

(* A number with a digit more.                                             *)
LEMMA DecimalMore ==
  ASSUME NEW n \in Nat \ {0}, NEW d \in 0..9
  PROVE  Decimal[10 * n + d] = Append(Decimal[n], 48 + d)
<1> DEFINE m == 10 * n + d
<1>1. m \in Nat /\ m >= 10 OBVIOUS
<1>2. m \div 10 = n /\ m % 10 = d OBVIOUS
<1> HIDE DEF m
<1>3. Decimal[m] = Append(Decimal[n], 48 + d)
  BY <1>1, <1>2, DecimalCases
<1> QED BY <1>3 DEF m

(* Different numbers have different digits.                                *)
LEMMA DecimalInjective ==
  \A n \in Nat, m \in Nat : Decimal[n] = Decimal[m] => n = m
<1> DEFINE S == {n \in Nat : \A m \in Nat : Decimal[n] = Decimal[m] => n = m}
<1>1. ASSUME NEW k \in Nat, \A j \in 0..(k - 1) : j \in S
      PROVE  k \in S
  <2> SUFFICES ASSUME NEW m \in Nat, Decimal[k] = Decimal[m] PROVE k = m
    OBVIOUS
  <2>1. k < 10 <=> m < 10 BY DecimalType
  <2>2. CASE k < 10
    <3>1. <<48 + k>> = <<48 + m>> BY <2>1, <2>2, DecimalCases
    <3>2. <<48 + k>>[1] = <<48 + m>>[1] BY <3>1
    <3> QED BY <3>2
  <2>3. CASE k >= 10
    <3> DEFINE q == k \div 10
               r == m \div 10
               c == k % 10
               d == m % 10
    <3>1. /\ q \in 0..(k - 1) /\ c \in 0..9 /\ k = 10 * q + c
          /\ r \in Nat /\ d \in 0..9 /\ m = 10 * r + d
      BY <2>1, <2>3, Tenth
    <3>2. /\ Decimal[k] = Append(Decimal[q], 48 + c)
          /\ Decimal[m] = Append(Decimal[r], 48 + d)
      <4>1. k >= 10 /\ m >= 10 BY <2>1, <2>3
      <4> QED BY <4>1, DecimalCases
    <3> HIDE DEF q, r, c, d
    <3>3. Decimal[q] \in Seq(Int) /\ Decimal[r] \in Seq(Int)
      <4>1. q \in Nat /\ r \in Nat /\ Seq(Digit) \subseteq Seq(Int)
        BY <3>1, SeqMonotonic DEF Digit
      <4> QED BY <4>1, DecimalType
    <3>4. 48 + c \in Int /\ 48 + d \in Int BY <3>1
    <3>5. Decimal[q] = Decimal[r] /\ 48 + c = 48 + d
      <4> DEFINE s == Decimal[q]
                 t == Decimal[r]
      <4>1. Append(s, 48 + c) = Append(t, 48 + d) BY <3>2
      <4>2. s \in Seq(Int) /\ t \in Seq(Int) BY <3>3
      <4> HIDE DEF s, t
      <4>3. s = t /\ 48 + c = 48 + d
        BY <3>4, <4>1, <4>2, AppendInjective
      <4> QED BY <4>3 DEF s, t
    <3>6. q = r BY <1>1, <3>1, <3>5
    <3> QED BY <3>1, <3>5, <3>6
  <2> QED BY <2>2, <2>3
<1> HIDE DEF S
<1>2. Nat \subseteq S BY <1>1, Induction
<1> QED BY <1>2 DEF S

(* The digit written first is the last, and the others are those of what   *)
(* is left.                                                                *)
LEMMA DecimalLast ==
  ASSUME NEW n \in Nat
  PROVE  /\ n \div 10 \in Nat /\ 48 + (n % 10) \in Digit
         /\ n \div 10 # 0 =>
              Decimal[n] = Append(Decimal[n \div 10], 48 + (n % 10))
         /\ n \div 10 = 0 => Decimal[n] = <<48 + (n % 10)>>
<1> DEFINE q == n \div 10
           d == n % 10
<1>1. q \in Nat /\ d \in 0..9 OBVIOUS
<1>2. 10 * q <= n /\ n < 10 * q + 10 OBVIOUS
<1>3. d = n - (10 * q) OBVIOUS
<1>4. n < 10 => Decimal[n] = <<48 + n>> BY DecimalCases
<1>5. n >= 10 => Decimal[n] = Append(Decimal[q], 48 + d)
  BY DecimalCases
<1> HIDE DEF q, d
<1>6. 48 + d \in Digit BY <1>1 DEF Digit
<1>7. q # 0 => n >= 10 BY <1>1, <1>2
<1>8. q = 0 => n < 10 /\ d = n BY <1>2, <1>3
<1> QED BY <1>1, <1>4, <1>5, <1>6, <1>7, <1>8 DEF q, d

(***************************************************************************)
(* The writer.                                                             *)
(***************************************************************************)
(* The digits are written from the last, and turned round at the end.      *)
Reverse(s) == Writer!Reverse(s)

(* The last digit written is the first of the text.                        *)
LEMMA ReverseAppend ==
  ASSUME NEW s \in Seq(Int), NEW c \in Int
  PROVE  /\ Reverse(s) \in Seq(Int)
         /\ Reverse(Append(s, c)) = <<c>> \o Reverse(s)
<1>1. /\ Reverse(s) = [i \in 1..Len(s) |-> s[(Len(s) - i) + 1]]
      /\ Len(Reverse(s)) = Len(s)
  BY DEF Reverse, Writer!Reverse
<1>2. Reverse(s) \in Seq(Int)
  <2>1. \A i \in 1..Len(s) : s[(Len(s) - i) + 1] \in Int
    <3> SUFFICES ASSUME NEW i \in 1..Len(s) PROVE s[(Len(s) - i) + 1] \in Int
      OBVIOUS
    <3>1. (Len(s) - i) + 1 \in 1..Len(s) OBVIOUS
    <3> QED BY <3>1
  <2> QED BY <1>1, <2>1
<1>3. /\ Append(s, c) \in Seq(Int) /\ Len(Append(s, c)) = Len(s) + 1
      /\ Append(s, c)[Len(s) + 1] = c
      /\ \A i \in 1..Len(s) : Append(s, c)[i] = s[i]
  OBVIOUS
<1> DEFINE t == Append(s, c)
<1>4. /\ Reverse(t) = [i \in 1..Len(t) |-> t[(Len(t) - i) + 1]]
  BY DEF Reverse, Writer!Reverse
<1> HIDE DEF t
<1>5. Reverse(t) = [i \in 1..(Len(s) + 1) |-> t[(Len(s) + 2) - i]]
  <2>1. Len(t) = Len(s) + 1 BY <1>3 DEF t
  <2>2. \A i \in 1..(Len(s) + 1) : (Len(t) - i) + 1 = (Len(s) + 2) - i
    BY <2>1
  <2> QED BY <1>4, <2>1, <2>2
<1>6. <<c>> \o Reverse(s)
        = [i \in 1..(Len(s) + 1) |-> IF i = 1 THEN c ELSE s[(Len(s) + 2) - i]]
  <2> DEFINE r == Reverse(s)
             u == <<c>> \o r
  <2>1. r \in Seq(Int) /\ Len(r) = Len(s) BY <1>1, <1>2
  <2>2. \A i \in 1..Len(s) : r[i] = s[(Len(s) - i) + 1] BY <1>1
  <2> HIDE DEF r
  <2>3. <<c>> \in Seq(Int) /\ Len(<<c>>) = 1 /\ <<c>>[1] = c OBVIOUS
  <2>4. u \in Seq(Int) /\ Len(u) = Len(s) + 1 /\ u[1] = c
    BY <2>1, <2>3
  <2>5. ASSUME NEW i \in 2..(Len(s) + 1) PROVE u[i] = s[(Len(s) + 2) - i]
    <3>1. i - 1 \in 1..Len(s) /\ (Len(s) - (i - 1)) + 1 = (Len(s) + 2) - i
      OBVIOUS
    <3>2. u[i] = r[i - 1] BY <2>1, <2>3
    <3> QED BY <2>2, <3>1, <3>2
  <2> HIDE DEF u
  <2>6. u = [i \in 1..(Len(s) + 1) |-> u[i]] BY <2>4
  <2>7. \A i \in 1..(Len(s) + 1) :
          u[i] = IF i = 1 THEN c ELSE s[(Len(s) + 2) - i]
    BY <2>4, <2>5
  <2> QED BY <2>6, <2>7 DEF u, r
<1>7. ASSUME NEW i \in 1..(Len(s) + 1)
      PROVE  t[(Len(s) + 2) - i] = IF i = 1 THEN c ELSE s[(Len(s) + 2) - i]
  <2>1. CASE i = 1
    <3>1. (Len(s) + 2) - i = Len(s) + 1 BY <2>1
    <3> QED BY <1>3, <2>1, <3>1 DEF t
  <2>2. CASE i # 1
    <3>1. (Len(s) + 2) - i \in 1..Len(s) BY <2>2
    <3> QED BY <1>3, <2>2, <3>1 DEF t
  <2> QED BY <2>1, <2>2
<1> QED BY <1>2, <1>5, <1>6, <1>7 DEF t

(* Nothing turned round.                                                   *)
LEMMA ReverseEmpty == Reverse(<<>>) = <<>>
BY DEF Reverse, Writer!Reverse

(* A digit moved from the end of the front to the beginning of the rest.   *)
LEMMA MoveDigit ==
  ASSUME NEW s \in Seq(Int), NEW c \in Int, NEW t \in Seq(Int)
  PROVE  Append(s, c) \o t = s \o (<<c>> \o t)
BY AppendIsConcat, ConcatAssociative

(* The integer, as a magnitude and what is written before it.              *)
Absolute == IF int < 0 THEN -int ELSE int
Sign == IF int < 0 THEN <<Minus>> ELSE <<>>

(* The type Python said the integer has, and the value it gave.            *)
Fits ==
  \/ type = "long" /\ scalar = int /\ int \in -Half..(Half - 1)
  \/ type = "ulong" /\ scalar = int /\ int \in Half..(Full - 1)
FitsNot == type = "raw" /\ int \notin -Half..(Full - 1)

(* What was asked so far, and what it means for the integer.               *)
Classified ==
  /\ state \in {"long", "ulong", "raw"} => type = "invalid" /\ out = <<>>
  /\ state \in {"ulong", "raw"} => int \notin -Half..(Half - 1)
  /\ state = "raw" => int \notin -Half..(Full - 1)
  /\ state \in {"digits", "sign"} => Fits
  /\ state = "done" => Fits \/ FitsNot

(* What is left of the magnitude and what was written give its decimal.    *)
WritesDigits ==
  /\ state \in {"digits", "sign"} => out \in Seq(Int)
  /\ state = "digits" =>
       uvalue \in Nat /\ Decimal[Absolute] = Decimal[uvalue] \o Reverse(out)
  /\ state = "sign" => Decimal[Absolute] = Reverse(out)
  /\ state = "done" => out = Sign \o Decimal[Absolute]

(* What dumps keeps.                                                       *)
WriterInv == int \in Int /\ Classified /\ WritesDigits

(* The text of an integer of Python is its sign and its decimal.           *)
LEMMA Text == int \in Int => Writer!Str(int) = Sign \o Decimal[Absolute]
<1> SUFFICES ASSUME int \in Int
             PROVE  Writer!Str(int) = Sign \o Decimal[Absolute]
  OBVIOUS
<1>1. CASE int < 0
  BY <1>1 DEF Writer!Str, Sign, Absolute, Minus, Decimal
<1>2. CASE ~(int < 0)
  <2>1. int \in Nat BY <1>2
  <2>2. Decimal[int] \in Seq(Int)
    BY <2>1, DecimalType, SeqMonotonic DEF Digit
  <2>3. <<>> \o Decimal[int] = Decimal[int] BY <2>2
  <2> QED BY <1>2, <2>3 DEF Writer!Str, Sign, Absolute, Decimal
<1> QED BY <1>1, <1>2

(* A decimal as a sequence of numbers.                                     *)
LEMMA DecimalInts ==
  ASSUME NEW n \in Nat
  PROVE  Decimal[n] \in Seq(Int)
<1>1. Seq(Digit) \subseteq Seq(Int) BY SeqMonotonic DEF Digit
<1> QED BY <1>1, DecimalType

(* What classification starts the digits with.                             *)
LEMMA FirstDigits ==
  ASSUME int \in Int, state' = "digits", Fits', UNCHANGED <<int, out>>,
         out = <<>>, uvalue' = Absolute
  PROVE  WriterInv'
<1>1. Absolute \in Nat /\ Absolute' = Absolute BY DEF Absolute
<1>2. Decimal[Absolute] \o <<>> = Decimal[Absolute]
  BY <1>1, DecimalInts, ConcatEmptySeq
<1>3. Classified' BY DEF Classified
<1>4. WritesDigits'
  <2>1. out' = <<>> /\ out' \in Seq(Int) OBVIOUS
  <2>2. Reverse(out)' = <<>> BY <2>1, ReverseEmpty DEF Reverse, Writer!Reverse
  <2>3. (Decimal[Absolute] = Decimal[uvalue] \o Reverse(out))'
    BY <1>1, <1>2, <2>2 DEF Decimal
  <2> QED BY <1>1, <2>1, <2>3 DEF WritesDigits
<1> QED BY <1>3, <1>4 DEF WriterInv

(* An integer that fits a signed word is taken as it is.                   *)
LEMMA ClassifyLongStep == WriterInv /\ Writer!ClassifyLong => WriterInv'
<1> SUFFICES ASSUME WriterInv, Writer!ClassifyLong PROVE WriterInv' OBVIOUS
<1>1. /\ state = "long" /\ Writer!IsLong /\ UNCHANGED <<int, out>>
      /\ type' = "long" /\ scalar' = Writer!AsLongLong /\ state' = "digits"
      /\ uvalue' = Writer!Magnitude(Writer!AsLongLong)
  BY DEF Writer!ClassifyLong, Writer!Digits
<1>2. int \in Int /\ out = <<>> BY <1>1 DEF WriterInv, Classified
<1>3. int \in -Half..(Half - 1) /\ Writer!AsLongLong = int
  BY <1>1, <1>2, Widths
     DEF Writer!IsLong, Writer!AsLongLong, Writer!LongOverflows
<1>4. Writer!Magnitude(int) = Absolute
  BY <1>2, <1>3, Widths DEF Writer!Magnitude, Absolute
<1>5. Fits' BY <1>1, <1>3, Widths DEF Fits
<1> QED BY <1>1, <1>2, <1>3, <1>4, <1>5, FirstDigits

(* So is the answer that it does not, even when -1 comes with it.          *)
LEMMA NotLongStep == WriterInv /\ Writer!NotLong => WriterInv'
<1> SUFFICES ASSUME WriterInv, Writer!NotLong PROVE WriterInv' OBVIOUS
<1>1. /\ state = "long" /\ ~Writer!IsLong /\ UNCHANGED <<int, type, out>>
      /\ state' = "ulong"
  BY DEF Writer!NotLong
<1>2. int \in Int BY DEF WriterInv
<1>3. int \notin -Half..(Half - 1)
  BY <1>1, <1>2 DEF Writer!IsLong, Writer!AsLongLong, Writer!LongOverflows
<1> QED BY <1>1, <1>3 DEF WriterInv, Classified, WritesDigits

(* An integer that fits an unsigned word only.                             *)
LEMMA ClassifyUnsignedStep ==
  WriterInv /\ Writer!ClassifyUnsigned => WriterInv'
<1> SUFFICES ASSUME WriterInv, Writer!ClassifyUnsigned PROVE WriterInv' OBVIOUS
<1>1. /\ state = "ulong" /\ Writer!IsUnsigned /\ UNCHANGED <<int, out>>
      /\ type' = "ulong" /\ scalar' = Writer!AsUnsignedLongLong
      /\ state' = "digits" /\ uvalue' = Writer!AsUnsignedLongLong
  BY DEF Writer!ClassifyUnsigned, Writer!Digits
<1>2. int \in Int /\ out = <<>> /\ int \notin -Half..(Half - 1)
  BY <1>1 DEF WriterInv, Classified
<1>3. int \in 0..(2 * Half - 1) /\ Writer!AsUnsignedLongLong = int
  BY <1>1, <1>2, Widths
     DEF Writer!IsUnsigned, Writer!AsUnsignedLongLong, Writer!UnsignedOverflows
<1>4. int \in Half..(Full - 1) BY <1>2, <1>3, Widths
<1>5. uvalue' = Absolute BY <1>1, <1>2, <1>3 DEF Absolute
<1>6. Fits'
  <2>1. int' \in Half'..(Full' - 1) BY <1>1, <1>4, Widths DEF Full
  <2> QED BY <1>1, <1>3, <2>1 DEF Fits
<1> QED BY <1>1, <1>2, <1>5, <1>6, FirstDigits

(* An integer that fits neither.                                           *)
LEMMA NotUnsignedStep == WriterInv /\ Writer!NotUnsigned => WriterInv'
<1> SUFFICES ASSUME WriterInv, Writer!NotUnsigned PROVE WriterInv' OBVIOUS
<1>1. /\ state = "ulong" /\ ~Writer!IsUnsigned /\ UNCHANGED <<int, type, out>>
      /\ state' = "raw"
  BY DEF Writer!NotUnsigned
<1>2. int \in Int /\ int \notin -Half..(Half - 1)
  BY <1>1 DEF WriterInv, Classified
<1>3. int \notin 0..(2 * Half - 1)
  BY <1>1, <1>2
     DEF Writer!IsUnsigned, Writer!AsUnsignedLongLong, Writer!UnsignedOverflows
<1>4. int \notin -Half..(Full - 1) BY <1>2, <1>3, Widths
<1>5. Full' = Full BY DEF Full
<1> QED BY <1>1, <1>2, <1>4, <1>5 DEF WriterInv, Classified, WritesDigits

(* Its text is copied.                                                     *)
LEMMA WriteRawStep == WriterInv /\ Writer!WriteRaw => WriterInv'
<1> SUFFICES ASSUME WriterInv, Writer!WriteRaw PROVE WriterInv' OBVIOUS
<1>1. /\ state = "raw" /\ UNCHANGED int
      /\ type' = "raw" /\ out' = Writer!Str(int) /\ state' = "done"
  BY DEF Writer!WriteRaw
<1>2. int \in Int /\ int \notin -Half..(Full - 1)
  BY <1>1 DEF WriterInv, Classified
<1>3. FitsNot' BY <1>1, <1>2 DEF FitsNot, Full
<1>4. out' = Sign \o Decimal[Absolute] BY <1>1, <1>2, Text
<1>5. (out = Sign \o Decimal[Absolute])'
  BY <1>1, <1>4 DEF Sign, Absolute, Decimal
<1> QED BY <1>1, <1>2, <1>3, <1>5 DEF WriterInv, Classified, WritesDigits

(* A digit goes from the decimal of what is left to what was written.      *)
LEMMA WriteDigitStep == WriterInv /\ Writer!WriteDigit => WriterInv'
<1> SUFFICES ASSUME WriterInv, Writer!WriteDigit PROVE WriterInv' OBVIOUS
<1> DEFINE q == uvalue \div 10
           c == 48 + (uvalue % 10)
<1>1. /\ state = "digits" /\ UNCHANGED <<int, type, scalar>>
      /\ out' = Append(out, c) /\ uvalue' = q
      /\ state' = IF q # 0 THEN "digits" ELSE "sign"
  BY DEF Writer!WriteDigit, Writer!More
<1>2. /\ int \in Int /\ Fits /\ out \in Seq(Int) /\ uvalue \in Nat
      /\ Decimal[Absolute] = Decimal[uvalue] \o Reverse(out)
  BY <1>1 DEF WriterInv, Classified, WritesDigits
<1>3. /\ q \in Nat /\ c \in Int
      /\ q # 0 => Decimal[uvalue] = Append(Decimal[q], c)
      /\ q = 0 => Decimal[uvalue] = <<c>>
  BY <1>2, DecimalLast DEF Digit
<1> HIDE DEF q, c
<1>4. /\ out' \in Seq(Int) /\ Reverse(out) \in Seq(Int)
      /\ Reverse(out') = <<c>> \o Reverse(out)
  BY <1>1, <1>2, <1>3, ReverseAppend
<1>5. Fits' BY <1>1, <1>2 DEF Fits, Full
<1>6. Absolute' = Absolute BY <1>1 DEF Absolute
<1>7. q # 0 => Decimal[Absolute] = Decimal[q] \o Reverse(out')
  <2> SUFFICES ASSUME q # 0
               PROVE  Decimal[Absolute] = Decimal[q] \o Reverse(out')
    OBVIOUS
  <2>1. Decimal[q] \in Seq(Int) BY <1>3, DecimalInts
  <2>2. Append(Decimal[q], c) \o Reverse(out) = Decimal[q] \o Reverse(out')
    <3> DEFINE s == Decimal[q]
               t == Reverse(out)
    <3>1. s \in Seq(Int) /\ t \in Seq(Int) BY <1>4, <2>1
    <3> HIDE DEF s, t
    <3>2. Append(s, c) \o t = s \o (<<c>> \o t) BY <1>3, <3>1, MoveDigit
    <3> QED BY <1>4, <3>2 DEF s, t
  <2> QED BY <1>2, <1>3, <2>2
<1>8. q = 0 => Decimal[Absolute] = Reverse(out') BY <1>2, <1>3, <1>4
<1>9. /\ Reverse(out)' = Reverse(out')
      /\ Decimal[Absolute]' = Decimal[Absolute]
      /\ Decimal[uvalue]' = Decimal[q]
  BY <1>1, <1>6 DEF Decimal, Reverse, Writer!Reverse
<1>10. Classified' BY <1>1, <1>5 DEF Classified
<1>11. WritesDigits'
  <2>1. CASE q # 0
    BY <1>1, <1>3, <1>4, <1>7, <1>9, <2>1 DEF WritesDigits
  <2>2. CASE q = 0
    BY <1>1, <1>3, <1>4, <1>8, <1>9, <2>2 DEF WritesDigits
  <2> QED BY <2>1, <2>2
<1> QED BY <1>1, <1>2, <1>10, <1>11 DEF WriterInv

(* The sign is written last, and stands first after the reversal.          *)
LEMMA FinishNumberStep == WriterInv /\ Writer!FinishNumber => WriterInv'
<1> SUFFICES ASSUME WriterInv, Writer!FinishNumber PROVE WriterInv' OBVIOUS
<1>1. /\ state = "sign" /\ state' = "done" /\ UNCHANGED <<int, type, scalar>>
      /\ out' = Reverse(IF Writer!IsNegative THEN Append(out, 45) ELSE out)
  BY DEF Writer!FinishNumber, Reverse
<1>2. /\ int \in Int /\ Fits /\ out \in Seq(Int)
      /\ Decimal[Absolute] = Reverse(out)
  BY <1>1 DEF WriterInv, Classified, WritesDigits
<1>3. Writer!IsNegative <=> int < 0
  BY <1>2, Widths DEF Writer!IsNegative, Fits
<1>4. out' = Sign \o Decimal[Absolute]
  <2>1. CASE int < 0
    <3>1. out' = <<45>> \o Reverse(out)
      BY <1>1, <1>2, <1>3, <2>1, ReverseAppend
    <3> QED BY <1>2, <2>1, <3>1 DEF Sign, Minus
  <2>2. CASE ~(int < 0)
    <3>1. out' = Reverse(out) /\ Reverse(out) \in Seq(Int)
      BY <1>1, <1>2, <1>3, <2>2, ReverseAppend
    <3>2. <<>> \o Reverse(out) = Reverse(out) BY <3>1
    <3> QED BY <1>2, <2>2, <3>1, <3>2 DEF Sign
  <2> QED BY <2>1, <2>2
<1>5. (out = Sign \o Decimal[Absolute])'
  BY <1>1, <1>4 DEF Sign, Absolute, Decimal
<1>6. Fits' BY <1>1, <1>2 DEF Fits, Full
<1> QED BY <1>1, <1>2, <1>5, <1>6 DEF WriterInv, Classified, WritesDigits

(* Every step of the writer keeps its invariant.                           *)
LEMMA WriterSteps == WriterInv /\ Writer!Next => WriterInv'
BY ClassifyLongStep, NotLongStep, ClassifyUnsignedStep, NotUnsignedStep,
   WriteRawStep, WriteDigitStep, FinishNumberStep DEF Writer!Next

(***************************************************************************)
(* The reader, given what was written.                                     *)
(***************************************************************************)
(* The sign, as decode_numeric keeps it, and where the digits begin.       *)
Signum == IF int < 0 THEN -1 ELSE 1
First == IF int < 0 THEN 2 ELSE 1

(* The digits read so far are the decimal of the number read so far.       *)
Reading ==
  /\ text = Sign \o Decimal[Absolute]
  /\ pc \in {"value", "integer", "done"}
  /\ pc = "integer" =>
       /\ intNeg = Signum /\ offset \in First..(Len(text) + 1)
       /\ offset = First => exact = 0
       /\ offset # First =>
            Decimal[exact] = SubSeq(Decimal[Absolute], 1, offset - First)
  /\ pc = "done" =>
       /\ intNeg = Signum /\ exact = Absolute /\ start = Len(text) + 1
       /\ event.kind \in Fixed \cup {"string"}
       /\ event.kind = "string" <=> hasError
       /\ event.kind = "unsigned" <=> ~hasError /\ intNeg = 1 /\ exact >= Half

(* The text, character by character.                                       *)
LEMMA TextAt ==
  ASSUME int \in Int, text = Sign \o Decimal[Absolute]
  PROVE  /\ Absolute \in Nat /\ First \in {1, 2}
         /\ Decimal[Absolute] \in Seq(Int)
         /\ Len(Decimal[Absolute]) \in Nat \ {0}
         /\ Len(text) = Len(Decimal[Absolute]) + (First - 1)
         /\ int < 0 <=> At(1) = Minus
         /\ \A i \in First..Len(text) :
              /\ i - (First - 1) \in 1..Len(Decimal[Absolute])
              /\ At(i) = Decimal[Absolute][i - (First - 1)]
              /\ At(i) \in Digit
<1> DEFINE D == Decimal[Absolute]
<1>1. Absolute \in Nat BY DEF Absolute
<1>2. D \in Seq(Digit) /\ D # <<>> BY <1>1, DecimalType
<1>3. D \in Seq(Int) BY <1>1, DecimalInts
<1> HIDE DEF D
<1>4. Len(D) \in Nat \ {0} BY <1>2
<1>5. text = Sign \o D BY DEF D
<1>6. CASE int < 0
  <2>1. text = <<Minus>> \o D /\ First = 2 BY <1>5, <1>6 DEF Sign, First
  <2>2. /\ Len(text) = Len(D) + 1 /\ text[1] = Minus
        /\ \A i \in 2..Len(text) : text[i] = D[i - 1]
    BY <1>3, <2>1 DEF Minus
  <2>3. \A i \in 2..Len(text) : i - 1 \in 1..Len(D) BY <1>4, <2>2
  <2>4. At(1) = Minus BY <1>4, <2>2 DEF At
  <2>5. \A i \in 2..Len(text) : At(i) = D[i - 1] /\ At(i) \in Digit
    BY <1>2, <2>2, <2>3 DEF At
  <2> QED BY <1>1, <1>3, <1>4, <1>6, <2>1, <2>2, <2>3, <2>4, <2>5 DEF D
<1>7. CASE ~(int < 0)
  <2>0. <<>> \o D = D BY <1>3, ConcatEmptySeq
  <2>1. text = D /\ First = 1 BY <1>5, <1>7, <2>0 DEF Sign, First
  <2>2. \A i \in 1..Len(text) : At(i) = D[i] /\ At(i) \in Digit
    BY <1>2, <2>1 DEF At
  <2>3. At(1) # Minus BY <1>4, <2>1, <2>2 DEF Minus, Digit
  <2>4. \A i \in 1..Len(text) : i - (1 - 1) = i BY <1>4, <2>1
  <2> QED BY <1>1, <1>3, <1>4, <1>7, <2>1, <2>2, <2>3, <2>4 DEF D
<1> QED BY <1>6, <1>7

(* The digits end where the text does, and then the number is read.        *)
LEMMA AtItsEnd ==
  ASSUME IInv, Reading, int \in Int, pc = "integer", Oct \notin Digit
  PROVE  offset = Len(text) + 1 /\ exact = Absolute /\ Oct = 0
<1> DEFINE D == Decimal[Absolute]
<1>1. text = Sign \o D /\ offset \in First..(Len(text) + 1)
  BY DEF Reading
<1>2. /\ Absolute \in Nat /\ First \in {1, 2}
      /\ D \in Seq(Int) /\ Len(D) \in Nat \ {0}
      /\ Len(text) = Len(D) + (First - 1)
      /\ \A i \in First..Len(text) : At(i) \in Digit
  BY <1>1, TextAt
<1>3. offset = Len(text) + 1 BY <1>1, <1>2 DEF Oct
<1>4. offset # First /\ offset - First = Len(D) BY <1>2, <1>3
<1>5. Decimal[exact] = SubSeq(D, 1, Len(D)) BY <1>4 DEF Reading
<1>6. SubSeq(D, 1, Len(D)) = D BY <1>2, SubSeqFull
<1>7. exact \in Nat BY DEF IInv, TypeOK
<1>8. exact = Absolute BY <1>2, <1>5, <1>6, <1>7, DecimalInjective
<1>9. Oct = 0 BY <1>2, <1>3 DEF Oct, At
<1> QED BY <1>3, <1>8, <1>9

(* The sign, if there is one.                                              *)
LEMMA ReadingBegins ==
  ASSUME IInv, Reading, int \in Int, UNCHANGED int,
         BeginInteger \/ BeginNegative \/ BeginWord
  PROVE  Reading'
<1> DEFINE D == Decimal[Absolute]
<1>0. D' = D /\ Sign' = Sign /\ First' = First /\ Signum' = Signum
      /\ Absolute' = Absolute
  BY DEF Absolute, Sign, First, Signum, Decimal
<1>1. text = Sign \o D BY DEF Reading
<1>2. /\ Absolute \in Nat /\ First \in {1, 2} /\ Len(D) \in Nat \ {0}
      /\ Len(text) = Len(D) + (First - 1)
      /\ int < 0 <=> At(1) = Minus
      /\ \A i \in First..Len(text) : At(i) \in Digit
  BY <1>1, TextAt
<1>3. pc = "value" /\ UNCHANGED text
  BY DEF BeginInteger, BeginNegative, BeginWord
<1>4. offset = 1 /\ intNeg = 1 /\ exact = 0 BY <1>3 DEF IInv, Fresh
<1>5. CASE BeginInteger
  <2>1. /\ At(1) \in Digit /\ pc' = "integer"
        /\ UNCHANGED <<offset, intNeg, exact>>
    BY <1>4, <1>5 DEF BeginInteger, Oct, digits
  <2>2. ~(int < 0) BY <1>2, <2>1 DEF Digit, Minus
  <2>3. First = 1 /\ Signum = 1 BY <2>2 DEF First, Signum
  <2>4. offset' = First' /\ intNeg' = Signum' /\ exact' = 0
        /\ offset' \in First'..(Len(text') + 1)
    BY <1>0, <1>2, <1>3, <1>4, <2>1, <2>3
  <2> QED BY <1>0, <1>1, <1>3, <2>1, <2>4 DEF Reading
<1>6. CASE BeginNegative
  <2>1. /\ At(1) = Minus /\ intNeg' = -1 /\ offset' = 2
        /\ UNCHANGED exact
        /\ At(2) # Initial("inf") => pc' = "integer"
    BY <1>4, <1>6 DEF BeginNegative, Oct, digits
  <2>2. int < 0 BY <1>2, <2>1
  <2>3. First = 2 /\ Signum = -1 BY <2>2 DEF First, Signum
  <2>4. At(2) \in Digit BY <1>2, <2>3
  <2>5. pc' = "integer"
    <3>1. Initial("inf") = 73 BY DEF Initial, Word
    <3> QED BY <2>1, <2>4, <3>1 DEF Digit
  <2>6. offset' = First' /\ intNeg' = Signum' /\ exact' = 0
        /\ offset' \in First'..(Len(text') + 1)
    BY <1>0, <1>2, <1>3, <1>4, <2>1, <2>3
  <2> QED BY <1>0, <1>1, <1>3, <2>5, <2>6 DEF Reading
<1>7. CASE BeginWord
  <2>1. PICK w \in DOMAIN Word : At(1) = Initial(w)
    BY <1>4, <1>7 DEF BeginWord, Oct
  <2>2. Initial(w) \in {116, 102, 110, 78, 73}
    BY DEF Word, Initial
  <2>3. At(1) \in Digit \cup {Minus}
    <3>1. CASE int < 0 BY <1>2, <3>1
    <3>2. CASE ~(int < 0)
      <4>1. First = 1 BY <3>2 DEF First
      <4> QED BY <1>2, <4>1
    <3> QED BY <3>1, <3>2
  <2> QED BY <2>1, <2>2, <2>3 DEF Digit, Minus
<1> QED BY <1>5, <1>6, <1>7

(* A digit more of the text is one more of the number.                     *)
LEMMA ReadingDigit ==
  ASSUME IInv, Reading, int \in Int, UNCHANGED int, ReadDigit
  PROVE  Reading'
<1> DEFINE D == Decimal[Absolute]
           k == offset - First
           v == Value(Oct)
<1>0. D' = D /\ Sign' = Sign /\ First' = First /\ Signum' = Signum
      /\ Absolute' = Absolute
  BY DEF Absolute, Sign, First, Signum, Decimal
<1>1. text = Sign \o D BY DEF Reading
<1>2. /\ Absolute \in Nat /\ First \in {1, 2} /\ Len(D) \in Nat \ {0}
      /\ D \in Seq(Int) /\ Len(text) = Len(D) + (First - 1)
      /\ \A i \in First..Len(text) :
              /\ i - (First - 1) \in 1..Len(D)
              /\ At(i) = D[i - (First - 1)]
              /\ At(i) \in Digit
  BY <1>1, TextAt
<1>3. /\ pc = "integer" /\ Oct \in Digit /\ UNCHANGED <<text, end, intNeg, pc>>
      /\ exact' = 10 * exact + v /\ offset' = offset + 1
  BY DEF ReadDigit
<1>4. exact \in Nat /\ offset \in Nat BY DEF IInv, TypeOK
<1>5. offset <= Len(text)
  <2>1. Oct # 0 BY <1>3 DEF Digit
  <2> QED BY <2>1, NotNull DEF IInv
<1>6. /\ intNeg = Signum /\ offset \in First..(Len(text) + 1)
      /\ offset = First => exact = 0
      /\ offset # First => Decimal[exact] = SubSeq(D, 1, k)
  BY <1>3 DEF Reading
<1>7. k \in 0..(Len(D) - 1) /\ D[k + 1] = Oct
  <2>1. offset \in First..Len(text) /\ offset - (First - 1) = k + 1
    BY <1>2, <1>4, <1>5, <1>6
  <2> QED BY <1>2, <2>1 DEF Oct
<1>8. v \in 0..9 /\ 48 + v = D[k + 1] BY <1>3, <1>7 DEF Digit, Value
<1>9. /\ SubSeq(D, 1, k + 1) = Append(SubSeq(D, 1, k), D[k + 1])
      /\ k = 0 => SubSeq(D, 1, k + 1) = <<D[1]>>
      /\ k # 0 => SubSeq(D, 1, k)[1] = D[1]
  <2> DEFINE s == D
             n == k
  <2>1. s \in Seq(Int) /\ n \in 0..(Len(s) - 1) BY <1>2, <1>7
  <2> HIDE DEF s, n
  <2>2. SubSeq(s, 1, n + 1) = Append(SubSeq(s, 1, n), s[n + 1])
    <3>1. 1 \in 1..Len(s) /\ n + 1 \in 1..Len(s) /\ (n + 1) - 1 = n
      BY <2>1
    <3>2. SubSeq(s, 1, n + 1) = SubSeq(s, 1, n) \o <<s[n + 1]>>
      BY <2>1, <3>1, SubSeqRecursiveSecond
    <3>3. SubSeq(s, 1, n) \in Seq(Int) /\ s[n + 1] \in Int BY <2>1
    <3> QED BY <3>2, <3>3, AppendIsConcat
  <2>3. n = 0 => SubSeq(s, 1, n + 1) = <<s[1]>>
    <3> SUFFICES ASSUME n = 0 PROVE SubSeq(s, 1, n + 1) = <<s[1]>>
      OBVIOUS
    <3>1. SubSeq(s, 1, n) = <<>> BY SubSeqEmpty
    <3>2. s[n + 1] = s[1] /\ s[1] \in Int BY <2>1
    <3> DEFINE e == s[1]
    <3>3. Append(<<>>, e) = <<e>> BY <3>2
    <3> QED BY <2>2, <3>1, <3>2, <3>3
  <2>4. n # 0 => SubSeq(s, 1, n)[1] = s[1] BY <2>1
  <2> QED BY <2>2, <2>3, <2>4 DEF s, n
<1>10. /\ offset' - First' = k + 1 /\ offset' # First'
       /\ offset' \in First'..(Len(text') + 1)
       /\ k = 0 <=> offset = First
  BY <1>0, <1>2, <1>3, <1>4, <1>5, <1>6
<1> HIDE DEF k, v
<1>11. Decimal[exact'] = SubSeq(D, 1, k + 1)
  <2>1. CASE k = 0
    <3>1. exact = 0 BY <1>6, <1>10, <2>1
    <3>2. exact' = v BY <1>3, <1>8, <3>1
    <3>5. v \in Nat /\ v < 10 BY <1>8
    <3>3. Decimal[v] = <<48 + v>> BY <3>5, DecimalCases, Zenon
    <3>4. SubSeq(D, 1, k + 1) = <<D[1]>> /\ D[k + 1] = D[1]
      BY <1>9, <2>1
    <3> QED BY <1>8, <3>2, <3>3, <3>4
  <2>2. CASE k # 0
    <3>1. Decimal[exact] = SubSeq(D, 1, k) BY <1>6, <1>10, <2>2
    <3>2. SubSeq(D, 1, k)[1] = D[1] BY <1>9, <2>2
    <3>3. exact # 0
      <4> SUFFICES ASSUME exact = 0 PROVE FALSE OBVIOUS
      <4>1. Decimal[0] = <<48>> BY DecimalCases
      <4>2. <<48>>[1] = D[1] BY <3>1, <3>2, <4>1
      <4>3. Absolute = 0 BY <1>2, <4>2, DecimalType
      <4>4. Len(D) = 1 BY <4>3, DecimalType
      <4> QED BY <1>7, <2>2, <4>4
    <3>4. Decimal[exact'] = Append(Decimal[exact], 48 + v)
      BY <1>3, <1>4, <1>8, <3>3, DecimalMore
    <3> QED BY <1>8, <1>9, <3>1, <3>4
  <2> QED BY <2>1, <2>2
<1>12. Decimal[exact]' = Decimal[exact'] BY DEF Decimal
<1>13. (Decimal[exact] = SubSeq(D, 1, offset - First))'
  BY <1>0, <1>10, <1>11, <1>12 DEF k
<1> QED BY <1>0, <1>1, <1>3, <1>6, <1>10, <1>13 DEF Reading

(* The callback of an integer.                                             *)
LEMMA ReadingEnds ==
  ASSUME IInv, Reading, int \in Int, UNCHANGED int,
         NewIntegerFromString \/ NewUnsignedLong \/ NewLong \/ NewInt
  PROVE  Reading'
<1>0. Decimal[Absolute]' = Decimal[Absolute] /\ Sign' = Sign
      /\ Signum' = Signum /\ Absolute' = Absolute /\ Half' = Half
  BY DEF Absolute, Sign, Signum, Decimal
<1>1. EndsInteger
  BY DEF NewIntegerFromString, NewUnsignedLong, NewLong, NewInt
<1>2. offset = Len(text) + 1 /\ exact = Absolute /\ intNeg = Signum
  BY <1>1, AtItsEnd DEF EndsInteger, Reading
<1>3. ~hasError => intValue = exact BY DEF IInv, NoticesOverflow
<1>4. PICK e : /\ Call(e, offset) /\ e.kind \in Fixed \cup {"string"}
               /\ e.kind = "string" <=> hasError
               /\ e.kind = "unsigned"
                    <=> ~hasError /\ intNeg = 1 /\ exact >= Half
  <2>1. CASE NewIntegerFromString
    <3> DEFINE e == [kind |-> "string", from |-> start, to |-> offset - 1]
    <3>1. Call(e, offset) /\ hasError BY <2>1 DEF NewIntegerFromString
    <3>2. e.kind = "string" OBVIOUS
    <3> HIDE DEF e
    <3> QED BY <3>1, <3>2
  <2>2. CASE NewUnsignedLong
    <3> DEFINE e == [kind |-> "unsigned", value |-> intValue]
    <3>1. Call(e, offset) /\ ~hasError /\ IsUnsigned
      BY <2>2 DEF NewUnsignedLong
    <3>2. e.kind = "unsigned" OBVIOUS
    <3> HIDE DEF e
    <3> QED BY <1>3, <3>1, <3>2 DEF Fixed, IsUnsigned
  <2>3. CASE NewLong
    <3> DEFINE e == [kind |-> "long", value |-> Signed(Product, Half)]
    <3>1. Call(e, offset) /\ ~hasError /\ ~IsUnsigned BY <2>3 DEF NewLong
    <3>2. e.kind = "long" OBVIOUS
    <3> HIDE DEF e
    <3> QED BY <1>3, <3>1, <3>2 DEF Fixed, IsUnsigned
  <2>4. CASE NewInt
    <3> DEFINE e == [kind |-> "int", value |-> Signed(Product, IntHalf)]
    <3>1. Call(e, offset) /\ ~hasError /\ ~IsUnsigned BY <2>4 DEF NewInt
    <3>2. e.kind = "int" OBVIOUS
    <3> HIDE DEF e
    <3> QED BY <1>3, <3>1, <3>2 DEF Fixed, IsUnsigned
  <2> QED BY <2>1, <2>2, <2>3, <2>4
<1>5. /\ event' = e /\ start' = offset /\ pc' = "done"
      /\ UNCHANGED <<text, end, intNeg, hasError, exact>>
  BY <1>4 DEF Call, digits
<1> QED BY <1>0, <1>2, <1>4, <1>5 DEF Reading, Fixed

(* Every step of the reader keeps that; none goes to a word or a double.   *)
LEMMA ReadingSteps ==
  ASSUME IInv, Reading, int \in Int, UNCHANGED int, Next
  PROVE  Reading'
<1>1. pc # "word" BY DEF Reading
<1>2. CASE BeginInteger \/ BeginNegative \/ BeginWord BY <1>2, ReadingBegins
<1>3. CASE ReadDigit BY <1>3, ReadingDigit
<1>4. CASE NewIntegerFromString \/ NewUnsignedLong \/ NewLong \/ NewInt
  BY <1>4, ReadingEnds
<1>5. CASE NewDouble
  <2>1. pc = "integer" /\ Oct \in {Point} \cup Exponent
    BY <1>5 DEF NewDouble
  <2>2. Oct \notin Digit /\ Oct # 0 BY <2>1 DEF Digit, Point, Exponent
  <2> QED BY <2>1, <2>2, AtItsEnd
<1>6. CASE ReadLetter \/ LastLetter \/ BadLetter
  BY <1>1, <1>6 DEF ReadLetter, LastLetter, BadLetter
<1>7. CASE Stopped
  BY <1>7 DEF Stopped, vars, Reading, Absolute, Sign, Signum, First, Decimal
<1> QED BY <1>2, <1>3, <1>4, <1>5, <1>6, <1>7 DEF Next

(***************************************************************************)
(* The round trip.                                                         *)
(***************************************************************************)
(* What holds before, between and after dumps and loads.                   *)
RoundTripInv ==
  /\ WriterInv
  /\ dumping => Begin /\ text = <<>>
  /\ ~dumping => /\ IInv
                 /\ \/ state = "done" /\ Reading
                    \/ state = "long"

(* At the end it says that the integer came back.                          *)
LEMMA ReadingInvariant ==
  RoundTripInv => RoundTripsInts
<1> SUFFICES ASSUME RoundTripInv PROVE RoundTripsInts OBVIOUS
<1>1. int \in Int BY DEF RoundTripInv, WriterInv
<1>2. dumping /\ state = "done" => out = Writer!Str(int)
  BY <1>1, Text DEF RoundTripInv, WriterInv, WritesDigits
<1>3. ASSUME pc = "done", text = out
      PROVE  /\ start = Len(out) + 1
             /\ type = "raw" <=> event.kind = "string"
             /\ type = "ulong" <=> event.kind = "unsigned"
             /\ type \in {"long", "ulong"} => event.value = int
  <2>1. ~dumping BY <1>3 DEF RoundTripInv, Begin
  <2>2. IInv BY <2>1 DEF RoundTripInv
  <2>3. state = "done" /\ Reading
    <3> SUFFICES ASSUME state = "long" PROVE FALSE BY <2>1 DEF RoundTripInv
    <3>1. out = <<>> BY DEF RoundTripInv, WriterInv, Classified
    <3> QED BY <1>3, <2>2, <3>1 DEF IInv, FirstIsScalar
  <2>4. /\ intNeg = Signum /\ exact = Absolute /\ start = Len(text) + 1
        /\ event.kind \in Fixed \cup {"string"}
        /\ event.kind = "string" <=> hasError
        /\ event.kind = "unsigned" <=> ~hasError /\ intNeg = 1 /\ exact >= Half
    BY <1>3, <2>3 DEF Reading
  <2>5. intNeg * exact = int BY <1>1, <2>4 DEF Signum, Absolute
  <2>6. hasError <=> int \notin -Half..(Full - 1)
    <3>1. hasError <=> exact > MaxIntValue BY <2>2 DEF IInv, NoticesOverflow
    <3> QED BY <1>1, <2>4, <3>1, Widths
            DEF MaxIntValue, MaxUnsigned, Signum, Absolute
  <2>7. Fits \/ FitsNot BY <2>3 DEF RoundTripInv, WriterInv, Classified
  <2>8. event.kind = "unsigned" <=> int \in Half..(Full - 1)
    BY <1>1, <2>4, <2>6, Widths DEF Signum, Absolute
  <2>9. type = "raw" <=> event.kind = "string"
    BY <1>1, <2>4, <2>6, <2>7, Widths DEF Fits, FitsNot
  <2>10. type = "ulong" <=> event.kind = "unsigned"
    BY <1>1, <2>7, <2>8, Widths DEF Fits, FitsNot
  <2>11. event.kind \in Fixed => event.value = int
    BY <2>2, <2>5 DEF IInv, ReportsItsNumber
  <2> QED BY <1>3, <2>4, <2>9, <2>10, <2>11
<1> QED BY <1>2, <1>3 DEF RoundTripsInts

(* It holds at first.                                                      *)
LEMMA RoundTripBegins == RoundTripInit => RoundTripInv
<1> SUFFICES ASSUME RoundTripInit PROVE RoundTripInv OBVIOUS
<1>1. Writer!Fresh BY DEF RoundTripInit, LoadOnly, DumpAndLoad, Writer!Init
<1>2. int \in Int
  <2>1. CASE LoadOnly BY <2>1 DEF LoadOnly
  <2>2. CASE DumpAndLoad BY <2>2, IntsAssumption DEF DumpAndLoad, Writer!Init
  <2> QED BY <2>1, <2>2 DEF RoundTripInit
<1>3. type = "invalid" /\ out = <<>> /\ state = "long"
  BY <1>1 DEF Writer!Fresh
<1>4. WriterInv BY <1>2, <1>3 DEF WriterInv, Classified, WritesDigits
<1>5. CASE LoadOnly
  BY <1>3, <1>4, <1>5, InitInvariant DEF LoadOnly, RoundTripInv
<1>6. CASE DumpAndLoad
  BY <1>4, <1>6 DEF DumpAndLoad, RoundTripInv
<1> QED BY <1>5, <1>6 DEF RoundTripInit

(* The text dumps returned is one decode_any takes to decode_numeric.      *)
LEMMA WrittenIsScalar ==
  int \in Int /\ text = Sign \o Decimal[Absolute]
    => text \in Seq(Byte) /\ FirstIsScalar
<1> SUFFICES ASSUME int \in Int, text = Sign \o Decimal[Absolute]
             PROVE  text \in Seq(Byte) /\ FirstIsScalar
  OBVIOUS
<1>1. /\ Absolute \in Nat /\ First \in {1, 2}
      /\ Len(Decimal[Absolute]) \in Nat \ {0}
      /\ Len(text) = Len(Decimal[Absolute]) + (First - 1)
      /\ int < 0 <=> At(1) = Minus
      /\ \A i \in First..Len(text) : At(i) \in Digit
  BY TextAt
<1>2. Sign \in Seq(Byte) /\ Decimal[Absolute] \in Seq(Byte)
  <2>1. Seq(Digit) \subseteq Seq(Byte) BY SeqMonotonic DEF Digit, Byte
  <2>2. <<Minus>> \in Seq(Byte) /\ <<>> \in Seq(Byte) BY DEF Byte, Minus
  <2>3. Sign \in Seq(Byte) BY <2>2 DEF Sign
  <2> QED BY <1>1, <2>1, <2>3, DecimalType
<1>3. text \in Seq(Byte) BY <1>2, ConcatProperties
<1>4. Len(text) >= 1 BY <1>1
<1>5. At(1) \in Digit \cup {Minus}
  <2>1. CASE int < 0 BY <1>1, <2>1
  <2>2. CASE ~(int < 0)
    <3>1. First = 1 BY <2>2 DEF First
    <3> QED BY <1>1, <1>4, <3>1
  <2> QED BY <2>1, <2>2
<1>6. text[1] \in Digit \cup {Minus} BY <1>4, <1>5 DEF At
<1>7. text # <<>> BY <1>4
<1> QED BY <1>3, <1>6, <1>7 DEF FirstIsScalar

(* The reader begins with what the writer wrote.                           *)
LEMMA PassStep == RoundTripInv /\ Pass => RoundTripInv'
<1> SUFFICES ASSUME RoundTripInv, Pass PROVE RoundTripInv' OBVIOUS
<1>1. /\ dumping /\ state = "done" /\ dumping' = FALSE /\ text' = out
      /\ UNCHANGED <<start, offset, intNeg, word, event, pc, digits>>
      /\ UNCHANGED <<int, type, scalar, uvalue, out, state>>
  BY DEF Pass, writing
<1>2. WriterInv /\ Begin BY <1>1 DEF RoundTripInv
<1>3. WriterInv'
  BY <1>1, <1>2
     DEF WriterInv, Classified, WritesDigits, Fits, FitsNot, Full, Sign,
         Absolute, Decimal, Reverse, Writer!Reverse
<1>4. Begin' BY <1>1, <1>2 DEF Begin, digits
<1>5. (int \in Int /\ text = Sign \o Decimal[Absolute])'
  BY <1>1, <1>2, <1>3 DEF WriterInv, WritesDigits
<1>6. (int \in Int /\ text = Sign \o Decimal[Absolute]
         => text \in Seq(Byte) /\ FirstIsScalar)'
  BY WrittenIsScalar, PTL
<1>7. (Begin /\ text \in Seq(Byte) /\ end \in 0..Len(text) /\ FirstIsScalar
         => IInv)'
  BY BeginInvariant, PTL
<1>10. end' \in 0..Len(text')
  <2>1. text' \in Seq(Byte) BY <1>5, <1>6
  <2>2. end' = Len(text') BY <1>1 DEF Pass
  <2> QED BY <2>1, <2>2
<1>8. IInv' BY <1>4, <1>5, <1>6, <1>7, <1>10
<1>9. Reading' BY <1>4, <1>5 DEF Reading, Begin
<1> QED BY <1>1, <1>3, <1>8, <1>9 DEF RoundTripInv

(* The steps of dumps keep it.                                             *)
LEMMA DumpStep == RoundTripInv /\ Dump => RoundTripInv'
<1> SUFFICES ASSUME RoundTripInv, Dump PROVE RoundTripInv' OBVIOUS
<1>1. dumping /\ Writer!Next /\ UNCHANGED <<vars, dumping>> BY DEF Dump
<1>2. WriterInv' BY <1>1, WriterSteps DEF RoundTripInv
<1>3. Begin' /\ text' = <<>> BY <1>1 DEF RoundTripInv, Begin, vars
<1> QED BY <1>1, <1>2, <1>3 DEF RoundTripInv

(* loads leaves what dumps did alone.                                      *)
LEMMA WritingUnchanged == WriterInv /\ UNCHANGED writing => WriterInv'
BY DEF writing, WriterInv, Classified, WritesDigits, Fits, FitsNot, Full, Sign,
       Absolute, Decimal, Reverse, Writer!Reverse

(* The steps of loads keep it.                                             *)
LEMMA LoadStep == RoundTripInv /\ Load => RoundTripInv'
<1> SUFFICES ASSUME RoundTripInv, Load PROVE RoundTripInv' OBVIOUS
<1>1. ~dumping /\ Next /\ dumping' = dumping /\ UNCHANGED writing BY DEF Load
<1>2. WriterInv' BY <1>1, WritingUnchanged DEF RoundTripInv
<1>3. IInv' BY <1>1, IInvSteps DEF RoundTripInv
<1>4. UNCHANGED <<int, state>> BY <1>1 DEF writing
<1>5. state = "done" /\ Reading => Reading'
  BY <1>1, <1>4, ReadingSteps DEF RoundTripInv, WriterInv
<1> QED BY <1>1, <1>2, <1>3, <1>4, <1>5 DEF RoundTripInv

(* So does a stutter.                                                      *)
LEMMA RoundTripStutter ==
  RoundTripInv /\ UNCHANGED roundTripVars => RoundTripInv'
<1> SUFFICES ASSUME RoundTripInv, UNCHANGED roundTripVars
             PROVE  RoundTripInv'
  OBVIOUS
<1>1. UNCHANGED <<vars, writing, dumping>> BY DEF roundTripVars
<1>2. WriterInv' BY <1>1, WritingUnchanged DEF RoundTripInv
<1>3. IInv => IInv' BY <1>1, StutterStep
<1>4. UNCHANGED <<int, state>> BY <1>1 DEF writing
<1>5. Reading => Reading'
  BY <1>1, <1>4 DEF vars, Reading, Absolute, Sign, Signum, First, Decimal
<1>6. Begin => Begin' BY <1>1 DEF vars, Begin
<1> QED BY <1>1, <1>2, <1>3, <1>4, <1>5, <1>6 DEF RoundTripInv, vars

(* Every integer is written as its decimal, read back as itself, and the   *)
(* two sides agree on which integers need their text.                      *)
THEOREM IntsRoundTrip == RoundTripSpec => []RoundTripsInts
<1>1. RoundTripInit => RoundTripInv BY RoundTripBegins
<1>2. RoundTripInv /\ [RoundTripNext]_roundTripVars => RoundTripInv'
  BY DumpStep, PassStep, LoadStep, RoundTripStutter DEF RoundTripNext
<1>3. RoundTripInv => RoundTripsInts BY ReadingInvariant
<1> QED BY <1>1, <1>2, <1>3, PTL DEF RoundTripSpec

(***************************************************************************)
(* Values of digits.                                                       *)
(***************************************************************************)
(* g has the values of the first digits of s, up to n of them.             *)
IsNaturals(g, s, n) ==
  g = [i \in 0..n |-> IF i = 0 THEN 0 ELSE 10 * g[i - 1] + Value(s[i])]

(* There is one: the recursive definition of Naturals is sound.            *)
LEMMA NaturalsExist ==
  ASSUME NEW s, NEW n \in Nat
  PROVE  \E g : IsNaturals(g, s, n)
<1> DEFINE S == {i \in Nat : \E g : IsNaturals(g, s, i)}
<1>1. ASSUME NEW k \in Nat, \A j \in 0..(k - 1) : j \in S
      PROVE  k \in S
  <2>1. CASE k = 0
    <3> DEFINE g == [i \in 0..0 |-> 0]
    <3>1. g = [i \in 0..0 |-> IF i = 0 THEN 0
                                ELSE 10 * g[i - 1] + Value(s[i])]
      OBVIOUS
    <3> HIDE DEF g
    <3>2. IsNaturals(g, s, 0) BY <3>1 DEF IsNaturals
    <3> QED BY <2>1, <3>2
  <2>2. CASE k >= 1
    <3>1. k - 1 \in S BY <1>1, <2>2
    <3>2. PICK h : IsNaturals(h, s, k - 1) BY <3>1
    <3> DEFINE v == 10 * h[k - 1] + Value(s[k])
               g == [i \in 0..k |-> IF i = k THEN v ELSE h[i]]
    <3>3. /\ g = [i \in 0..k |-> g[i]]
          /\ g[k] = v /\ \A i \in 0..(k - 1) : g[i] = h[i]
      BY <2>2
    <3> HIDE DEF g
    <3>4. ASSUME NEW i \in 0..k
          PROVE  g[i] = IF i = 0 THEN 0 ELSE 10 * g[i - 1] + Value(s[i])
      <4>1. CASE i = k
        <5>0. k - 1 \in 0..(k - 1) /\ k # 0 BY <2>2
        <5>1. g[k - 1] = h[k - 1] /\ k # 0 BY <3>3, <5>0, Zenon
        <5>2. v = 10 * g[k - 1] + Value(s[k]) BY <5>1, Zenon
        <5>3. g[k] = 10 * g[k - 1] + Value(s[k]) BY <3>3, <5>2
        <5> QED BY <4>1, <5>1, <5>3, Zenon
      <4>2. CASE i # k
        <5>1. i \in 0..(k - 1) /\ (i # 0 => i - 1 \in 0..(k - 1))
          BY <2>2, <4>2
        <5>2. h[i] = IF i = 0 THEN 0 ELSE 10 * h[i - 1] + Value(s[i])
          BY <3>2, <5>1 DEF IsNaturals
        <5> QED BY <3>3, <5>1, <5>2
      <4> QED BY <4>1, <4>2
    <3> QED BY <3>3, <3>4 DEF IsNaturals
  <2> QED BY <2>1, <2>2
<1> HIDE DEF S
<1>2. Nat \subseteq S BY <1>1, Induction
<1> QED BY <1>2 DEF S

(* A digit more.                                                           *)
LEMMA NaturalsDef ==
  ASSUME NEW s, Len(s) \in Nat
  PROVE  /\ Naturals(s)[0] = 0
         /\ \A i \in 1..Len(s) :
              Naturals(s)[i] = 10 * Naturals(s)[i - 1] + Value(s[i])
<1>1. PICK g : IsNaturals(g, s, Len(s)) BY NaturalsExist
<1>2. g = [i \in 0..Len(s) |->
             IF i = 0 THEN 0 ELSE 10 * g[i - 1] + Value(s[i])]
  BY <1>1 DEF IsNaturals
<1> DEFINE N == Naturals(s)
<1>3. N = [i \in 0..Len(s) |->
             IF i = 0 THEN 0 ELSE 10 * N[i - 1] + Value(s[i])]
  BY <1>2 DEF Naturals
<1> HIDE DEF N
<1>4. N[0] = 0 BY <1>3
<1>5. \A i \in 1..Len(s) : N[i] = 10 * N[i - 1] + Value(s[i]) BY <1>3
<1> QED BY <1>4, <1>5 DEF N

(* The value of n digits depends on no digit after them.                   *)
LEMMA NaturalsOfPrefix ==
  ASSUME NEW s, NEW t, Len(s) \in Nat, Len(t) \in Nat, NEW n \in Nat,
         n <= Len(s), n <= Len(t), \A i \in 1..n : s[i] = t[i]
  PROVE  Naturals(s)[n] = Naturals(t)[n]
<1> DEFINE S == {i \in Nat : i <= n => Naturals(s)[i] = Naturals(t)[i]}
<1>1. ASSUME NEW k \in Nat, \A j \in 0..(k - 1) : j \in S
      PROVE  k \in S
  <2> SUFFICES ASSUME k <= n PROVE Naturals(s)[k] = Naturals(t)[k]
    OBVIOUS
  <2>1. CASE k = 0 BY <2>1, NaturalsDef
  <2>2. CASE k >= 1
    <3>1. k - 1 \in S /\ k - 1 <= n /\ k \in 1..n BY <1>1, <2>2
    <3>2. Naturals(s)[k - 1] = Naturals(t)[k - 1] BY <3>1
    <3>3. k \in 1..Len(s) /\ k \in 1..Len(t) BY <3>1
    <3>4. s[k] = t[k] BY <3>1
    <3>5. Naturals(s)[k] = 10 * Naturals(s)[k - 1] + Value(s[k])
      BY <3>3, NaturalsDef
    <3>6. Naturals(t)[k] = 10 * Naturals(t)[k - 1] + Value(t[k])
      BY <3>3, NaturalsDef
    <3> QED BY <3>2, <3>4, <3>5, <3>6, Zenon
  <2> QED BY <2>1, <2>2
<1> HIDE DEF S
<1>2. Nat \subseteq S BY <1>1, Induction
<1> QED BY <1>2 DEF S

(***************************************************************************)
(* Slices of the text.                                                     *)
(***************************************************************************)
(* The grammar of a number, on the places of the text.                     *)
DigitsIn(a, b) == \A k \in a..b : At(k) \in Digit
OnlyDigits(a, b) == a <= b /\ DigitsIn(a, b)
IntIn(a, b) == OnlyDigits(a, b) /\ (At(a) = 48 => a = b)
FracIn(a, b) == b < a \/ (At(a) = Point /\ OnlyDigits(a + 1, b))
ExpIn(a, b) ==
  \/ b < a
  \/ At(a) \in Exponent /\ OnlyDigits(a + 1, b)
  \/ At(a) \in Exponent /\ a + 1 <= b /\ At(a + 1) \in {43, 45}
       /\ OnlyDigits(a + 2, b)

(* A part of the text has the characters the scanner looks at.             *)
LEMMA Slice ==
  ASSUME text \in Seq(Byte), NEW a \in Nat \ {0}, NEW b \in 0..Len(text)
  PROVE  LET s == SubSeq(text, a, b)
         IN /\ s \in Seq(Byte)
            /\ s = <<>> <=> b < a
            /\ a <= b => Len(s) = (b - a) + 1
            /\ b < a => Len(s) = 0
            /\ \A k \in 1..Len(s) : s[k] = At(a + (k - 1))
<1> DEFINE s == SubSeq(text, a, b)
<1>1. \A i \in a..b : text[i] \in Byte OBVIOUS
<1>2. /\ s \in Seq(Byte) /\ Len(s) = IF a <= b THEN b - a + 1 ELSE 0
      /\ \A i \in 1..(b - a + 1) : s[i] = text[a + i - 1]
  BY <1>1, SubSeqProperties
<1> HIDE DEF s
<1>3. ASSUME NEW k \in 1..Len(s) PROVE s[k] = At(a + (k - 1))
  <2>1. a <= b /\ k \in 1..(b - a + 1) BY <1>2
  <2>2. a + k - 1 = a + (k - 1) /\ a + (k - 1) <= Len(text) BY <2>1
  <2> QED BY <1>2, <2>1, <2>2 DEF At
<1>4. s = <<>> <=> b < a BY <1>2
<1> QED BY <1>2, <1>3, <1>4 DEF s

(* A part of a part.                                                       *)
LEMMA SliceOfSlice ==
  ASSUME text \in Seq(Byte), NEW p \in Nat \ {0}, NEW e \in 0..Len(text),
         p <= e + 1,
         NEW a \in Nat \ {0}, NEW b \in Nat, b <= (e - p) + 1
  PROVE  SubSeq(SubSeq(text, p, e), a, b)
           = SubSeq(text, p + (a - 1), p + (b - 1))
<1> DEFINE u == SubSeq(text, p, e)
           v == SubSeq(u, a, b)
           c == p + (a - 1)
           d == p + (b - 1)
           w == SubSeq(text, c, d)
<1>1. /\ u \in Seq(Byte) /\ Len(u) = (e - p) + 1
      /\ \A k \in 1..Len(u) : u[k] = At(p + (k - 1))
  <2>1. /\ u \in Seq(Byte)
        /\ p <= e => Len(u) = (e - p) + 1
        /\ e < p => Len(u) = 0
        /\ \A k \in 1..Len(u) : u[k] = At(p + (k - 1))
    BY Slice
  <2>2. Len(u) = (e - p) + 1 BY <2>1
  <2> QED BY <2>1, <2>2
<1>2. c \in Nat \ {0} /\ d \in 0..Len(text) BY <1>1
<1>3. /\ w \in Seq(Byte)
      /\ c <= d => Len(w) = (d - c) + 1
      /\ d < c => Len(w) = 0
      /\ \A k \in 1..Len(w) : w[k] = At(c + (k - 1))
  BY <1>2, Slice
<1>4. \A i \in a..b : u[i] \in Byte BY <1>1
<1> HIDE DEF u, w
<1>5. /\ v \in Seq(Byte) /\ Len(v) = IF a <= b THEN b - a + 1 ELSE 0
      /\ \A i \in 1..(b - a + 1) : v[i] = u[a + i - 1]
  BY <1>4, SubSeqProperties
<1> HIDE DEF v
<1>6. Len(v) = Len(w) /\ (Len(v) > 0 => a <= b)
  <2>1. (d - c) + 1 = (b - a) + 1 /\ (c <= d <=> a <= b) OBVIOUS
  <2>2. a <= b => Len(v) = (b - a) + 1 BY <1>5
  <2>3. ~(a <= b) => Len(v) = 0 BY <1>5
  <2>4. ~(c <= d) => d < c BY <1>2
  <2> HIDE DEF c, d
  <2> QED BY <1>3, <2>1, <2>2, <2>3, <2>4
<1>7. ASSUME NEW k \in 1..Len(v) PROVE v[k] = w[k]
  <2>1. a <= b /\ k \in 1..(b - a + 1) BY <1>5, <1>6
  <2>2. a + k - 1 \in 1..Len(u) BY <1>1, <2>1
  <2>3. p + ((a + k - 1) - 1) = c + (k - 1) BY <2>1
  <2> QED BY <1>1, <1>3, <1>5, <1>6, <2>1, <2>2, <2>3
<1>8. v = w BY <1>3, <1>5, <1>6, <1>7, SeqEqual
<1> QED BY <1>8 DEF u, v, w

(* The grammar of a part is that of its places.                            *)
LEMMA SliceIs ==
  ASSUME text \in Seq(Byte), NEW a \in Nat \ {0}, NEW b \in 0..Len(text)
  PROVE  LET s == SubSeq(text, a, b)
         IN /\ AllDigits(s) <=> OnlyDigits(a, b)
            /\ IsInt(s) <=> IntIn(a, b)
            /\ IsFrac(s) <=> FracIn(a, b)
            /\ IsExp(s) <=> ExpIn(a, b)
<1> DEFINE T(i) == SubSeq(text, i, b)
<1>1. ASSUME NEW i \in Nat \ {0}
      PROVE  /\ T(i) \in Seq(Byte)
             /\ T(i) = <<>> <=> b < i
             /\ i <= b => Len(T(i)) = (b - i) + 1
             /\ b < i => Len(T(i)) = 0
             /\ \A k \in 1..Len(T(i)) : T(i)[k] = At(i + (k - 1))
  BY Slice
<1>2. ASSUME NEW i \in Nat \ {0} PROVE AllDigits(T(i)) <=> OnlyDigits(i, b)
  <2>1. ASSUME AllDigits(T(i)) PROVE OnlyDigits(i, b)
    <3>1. i <= b BY <1>1, <2>1 DEF AllDigits
    <3>2. ASSUME NEW k \in i..b PROVE At(k) \in Digit
      <4>1. (k - i) + 1 \in 1..Len(T(i)) /\ i + (((k - i) + 1) - 1) = k
        BY <1>1, <3>1
      <4>2. T(i)[(k - i) + 1] = At(k) BY <1>1, <4>1
      <4>3. (k - i) + 1 \in DOMAIN T(i) BY <1>1, <4>1
      <4> QED BY <2>1, <4>2, <4>3 DEF AllDigits
    <3> QED BY <3>1, <3>2 DEF OnlyDigits, DigitsIn
  <2>2. ASSUME OnlyDigits(i, b) PROVE AllDigits(T(i))
    <3>1. i <= b /\ T(i) # <<>> /\ Len(T(i)) = (b - i) + 1
      BY <1>1, <2>2 DEF OnlyDigits
    <3>2. ASSUME NEW k \in DOMAIN T(i) PROVE T(i)[k] \in Digit
      <4>1. k \in 1..Len(T(i)) BY <1>1
      <4>2. i + (k - 1) \in i..b BY <3>1, <4>1
      <4>3. T(i)[k] = At(i + (k - 1)) BY <1>1, <4>1
      <4> QED BY <2>2, <4>2, <4>3 DEF OnlyDigits, DigitsIn
    <3> QED BY <3>1, <3>2 DEF AllDigits
  <2> QED BY <2>1, <2>2
<1>3. a <= b => T(a)[1] = At(a)
  <2> SUFFICES ASSUME a <= b PROVE T(a)[1] = At(a) OBVIOUS
  <2>1. 1 \in 1..Len(T(a)) /\ a + (1 - 1) = a BY <1>1
  <2> QED BY <1>1, <2>1
<1>4. a + 1 <= b => T(a)[2] = At(a + 1)
  <2> SUFFICES ASSUME a + 1 <= b PROVE T(a)[2] = At(a + 1) OBVIOUS
  <2>1. 2 \in 1..Len(T(a)) /\ a + (2 - 1) = a + 1 BY <1>1
  <2> QED BY <1>1, <2>1
<1>5. a <= b => Tail(T(a)) = T(a + 1)
  <2> SUFFICES ASSUME a <= b PROVE Tail(T(a)) = T(a + 1) OBVIOUS
  <2>1. a \in 1..Len(text) /\ b \in a..Len(text) BY DEF Byte
  <2> QED BY <2>1, HeadTailOfSubSeq
<1>6. a + 1 <= b => SubSeq(T(a), 3, Len(T(a))) = T(a + 2)
  <2> SUFFICES ASSUME a + 1 <= b
               PROVE  SubSeq(T(a), 3, Len(T(a))) = T(a + 2)
    OBVIOUS
  <2>1. Len(T(a)) = (b - a) + 1 /\ Len(T(a)) \in Nat BY <1>1
  <2>2. a + (3 - 1) = a + 2 /\ a + (Len(T(a)) - 1) = b BY <2>1
  <2>3. SubSeq(T(a), 3, Len(T(a)))
          = SubSeq(text, a + (3 - 1), a + (Len(T(a)) - 1))
    BY <2>1, SliceOfSlice
  <2> QED BY <2>2, <2>3
<1>0. b \in Nat /\ Len(text) \in Nat OBVIOUS
<1> HIDE DEF T
<1>7. AllDigits(T(a)) <=> OnlyDigits(a, b) BY <1>2
<1>8. IsInt(T(a)) <=> IntIn(a, b)
  <2>1. a <= b => Len(T(a)) = (b - a) + 1 BY <1>1
  <2>2. a <= b => (Len(T(a)) = 1 <=> a = b)
    <3>1. (b - a) + 1 = 1 <=> a = b BY <1>0
    <3> QED BY <2>1, <3>1
  <2> QED BY <1>3, <1>7, <2>2 DEF IsInt, IntIn, OnlyDigits
<1>9. AllDigits(T(a + 1)) <=> OnlyDigits(a + 1, b) BY <1>2
<1>10. AllDigits(T(a + 2)) <=> OnlyDigits(a + 2, b) BY <1>2
<1>11. T(a) = <<>> <=> b < a BY <1>1
<1>12. IsFrac(T(a)) <=> FracIn(a, b)
  <2>1. CASE b < a BY <1>11, <2>1 DEF IsFrac, FracIn
  <2>2. CASE ~(b < a)
    <3>1. a <= b BY <2>2
    <3> QED BY <1>3, <1>5, <1>9, <1>11, <2>2, <3>1 DEF IsFrac, FracIn
  <2> QED BY <2>1, <2>2
<1>13. IsExp(T(a)) <=> ExpIn(a, b)
  <2>1. CASE b < a BY <1>11, <2>1 DEF IsExp, ExpIn
  <2>2. CASE ~(b < a)
    <3>1. a <= b BY <2>2
    <3>0. Len(T(a)) = (b - a) + 1 BY <1>1, <3>1
    <3>2. Len(T(a)) > 1 <=> a + 1 <= b BY <3>0
    <3>3. T(a)[1] = At(a) /\ Tail(T(a)) = T(a + 1) BY <1>3, <1>5, <3>1
    <3> QED BY <1>4, <1>6, <1>9, <1>10, <1>11, <2>2, <3>2, <3>3
            DEF IsExp, ExpIn
  <2> QED BY <2>1, <2>2
<1> QED BY <1>7, <1>8, <1>12, <1>13 DEF T

(***************************************************************************)
(* How far the digits go.                                                  *)
(***************************************************************************)
(* What decodeDouble sees ends in what is no digit, so that digits end.     *)
LEMMA FirstNonDigit ==
  ASSUME text \in Seq(Byte), end \in 0..Len(text), NEW i \in 1..(end + 1)
  PROVE  \E m \in i..(end + 1) : DigitsIn(i, m - 1) /\ Seen(m) \notin Digit
<1> SUFFICES ASSUME \A m \in i..(end + 1) :
                      DigitsIn(i, m - 1) => Seen(m) \in Digit
             PROVE  FALSE
  OBVIOUS
<1> DEFINE S == {n \in Nat : i + n <= end + 1 => Seen(i + n) \in Digit}
<1>0. Len(text) \in Nat /\ end \in Nat OBVIOUS
<1>1. ASSUME NEW n \in Nat, \A j \in 0..(n - 1) : j \in S
      PROVE  n \in S
  <2> SUFFICES ASSUME i + n <= end + 1 PROVE Seen(i + n) \in Digit
    OBVIOUS
  <2>1. ASSUME NEW k \in i..((i + n) - 1) PROVE At(k) \in Digit
    <3>1. k - i \in 0..(n - 1) /\ i + (k - i) = k /\ k <= end + 1
      BY <1>0
    <3>2. Seen(k) \in Digit BY <1>1, <3>1
    <3> QED BY <3>2 DEF Seen, Digit
  <2>2. i + n \in i..(end + 1) BY <1>0
  <2> QED BY <2>1, <2>2 DEF DigitsIn
<1> HIDE DEF S
<1>2. Nat \subseteq S BY <1>1, Induction
<1>3. (end + 1) - i \in Nat /\ i + ((end + 1) - i) = end + 1
  BY <1>0
<1>4. Seen(end + 1) \in Digit
  <2> DEFINE n == (end + 1) - i
  <2>1. n \in S BY <1>2, <1>3
  <2>2. i + n <= end + 1 => Seen(i + n) \in Digit BY <2>1 DEF S
  <2> QED BY <1>0, <1>3, <2>2
<1> QED BY <1>0, <1>4 DEF Seen, Digit

(* StringToIeee passes digits up to the first other character.             *)
LEMMA PastDigitsIs ==
  ASSUME text \in Seq(Byte), end \in 0..Len(text), NEW i \in 1..(end + 1),
         NEW m \in i..(end + 1), DigitsIn(i, m - 1), Seen(m) \notin Digit
  PROVE  PastDigits(i) = m
<1> DEFINE D == {j \in i..end : \A k \in i..j : Seen(k) \in Digit}
<1>0. Len(text) \in Nat /\ end \in Nat OBVIOUS
<1>1. D = i..(m - 1)
  <2>1. ASSUME NEW j \in D PROVE j \in i..(m - 1)
    <3> SUFFICES ASSUME j >= m PROVE FALSE BY <1>0
    <3>1. m \in i..j BY <1>0
    <3> QED BY <3>1
  <2>2. ASSUME NEW j \in i..(m - 1) PROVE j \in D
    <3>1. j \in i..end /\ \A k \in i..j : k \in i..(m - 1) /\ k <= end
      BY <1>0
    <3> QED BY <3>1 DEF DigitsIn, Seen
  <2> QED BY <2>1, <2>2
<1>2. Cardinality(i..(m - 1)) = IF i > m - 1 THEN 0 ELSE (m - 1) - i + 1
  BY <1>0, FS_Interval
<1>3. PastDigits(i) = i + Cardinality(D) BY DEF PastDigits
<1> HIDE DEF D
<1> QED BY <1>0, <1>1, <1>2, <1>3

(* Wherever it begins, it stops within the text or at its end.             *)
LEMMA PastDigitsRange ==
  ASSUME text \in Seq(Byte), end \in 0..Len(text), NEW i \in 1..(end + 1)
  PROVE  /\ PastDigits(i) \in i..(end + 1)
         /\ DigitsIn(i, PastDigits(i) - 1)
         /\ Seen(PastDigits(i)) \notin Digit
BY FirstNonDigit, PastDigitsIs

(* What is seen and not null is within the text.                           *)
LEMMA Within ==
  ASSUME text \in Seq(Byte), end \in 0..Len(text), NEW i \in 1..(end + 1), Seen(i) # 0
  PROVE  i + 1 \in 1..(end + 1) /\ At(i) = Seen(i)
<1>0. Len(text) \in Nat /\ end \in Nat OBVIOUS
<1> QED BY <1>0 DEF Seen

(* A point is passed with the digits after it, if any.                     *)
LEMMA PastPointIs ==
  ASSUME text \in Seq(Byte), end \in 0..Len(text), NEW a \in 1..(end + 1)
  PROVE  /\ PastPoint(a) \in a..(end + 1)
         /\ FracIn(a, PastPoint(a) - 1) \/ PastPoint(a) = a + 1
         /\ Seen(a) = Point => PastPoint(a) = PastDigits(a + 1)
         /\ Seen(a) = Point /\ Seen(a + 1) \in Digit => PastPoint(a) > a + 1
         /\ PastPoint(a) # a =>
              At(a) = Point /\ DigitsIn(a + 1, PastPoint(a) - 1)
<1>0. Len(text) \in Nat /\ end \in Nat OBVIOUS
<1>1. CASE Seen(a) = Point
  <2>1. a + 1 \in 1..(end + 1) /\ At(a) = Point
    BY <1>1, Within DEF Point
  <2>2. PastPoint(a) = PastDigits(a + 1) BY <1>1 DEF PastPoint
  <2>3. /\ PastDigits(a + 1) \in (a + 1)..(end + 1)
        /\ DigitsIn(a + 1, PastDigits(a + 1) - 1)
        /\ Seen(PastDigits(a + 1)) \notin Digit
    BY <2>1, PastDigitsRange
  <2> DEFINE b == PastDigits(a + 1)
  <2> HIDE DEF b
  <2>4. /\ b \in (a + 1)..(end + 1) /\ DigitsIn(a + 1, b - 1)
        /\ Seen(b) \notin Digit /\ PastPoint(a) = b
    BY <2>2, <2>3 DEF b
  <2>5. Seen(a + 1) \in Digit => b > a + 1 BY <1>0, <2>4
  <2>6. FracIn(a, b - 1) \/ b = a + 1
    BY <1>0, <2>1, <2>4 DEF FracIn, OnlyDigits
  <2>7. b \in a..(end + 1) BY <1>0, <2>4
  <2> QED BY <1>1, <2>1, <2>4, <2>5, <2>6, <2>7 DEF b
<1>2. CASE Seen(a) # Point
  <2>1. PastPoint(a) = a BY <1>2 DEF PastPoint
  <2>2. FracIn(a, a - 1) BY DEF FracIn
  <2> QED BY <1>0, <1>2, <2>1, <2>2
<1> QED BY <1>1, <1>2

(* An exponent is passed only with a digit, otherwise left alone.          *)
LEMMA PastExponentIs ==
  ASSUME text \in Seq(Byte), end \in 0..Len(text), NEW b \in 1..(end + 1)
  PROVE  /\ PastExponent(b) \in b..(end + 1)
         /\ ExpIn(b, PastExponent(b) - 1)
<1>0. Len(text) \in Nat /\ end \in Nat OBVIOUS
<1> DEFINE d == PastExponentSign(b + 1)
<1>1. CASE Seen(b) \in Exponent /\ Seen(d) \in Digit
  <2>1. b + 1 \in 1..(end + 1) /\ At(b) \in Exponent
    BY <1>1, Within DEF Exponent
  <2>2. \/ d = b + 1
        \/ d = b + 2 /\ Seen(b + 1) \in {43, 45}
    BY DEF PastExponentSign
  <2>3. d \in 1..(end + 1)
    <3>1. CASE d = b + 1 BY <2>1, <3>1
    <3>2. CASE d = b + 2 /\ Seen(b + 1) \in {43, 45}
      <4>1. (b + 1) + 1 \in 1..(end + 1) BY <2>1, <3>2, Within
      <4> QED BY <3>2, <4>1
    <3> QED BY <2>2, <3>1, <3>2
  <2> DEFINE c == PastDigits(d)
  <2>4. PastExponent(b) = c BY <1>1 DEF PastExponent
  <2>5. /\ c \in d..(end + 1) /\ DigitsIn(d, c - 1) /\ Seen(c) \notin Digit
    BY <2>3, PastDigitsRange
  <2> HIDE DEF d, c
  <2>6. c > d BY <1>0, <1>1, <2>3, <2>5
  <2>7. OnlyDigits(d, c - 1) BY <1>0, <2>3, <2>5, <2>6 DEF OnlyDigits
  <2>8. ExpIn(b, c - 1)
    <3>1. CASE d = b + 1 BY <2>1, <2>7, <3>1 DEF ExpIn
    <3>2. CASE d = b + 2 /\ Seen(b + 1) \in {43, 45}
      <4>1. b + 1 <= c - 1 BY <1>0, <2>5, <2>6, <3>2
      <4>2. At(b + 1) \in {43, 45} BY <2>1, <3>2, Within
      <4> QED BY <2>1, <2>7, <3>2, <4>1, <4>2 DEF ExpIn
    <3> QED BY <2>2, <3>1, <3>2
  <2>9. c \in b..(end + 1) BY <1>0, <2>2, <2>5
  <2> QED BY <2>4, <2>8, <2>9
<1>2. CASE ~(Seen(b) \in Exponent /\ Seen(d) \in Digit)
  <2>1. PastExponent(b) = b BY <1>2 DEF PastExponent
  <2>2. ExpIn(b, b - 1) BY DEF ExpIn
  <2> QED BY <1>0, <2>1, <2>2
<1> QED BY <1>1, <1>2

(***************************************************************************)
(* Past the sign.                                                          *)
(***************************************************************************)
Front == PastSign(1)

(* There is one character before it at most.                               *)
LEMMA FrontType ==
  ASSUME text \in Seq(Byte)
  PROVE  /\ Front \in {1, 2} /\ Front <= Len(text) + 1
         /\ Front = 2 <=> At(1) = Minus
<1>1. At(1) = Minus => Len(text) >= 1 BY DEF At, Minus
<1> QED BY <1>1 DEF Front, PastSign

(* What is left of a text without its sign begins there.                   *)
LEMMA UnsignedIs ==
  ASSUME text \in Seq(Byte), NEW e \in 0..Len(text)
  PROVE  Unsigned(SubSeq(text, 1, e)) = SubSeq(text, Front, e)
<1> DEFINE s == SubSeq(text, 1, e)
<1>0. Len(text) \in Nat OBVIOUS
<1>1. /\ s \in Seq(Byte)
      /\ s = <<>> <=> e < 1
      /\ 1 <= e => Len(s) = (e - 1) + 1
      /\ \A k \in 1..Len(s) : s[k] = At(1 + (k - 1))
  <2> DEFINE a == 1
             t == SubSeq(text, a, e)
  <2>1. a \in Nat \ {0} OBVIOUS
  <2> HIDE DEF a
  <2>2. /\ t \in Seq(Byte)
        /\ t = <<>> <=> e < a
        /\ a <= e => Len(t) = (e - a) + 1
        /\ \A k \in 1..Len(t) : t[k] = At(a + (k - 1))
    BY <2>1, Slice
  <2> QED BY <2>2 DEF a
<1>2. CASE e = 0
  <2>1. s = <<>> BY <1>1, <1>2
  <2>2. SubSeq(text, Front, e) = <<>> BY <1>2, FrontType, SubSeqEmpty
  <2> QED BY <2>1, <2>2 DEF Unsigned
<1>3. CASE e >= 1
  <2>1. s # <<>> /\ Len(s) = e BY <1>0, <1>1, <1>3
  <2>2. 1 \in 1..Len(s) /\ 1 + (1 - 1) = 1 BY <1>0, <1>3, <2>1
  <2>3. s[1] = At(1) BY <1>1, <2>2
  <2>4. CASE At(1) = Minus
    <3>1. Unsigned(s) = Tail(s) BY <2>1, <2>3, <2>4 DEF Unsigned
    <3>2. 1 \in 1..Len(text) /\ e \in 1..Len(text) BY <1>0, <1>3
    <3>3. Tail(s) = SubSeq(text, 1 + 1, e) BY <3>2, HeadTailOfSubSeq
    <3>4. Front = 1 + 1 BY <2>4, FrontType
    <3> QED BY <3>1, <3>3, <3>4
  <2>5. CASE At(1) # Minus
    <3>1. Unsigned(s) = s BY <2>1, <2>3, <2>5 DEF Unsigned
    <3>2. Front = 1 BY <2>5, FrontType
    <3> QED BY <3>1, <3>2
  <2> QED BY <2>4, <2>5
<1> QED BY <1>0, <1>2, <1>3

(* A part with only digits.                                                *)
LEMMA SliceDigits ==
  ASSUME text \in Seq(Byte), NEW a \in Nat \ {0}, NEW b \in 0..Len(text),
         DigitsIn(a, b)
  PROVE  LET s == SubSeq(text, a, b) IN \A i \in DOMAIN s : s[i] \in Digit
<1> DEFINE s == SubSeq(text, a, b)
<1>0. Len(text) \in Nat OBVIOUS
<1>1. /\ s \in Seq(Byte)
      /\ a <= b => Len(s) = (b - a) + 1
      /\ b < a => Len(s) = 0
      /\ \A k \in 1..Len(s) : s[k] = At(a + (k - 1))
  BY Slice
<1> HIDE DEF s
<1>2. ASSUME NEW i \in DOMAIN s PROVE s[i] \in Digit
  <2>1. i \in 1..Len(s) BY <1>1
  <2>2. a <= b BY <1>0, <1>1, <2>1
  <2>3. a + (i - 1) \in a..b BY <1>0, <1>1, <2>1, <2>2
  <2> QED BY <1>1, <2>1, <2>3 DEF DigitsIn
<1> QED BY <1>2 DEF s

(* What the tests tolerate, on the places of the text.                     *)
LEMMA ToleratedIs ==
  ASSUME text \in Seq(Byte), NEW e \in 0..Len(text),
         NEW a \in Front..(e + 1), NEW b \in a..(e + 1),
         DigitsIn(Front, a - 1),
         b = a \/ (At(a) = Point /\ DigitsIn(a + 1, b - 1)),
         ExpIn(b, e),
         a = Front => b # a + 1 /\ (b = a => e < Front)
  PROVE  IsTolerated(SubSeq(text, 1, e))
<1> DEFINE p == Front
           u == SubSeq(text, p, e)
           i == a - p
           j == b - p
           Digits(d) == \A k \in DOMAIN d : d[k] \in Digit
           point == SubSeq(u, i + 1, j)
<1>0. /\ Len(text) \in Nat /\ e \in Nat /\ a \in Nat /\ b \in Nat
      /\ p \in {1, 2} /\ p <= a /\ a <= e + 1 /\ a <= b /\ b <= e + 1
      /\ i \in Nat /\ j \in Nat
  BY FrontType
<1>1. Unsigned(SubSeq(text, 1, e)) = u BY UnsignedIs
<1>2. Len(u) = (e - p) + 1 /\ u \in Seq(Byte)
  <2>1. /\ u \in Seq(Byte)
        /\ p <= e => Len(u) = (e - p) + 1
        /\ e < p => Len(u) = 0
    BY <1>0, Slice
  <2> QED BY <1>0, <2>1
<1>3. i \in 0..Len(u) /\ j \in i..Len(u) BY <1>0, <1>2
<1>4. SubSeq(u, 1, i) = SubSeq(text, p, a - 1)
  <2>1. p \in Nat \ {0} /\ p <= e + 1 /\ 1 \in Nat \ {0} /\ i <= (e - p) + 1
    BY <1>0
  <2>2. SubSeq(u, 1, i) = SubSeq(text, p + (1 - 1), p + (i - 1))
    BY <1>0, <2>1, SliceOfSlice
  <2>3. p + (1 - 1) = p /\ p + (i - 1) = a - 1 BY <1>0
  <2> QED BY <2>2, <2>3
<1>5. point = SubSeq(text, a, b - 1)
  <2>1. p \in Nat \ {0} /\ p <= e + 1 /\ i + 1 \in Nat \ {0}
        /\ j <= (e - p) + 1
    BY <1>0
  <2>2. point = SubSeq(text, p + ((i + 1) - 1), p + (j - 1))
    BY <1>0, <2>1, SliceOfSlice
  <2>3. p + ((i + 1) - 1) = a /\ p + (j - 1) = b - 1 BY <1>0
  <2> QED BY <2>2, <2>3
<1>6. SubSeq(u, j + 1, Len(u)) = SubSeq(text, b, e)
  <2>1. p \in Nat \ {0} /\ p <= e + 1 /\ j + 1 \in Nat \ {0}
        /\ (e - p) + 1 \in Nat
    BY <1>0
  <2>2. SubSeq(u, j + 1, (e - p) + 1)
          = SubSeq(text, p + ((j + 1) - 1), p + (((e - p) + 1) - 1))
    BY <1>0, <2>1, SliceOfSlice
  <2>3. p + ((j + 1) - 1) = b /\ p + (((e - p) + 1) - 1) = e BY <1>0
  <2> QED BY <1>2, <2>2, <2>3
<1>7. a - 1 \in 0..Len(text) /\ b - 1 \in 0..Len(text) /\ p \in Nat \ {0}
      /\ a \in Nat \ {0} /\ b \in Nat \ {0}
  BY <1>0
<1>8. Digits(SubSeq(u, 1, i)) BY <1>4, <1>7, SliceDigits
<1>9. /\ point = <<>> <=> b - 1 < a
      /\ a <= b - 1 => Len(point) = ((b - 1) - a) + 1
      /\ b - 1 < a => Len(point) = 0
      /\ \A k \in 1..Len(point) : point[k] = At(a + (k - 1))
  <2> DEFINE t == SubSeq(text, a, b - 1)
  <2>1. /\ t = <<>> <=> b - 1 < a
        /\ a <= b - 1 => Len(t) = ((b - 1) - a) + 1
        /\ b - 1 < a => Len(t) = 0
        /\ \A k \in 1..Len(t) : t[k] = At(a + (k - 1))
    BY <1>7, Slice
  <2>2. point = t BY <1>5
  <2> HIDE DEF point, t
  <2> QED BY <2>1, <2>2
<1> HIDE DEF point
<1>10. point = <<>> \/ (point[1] = Point /\ Digits(Tail(point)))
  <2> SUFFICES ASSUME point # <<>>
               PROVE  point[1] = Point /\ Digits(Tail(point))
    OBVIOUS
  <2>1. a <= b - 1 /\ At(a) = Point /\ DigitsIn(a + 1, b - 1)
    BY <1>0, <1>9
  <2>2. 1 \in 1..Len(point) /\ a + (1 - 1) = a BY <1>0, <1>9, <2>1
  <2>3. point[1] = Point BY <1>9, <2>1, <2>2
  <2>4. a \in 1..Len(text) /\ b - 1 \in a..Len(text) BY <1>0, <2>1
  <2>5. Tail(point) = SubSeq(text, a + 1, b - 1)
    BY <1>5, <2>4, HeadTailOfSubSeq
  <2>6. a + 1 \in Nat \ {0} BY <1>0
  <2> QED BY <1>7, <2>1, <2>3, <2>5, <2>6, SliceDigits
<1>11. IsExp(SubSeq(u, j + 1, Len(u))) BY <1>0, <1>6, <1>7, SliceIs
<1>12. i = 0 => Len(point) # 1 /\ (point = <<>> => u = <<>>)
  <2> SUFFICES ASSUME i = 0
               PROVE  Len(point) # 1 /\ (point = <<>> => u = <<>>)
    OBVIOUS
  <2>1. a = p BY <1>0
  <2>2. b # a + 1 BY <2>1
  <2>6. \/ a <= b - 1 /\ ((b - 1) - a) + 1 # 1
        \/ b - 1 < a
    BY <1>0, <2>2
  <2>3. Len(point) # 1
    <3>1. CASE a <= b - 1 /\ ((b - 1) - a) + 1 # 1 BY <1>9, <3>1
    <3>2. CASE b - 1 < a
      <4>1. Len(point) = 0 BY <1>9, <3>2
      <4> QED BY <4>1
    <3> QED BY <2>6, <3>1, <3>2
  <2>4. point = <<>> => e < p BY <1>0, <1>9, <2>1
  <2>5. e < p => u = <<>> BY <1>0, SubSeqEmpty
  <2> QED BY <2>3, <2>4, <2>5
<1> HIDE DEF i, j, u
<1>13. \E m \in 0..Len(u) : \E n \in m..Len(u) :
         LET q == SubSeq(u, m + 1, n)
         IN /\ Digits(SubSeq(u, 1, m))
            /\ q = <<>> \/ (q[1] = Point /\ Digits(Tail(q)))
            /\ IsExp(SubSeq(u, n + 1, Len(u)))
            /\ m = 0 => Len(q) # 1 /\ (q = <<>> => u = <<>>)
  BY <1>3, <1>8, <1>10, <1>11, <1>12 DEF point
<1> QED BY <1>1, <1>13 DEF IsTolerated

(* Nothing is tolerated: StringToIeee came nowhere.                        *)
LEMMA NothingTolerated == IsTolerated(<<>>)
<1>1. Unsigned(<<>>) = <<>> BY DEF Unsigned
<1>2. SubSeq(<<>>, 0 + 1, 0) = <<>> /\ SubSeq(<<>>, 1, 0) = <<>>
      /\ Len(<<>>) = 0
  BY SubSeqEmpty
<1>3. IsExp(<<>>) BY DEF IsExp
<1> DEFINE Digits(d) == \A i \in DOMAIN d : d[i] \in Digit
           u == Unsigned(<<>>)
<1>4. Digits(<<>>) OBVIOUS
<1>5. /\ Len(u) = 0 /\ SubSeq(u, 1, 0) = <<>> /\ SubSeq(u, 0 + 1, 0) = <<>>
      /\ SubSeq(u, 0 + 1, Len(u)) = <<>>
  BY <1>1, <1>2
<1>6. 0 \in 0..Len(u) BY <1>5
<1>7. \E m \in 0..Len(u) : \E n \in m..Len(u) :
        LET q == SubSeq(u, m + 1, n)
        IN /\ Digits(SubSeq(u, 1, m))
           /\ q = <<>> \/ (q[1] = Point /\ Digits(Tail(q)))
           /\ IsExp(SubSeq(u, n + 1, Len(u)))
           /\ m = 0 => Len(q) # 1 /\ (q = <<>> => u = <<>>)
  <2>1. LET q == SubSeq(u, 0 + 1, 0)
        IN /\ Digits(SubSeq(u, 1, 0))
           /\ q = <<>> \/ (q[1] = Point /\ Digits(Tail(q)))
           /\ IsExp(SubSeq(u, 0 + 1, Len(u)))
           /\ 0 = 0 => Len(q) # 1 /\ (q = <<>> => u = <<>>)
    <3>1. u = <<>> /\ Len(SubSeq(u, 0 + 1, 0)) # 1 BY <1>1, <1>2, <1>5
    <3> HIDE DEF u, Digits
    <3> QED BY <1>3, <1>4, <1>5, <3>1, Zenon
  <2> HIDE DEF u, Digits
  <2> QED BY <1>6, <2>1, Zenon
<1> QED BY <1>7 DEF IsTolerated

(* A number of JSON, on the places of the text.                            *)
LEMMA NumberIs ==
  ASSUME text \in Seq(Byte), NEW n \in 1..Len(text),
         IsNumber(SubSeq(text, 1, n))
  PROVE  \E a \in (Front + 1)..(n + 1) : \E b \in a..(n + 1) :
           IntIn(Front, a - 1) /\ FracIn(a, b - 1) /\ ExpIn(b, n)
<1> DEFINE p == Front
           u == SubSeq(text, p, n)
<1>0. /\ Len(text) \in Nat /\ n \in 0..Len(text) /\ n \in Nat \ {0}
      /\ p \in {1, 2} /\ p \in Nat \ {0} /\ p <= n + 1
  BY FrontType
<1>1. Unsigned(SubSeq(text, 1, n)) = u BY <1>0, UnsignedIs
<1>2. Len(u) = (n - p) + 1
  <2>1. /\ p <= n => Len(u) = (n - p) + 1
        /\ n < p => Len(u) = 0
    BY <1>0, Slice
  <2> QED BY <1>0, <2>1
<1>11. PICK i \in 1..Len(u) :
         \E j \in i..Len(u) :
           /\ IsInt(SubSeq(u, 1, i)) /\ IsFrac(SubSeq(u, i + 1, j))
           /\ IsExp(SubSeq(u, j + 1, Len(u)))
  BY <1>1, Zenon DEF IsNumber
<1>3. PICK j \in i..Len(u) :
        /\ IsInt(SubSeq(u, 1, i)) /\ IsFrac(SubSeq(u, i + 1, j))
        /\ IsExp(SubSeq(u, j + 1, Len(u)))
  BY <1>11, Zenon
<1> DEFINE a == p + i
           b == p + j
<1>4. a \in (p + 1)..(n + 1) /\ b \in a..(n + 1) /\ i \in Nat /\ j \in Nat
      /\ a \in Nat \ {0} /\ b \in Nat \ {0}
      /\ a - 1 \in 0..Len(text) /\ b - 1 \in 0..Len(text)
      /\ i <= (n - p) + 1 /\ j <= (n - p) + 1
  BY <1>0, <1>2
<1>5. SubSeq(u, 1, i) = SubSeq(text, p, a - 1)
  <2>1. 1 \in Nat \ {0} OBVIOUS
  <2>2. SubSeq(u, 1, i) = SubSeq(text, p + (1 - 1), p + (i - 1))
    BY <1>0, <1>4, <2>1, SliceOfSlice
  <2>3. p + (1 - 1) = p /\ p + (i - 1) = a - 1 BY <1>0, <1>4
  <2> QED BY <2>2, <2>3
<1>6. SubSeq(u, i + 1, j) = SubSeq(text, a, b - 1)
  <2>1. i + 1 \in Nat \ {0} BY <1>4
  <2>2. SubSeq(u, i + 1, j) = SubSeq(text, p + ((i + 1) - 1), p + (j - 1))
    BY <1>0, <1>4, <2>1, SliceOfSlice
  <2>3. p + ((i + 1) - 1) = a /\ p + (j - 1) = b - 1 BY <1>0, <1>4
  <2> QED BY <2>2, <2>3
<1>7. SubSeq(u, j + 1, Len(u)) = SubSeq(text, b, n)
  <2>1. j + 1 \in Nat \ {0} /\ (n - p) + 1 \in Nat BY <1>0, <1>4
  <2>2. SubSeq(u, j + 1, (n - p) + 1)
          = SubSeq(text, p + ((j + 1) - 1), p + (((n - p) + 1) - 1))
    BY <1>0, <2>1, SliceOfSlice
  <2>3. p + ((j + 1) - 1) = b /\ p + (((n - p) + 1) - 1) = n BY <1>0, <1>4
  <2> QED BY <1>2, <2>2, <2>3
<1> HIDE DEF a, b, u
<1>8. IntIn(p, a - 1) BY <1>0, <1>3, <1>4, <1>5, SliceIs
<1>9. FracIn(a, b - 1) BY <1>3, <1>4, <1>6, SliceIs
<1>10. ExpIn(b, n) BY <1>0, <1>3, <1>4, <1>7, SliceIs
<1> QED BY <1>4, <1>8, <1>9, <1>10

(***************************************************************************)
(* Where the scanner is in the text, and what it made of it.               *)
(***************************************************************************)
(* What the scanner reads after the sign.                                  *)
Rest == SubSeq(text, Front, Len(text))

(* It read only digits, and counted them all.                              *)
InInteger ==
  /\ Front <= offset /\ DigitsIn(Front, offset - 1)
  /\ exact = Naturals(Rest)[offset - Front]

(* It read the letters before the one it looks for.                        *)
InWord == \A i \in 1..(Letter - 1) : At(Front + (i - 1)) = Word[word][i]

(* An integer ended at its first other character, not a double.            *)
AfterInteger ==
  /\ event.kind \in Fixed \cup {"string"}
  /\ start \in Front..(Len(text) + 1) /\ DigitsIn(Front, start - 1)
  /\ At(start) \notin Digit \cup {Point} \cup Exponent
  /\ exact = Naturals(Rest)[start - Front]

(* A double was read anew, since digits ended in a point or an exponent.   *)
AfterDouble ==
  /\ event.kind = "double" /\ start = PastDouble(1)
  /\ \E q \in Front..Len(text) :
       DigitsIn(Front, q - 1) /\ At(q) \in {Point} \cup Exponent

(* A word was read whole.                                                  *)
AfterWord ==
  /\ event.kind = "word" /\ event.word \in DOMAIN Word
  /\ start \in Front..(Len(text) + 1)
  /\ SubSeq(text, Front, start - 1) = Word[event.word]

(* The invariant.                                                          *)
ScanInv ==
  /\ pc = "integer" => InInteger
  /\ pc = "word" => InWord
  /\ pc = "done" => AfterInteger \/ AfterDouble \/ AfterWord

(* An integer is tolerated, with any zeros in front of it.                 *)
LEMMA AfterIntegerTolerated ==
  ASSUME IInv, AfterInteger PROVE IsTolerated(Before)
<1>0. text \in Seq(Byte) /\ Len(text) \in Nat BY DEF IInv, TypeOK
<1>1. Front \in {1, 2} BY <1>0, FrontType
<1> DEFINE a == start
           e == start - 1
<1>2. /\ e \in 0..Len(text) /\ a \in Front..(e + 1) /\ a \in a..(e + 1)
      /\ DigitsIn(Front, a - 1) /\ ExpIn(a, e) /\ e < a
      /\ a # a + 1
  BY <1>0, <1>1 DEF AfterInteger, ExpIn
<1>3. a = Front => e < Front BY <1>0, <1>1 DEF AfterInteger
<1> HIDE DEF a
<1>4. IsTolerated(SubSeq(text, 1, e)) BY <1>0, <1>2, <1>3, ToleratedIs
<1> QED BY <1>4 DEF Before

(* A double is tolerated, also when no digit was found in it.              *)
LEMMA AfterDoubleTolerated ==
  ASSUME IInv, AfterDouble PROVE IsTolerated(Before)
<1>0. text \in Seq(Byte) /\ Len(text) \in Nat /\ end \in 0..Len(text)
  BY DEF IInv, TypeOK
<1>1. Front \in {1, 2} /\ Front <= Len(text) + 1 BY <1>0, FrontType
<1>2. CASE HasDigit(Front)
  <2> DEFINE a == PastDigits(Front)
             b == PastPoint(a)
             e == PastExponent(b) - 1
  <2>0. Front \in 1..(end + 1)
    BY <1>0, <1>1, <1>2 DEF HasDigit, Seen, Digit, Point
  <2>1. start = PastExponent(b)
    BY <1>2 DEF AfterDouble, PastDouble, Front
  <2>2. /\ a \in Front..(end + 1) /\ DigitsIn(Front, a - 1)
        /\ Seen(a) \notin Digit
    BY <1>0, <2>0, PastDigitsRange
  <2> HIDE DEF a
  <2>3. a \in 1..(end + 1) BY <1>0, <1>1, <2>2
  <2>4. /\ b \in a..(end + 1)
        /\ Seen(a) = Point /\ Seen(a + 1) \in Digit => b > a + 1
        /\ b # a => At(a) = Point /\ DigitsIn(a + 1, b - 1)
    BY <1>0, <2>3, PastPointIs
  <2> HIDE DEF b
  <2>5. b \in 1..(end + 1) BY <1>0, <2>3, <2>4
  <2>6. start \in b..(end + 1) /\ ExpIn(b, e) /\ e = start - 1
    BY <1>0, <2>1, <2>5, PastExponentIs
  <2> HIDE DEF e
  <2>7. a = Front => Seen(a) = Point /\ Seen(a + 1) \in Digit
    BY <1>2, <2>2 DEF HasDigit
  <2>9. /\ e \in 0..Len(text) /\ a \in Front..(e + 1) /\ b \in a..(e + 1)
    BY <1>0, <1>1, <2>2, <2>3, <2>4, <2>5, <2>6
  <2>10. a = Front => b # a + 1 /\ b # a
    BY <1>0, <2>3, <2>4, <2>5, <2>7
  <2>11. IsTolerated(SubSeq(text, 1, e))
    BY <1>0, <2>2, <2>4, <2>6, <2>9, <2>10, ToleratedIs
  <2> QED BY <2>6, <2>11 DEF Before
<1>3. CASE ~HasDigit(Front)
  <2>1. start = 1 BY <1>3 DEF AfterDouble, PastDouble, Front
  <2>2. Before = <<>> BY <2>1, SubSeqEmpty DEF Before
  <2> QED BY <2>2, NothingTolerated
<1> QED BY <1>2, <1>3

(* At the end the invariant says what was taken.                           *)
LEMMA ScalarsTaken == IInv /\ ScanInv => TakesOnlyScalars
<1> SUFFICES ASSUME IInv, ScanInv, pc = "done"
             PROVE  IF event.kind = "word"
                      THEN Unsigned(Before) = Word[event.word]
                      ELSE IsTolerated(Before)
  BY DEF TakesOnlyScalars
<1>1. CASE AfterInteger
  <2>1. event.kind # "word" BY <1>1 DEF AfterInteger, Fixed
  <2> QED BY <1>1, <2>1, AfterIntegerTolerated
<1>2. CASE AfterDouble
  <2>1. event.kind # "word" BY <1>2 DEF AfterDouble
  <2> QED BY <1>2, <2>1, AfterDoubleTolerated
<1>3. CASE AfterWord
  <2>0. text \in Seq(Byte) /\ Len(text) \in Nat BY DEF IInv, TypeOK
  <2>1. Front \in {1, 2} BY <2>0, FrontType
  <2>2. start - 1 \in 0..Len(text) BY <1>3, <2>0, <2>1 DEF AfterWord
  <2>3. Unsigned(Before) = SubSeq(text, Front, start - 1)
    BY <2>0, <2>2, UnsignedIs DEF Before
  <2> QED BY <1>3, <2>3 DEF AfterWord
<1> QED BY <1>1, <1>2, <1>3 DEF ScanInv

(***************************************************************************)
(* A number of JSON.                                                       *)
(***************************************************************************)
(* The first n characters are a number of JSON: integer part before a,     *)
(* fraction before b, exponent after it; and what follows is no more of it.*)
NumberAt(n, a, b) ==
  /\ n \in 1..Len(text) /\ At(n + 1) \notin InNumber
  /\ a \in (Front + 1)..(n + 1) /\ b \in a..(n + 1)
  /\ IntIn(Front, a - 1) /\ FracIn(a, b - 1) /\ ExpIn(b, n)

(* The characters at which the parts begin tell them apart.                *)
LEMMA NumberShape ==
  ASSUME text \in Seq(Byte), NEW n, NEW a, NEW b, NumberAt(n, a, b)
  PROVE  /\ At(a) \notin Digit /\ At(b) \notin Digit \cup {Point}
         /\ b # a => At(a) = Point /\ OnlyDigits(a + 1, b - 1)
         /\ b = n + 1 \/ At(b) \in Exponent
         /\ a # n + 1 => At(a) \in {Point} \cup Exponent
<1> USE DEF NumberAt
<1>0. Len(text) \in Nat /\ Front \in {1, 2} /\ n \in Nat /\ a \in Nat
      /\ b \in Nat /\ a <= b /\ b <= n + 1
  <2>1. Front \in {1, 2} /\ Len(text) \in Nat BY FrontType
  <2> QED BY <2>1
<1>1. b = n + 1 \/ At(b) \in Exponent
  BY <1>0 DEF ExpIn
<1>2. At(b) \notin Digit \cup {Point}
  BY <1>1 DEF InNumber, Digit, Point, Exponent
<1>3. b # a => At(a) = Point /\ OnlyDigits(a + 1, b - 1)
  BY <1>0 DEF FracIn
<1>4. At(a) \notin Digit BY <1>2, <1>3 DEF Digit, Point
<1>5. a # n + 1 => At(a) \in {Point} \cup Exponent BY <1>1, <1>3
<1> QED BY <1>1, <1>2, <1>3, <1>4, <1>5

(* Where the first character that is no digit is, the integer part ends.   *)
LEMMA FirstNonDigitUnique ==
  ASSUME text \in Seq(Byte), NEW a \in Front..(Len(text) + 1),
         NEW m \in Front..(Len(text) + 1),
         DigitsIn(Front, a - 1), At(a) \notin Digit,
         DigitsIn(Front, m - 1), At(m) \notin Digit
  PROVE  m = a
<1>0. Len(text) \in Nat /\ Front \in {1, 2} BY FrontType
<1>1. ~(m < a)
  <2> SUFFICES ASSUME m < a PROVE FALSE OBVIOUS
  <2>1. m \in Front..(a - 1) BY <1>0
  <2> QED BY <2>1 DEF DigitsIn
<1>2. ~(a < m)
  <2> SUFFICES ASSUME a < m PROVE FALSE OBVIOUS
  <2>1. a \in Front..(m - 1) BY <1>0
  <2> QED BY <2>1 DEF DigitsIn
<1> QED BY <1>0, <1>1, <1>2

(* It is an integer if its digits go to its end.                           *)
LEMMA IsIntIs ==
  ASSUME text \in Seq(Byte), NEW n, NEW a, NEW b, NumberAt(n, a, b)
  PROVE  IsInt(Unsigned(SubSeq(text, 1, n))) <=> a = n + 1
<1>0. /\ n \in 0..Len(text) /\ Front \in Nat \ {0} /\ Front \in {1, 2}
      /\ n \in Nat /\ a \in Nat /\ Front + 1 <= a /\ a <= n + 1
  <2>1. Front \in {1, 2} /\ Len(text) \in Nat BY FrontType
  <2> QED BY <2>1 DEF NumberAt
<1>1. Unsigned(SubSeq(text, 1, n)) = SubSeq(text, Front, n)
  BY <1>0, UnsignedIs
<1>2. IsInt(SubSeq(text, Front, n)) <=> IntIn(Front, n) BY <1>0, SliceIs
<1>3. a = n + 1 => IntIn(Front, n) BY <1>0 DEF NumberAt
<1>4. IntIn(Front, n) => a = n + 1
  <2> SUFFICES ASSUME IntIn(Front, n), a # n + 1 PROVE FALSE OBVIOUS
  <2>1. a \in Front..n BY <1>0
  <2>2. At(a) \in Digit BY <2>1 DEF IntIn, OnlyDigits, DigitsIn
  <2> QED BY <2>2, NumberShape
<1> QED BY <1>1, <1>2, <1>3, <1>4

(* StringToIeee passes the whole number.                                   *)
LEMMA DoubleEnds ==
  ASSUME text \in Seq(Byte), end \in 0..Len(text),
         NEW n, NEW a, NEW b, NumberAt(n, a, b), n <= end
  PROVE  PastDouble(1) = n + 1
<1>0. /\ Len(text) \in Nat /\ Front \in {1, 2} /\ n \in 1..Len(text)
      /\ n \in Nat /\ a \in Nat /\ b \in Nat
      /\ Front + 1 <= a /\ a <= b /\ b <= n + 1
  <2>1. Front \in {1, 2} /\ Len(text) \in Nat BY FrontType
  <2> QED BY <2>1 DEF NumberAt
<1>1. /\ At(a) \notin Digit /\ At(b) \notin Digit \cup {Point}
      /\ b # a => At(a) = Point /\ OnlyDigits(a + 1, b - 1)
      /\ b = n + 1 \/ At(b) \in Exponent
  BY NumberShape
<1>2. OnlyDigits(Front, a - 1) BY DEF NumberAt, IntIn
<1>8. ASSUME NEW k \in Nat
      PROVE  (k <= n => Seen(k) = At(k)) /\ Seen(k) \in {At(k), 0}
  BY <1>0 DEF Seen
<1>9. Seen(a) \notin Digit /\ Seen(b) \notin Digit \cup {Point}
  BY <1>0, <1>1, <1>8 DEF Digit, Point
<1>3. HasDigit(Front)
  <2>1. Front \in Front..(a - 1) /\ Front \in Nat /\ Front <= n BY <1>0
  <2>2. Seen(Front) = At(Front) BY <2>1, <1>8
  <2> QED BY <1>2, <2>1, <2>2 DEF OnlyDigits, DigitsIn, HasDigit
<1>4. PastDigits(Front) = a
  <2>1. Front \in 1..(end + 1) /\ a \in Front..(end + 1) BY <1>0
  <2> QED BY <1>9, <1>2, <2>1, PastDigitsIs DEF OnlyDigits
<1>5. PastPoint(a) = b
  <2>1. CASE b = a
    <3>1. Seen(a) # Point BY <1>9, <2>1
    <3> QED BY <2>1, <3>1 DEF PastPoint
  <2>2. CASE b # a
    <3>1. At(a) = Point /\ DigitsIn(a + 1, b - 1)
      BY <1>1, <2>2 DEF OnlyDigits
    <3>2. a + 1 \in 1..(end + 1) /\ b \in (a + 1)..(end + 1)
      BY <1>0, <2>2
    <3>3. PastDigits(a + 1) = b BY <1>9, <3>1, <3>2, PastDigitsIs
    <3>4. Seen(a) = Point BY <1>0, <1>8, <2>2, <3>1
    <3> QED BY <3>3, <3>4 DEF PastPoint
  <2> QED BY <2>1, <2>2
<1>6. Seen(n + 1) \notin Digit /\ Seen(n + 1) \notin Exponent
  <2>1. At(n + 1) \notin Digit /\ At(n + 1) \notin Exponent
    BY DEF NumberAt, InNumber
  <2> QED BY <1>0, <1>8, <2>1 DEF Digit, Exponent
<1>7. PastExponent(b) = n + 1
  <2>1. CASE b = n + 1 BY <1>6, <2>1 DEF PastExponent
  <2>2. CASE b # n + 1
    <3>1. At(b) \in Exponent /\ b <= n BY <1>0, <1>1, <2>2
    <3>2. \/ OnlyDigits(b + 1, n)
          \/ b + 1 <= n /\ At(b + 1) \in {43, 45} /\ OnlyDigits(b + 2, n)
      BY <1>0, <3>1 DEF NumberAt, ExpIn
    <3> DEFINE d == PastExponentSign(b + 1)
    <3>3. OnlyDigits(d, n) /\ d \in {b + 1, b + 2}
      <4>1. CASE OnlyDigits(b + 1, n)
        <5>1. b + 1 \in (b + 1)..n BY <1>0, <4>1 DEF OnlyDigits
        <5>2. At(b + 1) \in Digit BY <4>1, <5>1 DEF OnlyDigits, DigitsIn
        <5>3. Seen(b + 1) = At(b + 1) BY <1>0, <1>8, <4>1 DEF OnlyDigits
        <5>4. d = b + 1 BY <5>2, <5>3 DEF PastExponentSign, Digit
        <5> QED BY <4>1, <5>4
      <4>2. CASE b + 1 <= n /\ At(b + 1) \in {43, 45} /\ OnlyDigits(b + 2, n)
        <5>3. Seen(b + 1) = At(b + 1) BY <1>0, <1>8, <4>2
        <5>1. d = (b + 1) + 1 BY <4>2, <5>3 DEF PastExponentSign
        <5>2. d = b + 2 BY <1>0, <5>1
        <5> QED BY <4>2, <5>2
      <4> QED BY <3>2, <4>1, <4>2
    <3> HIDE DEF d
    <3>4. /\ d \in Nat /\ d <= n /\ d \in 1..(end + 1)
          /\ n + 1 \in d..(end + 1) /\ (n + 1) - 1 = n /\ d \in d..n
      BY <1>0, <3>3 DEF OnlyDigits
    <3>5. Seen(d) \in Digit BY <1>8, <3>3, <3>4 DEF OnlyDigits, DigitsIn
    <3>6. PastDigits(d) = n + 1
      BY <1>6, <3>3, <3>4, PastDigitsIs DEF OnlyDigits
    <3>7. Seen(b) = At(b) BY <1>0, <1>8, <3>1
    <3> QED BY <3>1, <3>5, <3>6, <3>7 DEF PastExponent, d
  <2> QED BY <2>1, <2>2
<1> QED BY <1>3, <1>4, <1>5, <1>7 DEF PastDouble, Front

(* The value of the digits.                                                *)
LEMMA NaturalIs ==
  ASSUME text \in Seq(Byte), NEW n \in 1..Len(text), Front <= n
  PROVE  Natural(Unsigned(SubSeq(text, 1, n)))
           = Naturals(Rest)[(n + 1) - Front]
<1> DEFINE u == SubSeq(text, Front, n)
           k == (n + 1) - Front
<1>0. /\ Len(text) \in Nat /\ Front \in {1, 2} /\ Front \in Nat \ {0}
      /\ n \in 0..Len(text) /\ n \in Nat /\ Len(text) \in 0..Len(text)
  BY FrontType
<1>1. Unsigned(SubSeq(text, 1, n)) = u BY <1>0, UnsignedIs
<1>2. /\ Front <= n => Len(u) = (n - Front) + 1
      /\ \A i \in 1..Len(u) : u[i] = At(Front + (i - 1))
  BY <1>0, Slice
<1>3. /\ Front <= Len(text) => Len(Rest) = (Len(text) - Front) + 1
      /\ \A i \in 1..Len(Rest) : Rest[i] = At(Front + (i - 1))
  <2> DEFINE m == Len(text)
             v == SubSeq(text, Front, m)
  <2>1. m \in 0..Len(text) BY <1>0
  <2> HIDE DEF m
  <2>2. /\ Front <= m => Len(v) = (m - Front) + 1
        /\ \A i \in 1..Len(v) : v[i] = At(Front + (i - 1))
    BY <1>0, <2>1, Slice
  <2> QED BY <2>2 DEF m, Rest
<1> HIDE DEF u
<1>4. /\ k \in Nat /\ Len(u) = k /\ Len(Rest) \in Nat /\ k <= Len(Rest)
      /\ k <= k
  BY <1>0, <1>2, <1>3
<1> HIDE DEF k
<1>5. \A i \in 1..k : u[i] = Rest[i]
  <2> TAKE i \in 1..k
  <2>1. i \in 1..Len(u) /\ i \in 1..Len(Rest) BY <1>4
  <2> QED BY <1>2, <1>3, <2>1
<1>6. Naturals(u)[k] = Naturals(Rest)[k]
  BY <1>4, <1>5, NaturalsOfPrefix
<1> QED BY <1>1, <1>4, <1>6 DEF Natural, k

(* No word begins with a digit.                                            *)
LEMMA NoDigit ==
  ASSUME NEW w \in DOMAIN Word
  PROVE  Initial(w) \notin Digit
<1>1. CASE w = "true" BY <1>1 DEF Word, Initial, Digit
<1>2. CASE w = "false" BY <1>2 DEF Word, Initial, Digit
<1>3. CASE w = "null" BY <1>3 DEF Word, Initial, Digit
<1>4. CASE w = "nan" BY <1>4 DEF Word, Initial, Digit
<1>5. CASE w = "inf" BY <1>5 DEF Word, Initial, Digit
<1> QED BY <1>1, <1>2, <1>3, <1>4, <1>5 DEF Word

(* At the end a number of JSON has been read whole, as what it is.         *)
LEMMA NumberRead ==
  ASSUME IInv, ScanInv, pc = "done", NEW n, NEW a, NEW b, NumberAt(n, a, b),
         n <= end
  PROVE  /\ start = n + 1
         /\ event.kind = "double" <=> ~IsInt(Unsigned(SubSeq(text, 1, n)))
         /\ event.kind \in Fixed =>
              event.value
                = intNeg * Natural(Unsigned(SubSeq(text, 1, n)))
<1>1. text \in Seq(Byte) /\ end \in 0..Len(text) BY DEF IInv, TypeOK
<1>0. /\ Len(text) \in Nat /\ Front \in {1, 2} /\ n \in 1..Len(text)
      /\ n \in Nat /\ a \in Nat /\ b \in Nat
      /\ Front + 1 <= a /\ a <= b /\ b <= n + 1
  <2>1. Front \in {1, 2} /\ Len(text) \in Nat BY <1>1, FrontType
  <2> QED BY <2>1 DEF NumberAt
<1>2. /\ At(a) \notin Digit
      /\ b # a => At(a) = Point
      /\ b = n + 1 \/ At(b) \in Exponent
      /\ a # n + 1 => At(a) \in {Point} \cup Exponent
  BY <1>1, NumberShape
<1>3. DigitsIn(Front, a - 1) /\ a \in Front..(Len(text) + 1)
      /\ Front \in Front..(a - 1)
  BY <1>0 DEF NumberAt, IntIn, OnlyDigits
<1>4. IsInt(Unsigned(SubSeq(text, 1, n))) <=> a = n + 1 BY <1>1, IsIntIs
<1>5. CASE AfterInteger
  <2>1. /\ event.kind # "double"
        /\ start \in Front..(Len(text) + 1) /\ DigitsIn(Front, start - 1)
        /\ At(start) \notin Digit /\ At(start) \notin {Point} \cup Exponent
        /\ exact = Naturals(Rest)[start - Front]
    BY <1>5 DEF AfterInteger, Fixed
  <2>2. start = a BY <1>1, <1>2, <1>3, <2>1, FirstNonDigitUnique
  <2>3. a = n + 1 BY <1>2, <2>1, <2>2
  <2>4. exact = Natural(Unsigned(SubSeq(text, 1, n)))
    BY <1>0, <1>1, <2>1, <2>2, <2>3, NaturalIs
  <2>5. event.kind \in Fixed => event.value = intNeg * exact
    BY DEF IInv, ReportsItsNumber
  <2> QED BY <1>4, <2>1, <2>2, <2>3, <2>4, <2>5
<1>6. CASE AfterDouble
  <2>1. event.kind = "double" /\ event.kind \notin Fixed
    BY <1>6 DEF AfterDouble, Fixed
  <2>2. start = n + 1 BY <1>1, <1>6, DoubleEnds DEF AfterDouble
  <2>3. a # n + 1
    <3>1. PICK q \in Front..Len(text) :
            DigitsIn(Front, q - 1) /\ At(q) \in {Point} \cup Exponent
      BY <1>6 DEF AfterDouble
    <3>2. q \in Front..(Len(text) + 1) /\ At(q) \notin Digit
      BY <1>0, <3>1 DEF Digit, Point, Exponent
    <3>3. q = a BY <1>1, <1>2, <1>3, <3>1, <3>2, FirstNonDigitUnique
    <3>4. At(n + 1) \notin {Point} \cup Exponent BY DEF NumberAt, InNumber
    <3> QED BY <3>1, <3>3, <3>4
  <2> QED BY <1>4, <2>1, <2>2, <2>3
<1>7. CASE AfterWord
  <2> DEFINE w == event.word
             e == start - 1
             s == SubSeq(text, Front, e)
  <2>1. /\ w \in DOMAIN Word /\ start \in Front..(Len(text) + 1)
        /\ s = Word[w]
    BY <1>7 DEF AfterWord
  <2>2. e \in 0..Len(text) /\ Front \in Nat \ {0} BY <1>0, <2>1
  <2>3. /\ e < Front => Len(s) = 0
        /\ \A k \in 1..Len(s) : s[k] = At(Front + (k - 1))
    BY <1>1, <2>2, Slice
  <2> HIDE DEF s, e
  <2>4. Len(s) \in Nat /\ Len(s) > 1 BY <2>1, Letters
  <2>5. 1 \in 1..Len(s) /\ Front + (1 - 1) = Front BY <1>0, <2>4
  <2>6. At(Front) = Initial(w) BY <2>1, <2>3, <2>5 DEF Initial
  <2>7. At(Front) \in Digit BY <1>3 DEF DigitsIn
  <2>8. Initial(w) \notin Digit
    BY <2>1, NoDigit
  <2> QED BY <2>6, <2>7, <2>8
<1> QED BY <1>5, <1>6, <1>7 DEF ScanInv

(* So has each that is in the text.                                        *)
LEMMA NumbersRead == IInv /\ ScanInv => ReadsJsonNumbers
<1> SUFFICES ASSUME IInv, ScanInv, NEW n \in 1..end, pc = "done",
                    IsNumber(SubSeq(text, 1, n)), At(n + 1) \notin InNumber
             PROVE  LET number == SubSeq(text, 1, n)
                    IN /\ start = n + 1
                       /\ event.kind = "double" <=> ~IsInt(Unsigned(number))
                       /\ event.kind \in Fixed =>
                            event.value = intNeg * Natural(Unsigned(number))
  BY DEF ReadsJsonNumbers
<1>0. text \in Seq(Byte) /\ end \in 0..Len(text) BY DEF IInv, TypeOK
<1>1. /\ text \in Seq(Byte) /\ end \in 0..Len(text) /\ n \in 1..Len(text)
      /\ n <= end
  BY <1>0
<1>2. PICK a \in (Front + 1)..(n + 1) : \E b \in a..(n + 1) :
        IntIn(Front, a - 1) /\ FracIn(a, b - 1) /\ ExpIn(b, n)
  BY <1>1, NumberIs
<1>3. PICK b \in a..(n + 1) :
        IntIn(Front, a - 1) /\ FracIn(a, b - 1) /\ ExpIn(b, n)
  BY <1>2
<1>4. NumberAt(n, a, b) BY <1>1, <1>3 DEF NumberAt
<1> QED BY <1>1, <1>4, NumberRead

(* What the invariant of the scanner says of the places.                   *)
LEMMA Fronts ==
  ASSUME IInv
  PROVE  /\ text \in Seq(Byte) /\ Len(text) \in Nat /\ Front \in {1, 2}
         /\ Front <= Len(text) + 1 /\ offset \in Nat \ {0}
         /\ offset <= Len(text) + 1
         /\ pc # "done" => start = 1 /\ Letter = (offset - Front) + 1
<1>1. text \in Seq(Byte) /\ offset \in Nat \ {0} BY DEF IInv, TypeOK
<1>2. offset <= Len(text) + 1 BY DEF IInv, StopsAtNull
<1>3. pc # "done" => start = 1 BY DEF IInv, Fresh
<1>4. start = 1 => Letter = (offset - Front) + 1 BY DEF Letter, Front
<1> QED BY <1>1, <1>2, <1>3, <1>4, FrontType

(* Before the first digit nothing was counted.                             *)
LEMMA FirstDigit ==
  ASSUME IInv, offset = Front, exact = 0
  PROVE  InInteger
<1>1. Front \in Nat /\ text \in Seq(Byte) BY Fronts
<1>2. DigitsIn(Front, offset - 1) BY <1>1 DEF DigitsIn
<1>3. Len(Rest) \in Nat
  <2> DEFINE m == Len(text)
             v == SubSeq(text, Front, m)
  <2>1. m \in 0..Len(text) /\ Front \in Nat \ {0} BY Fronts
  <2> HIDE DEF m
  <2>2. v \in Seq(Byte) BY <1>1, <2>1, Slice
  <2>3. Rest \in Seq(Byte) BY <2>2 DEF m, Rest
  <2> QED BY <2>3
<1>4. Naturals(Rest)[0] = 0 BY <1>3, NaturalsDef
<1>5. offset - Front = 0 BY <1>1
<1> QED BY <1>1, <1>2, <1>4, <1>5 DEF InInteger

(* The text stays, and so do its parts.                                    *)
LEMMA SameText ==
  ASSUME text' = text
  PROVE  /\ Front' = Front /\ Rest' = Rest
         /\ \A i \in Int : At(i)' = At(i)
         /\ Len(text)' = Len(text)
BY DEF Front, Rest, PastSign, At

(* So does the end of a double.                                            *)
LEMMA SameDouble ==
  ASSUME text' = text, end' = end PROVE PastDouble(1)' = PastDouble(1)
<1>0. ASSUME NEW i PROVE At(i)' = At(i) BY Zenon DEF At
<1>2. ASSUME NEW i PROVE Seen(i)' = Seen(i) BY <1>0, Zenon DEF Seen
<1>1. ASSUME NEW i PROVE PastDigits(i)' = PastDigits(i)
  BY <1>2, Zenon DEF PastDigits
<1>3. ASSUME NEW i PROVE PastPoint(i)' = PastPoint(i)
  BY <1>1, <1>2, Zenon DEF PastPoint
<1>4. ASSUME NEW i PROVE PastExponent(i)' = PastExponent(i)
  BY <1>1, <1>2, Zenon DEF PastExponent, PastExponentSign
<1>5. HasDigit(PastSign(1))' = HasDigit(PastSign(1))
        /\ PastSign(1)' = PastSign(1)
  BY <1>0, <1>2, Zenon DEF HasDigit, PastSign
<1> QED BY <1>1, <1>3, <1>4, <1>5, Zenon DEF PastDouble

(* The first digit keeps the invariant.                                    *)
LEMMA BeginIntegerScan == IInv /\ BeginInteger => ScanInv'
<1> SUFFICES ASSUME IInv, BeginInteger PROVE ScanInv' OBVIOUS
<1>1. /\ pc = "value" /\ Oct \in Digit /\ pc' = "integer"
      /\ UNCHANGED <<text, end, start, offset, intNeg, word, event, digits>>
  BY DEF BeginInteger
<1>2. offset = 1 /\ exact = 0 BY <1>1 DEF IInv, Fresh
<1>3. Front = 1 BY <1>1, <1>2 DEF Oct, Front, PastSign, Digit, Minus
<1>4. InInteger BY <1>2, <1>3, FirstDigit
<1>5. InInteger'
  BY <1>1, <1>4
     DEF InInteger, DigitsIn, Rest, Front, PastSign, At, Naturals, digits
<1> QED BY <1>1, <1>5 DEF ScanInv

(* So does the sign, before a digit or a word.                             *)
LEMMA BeginNegativeScan == IInv /\ BeginNegative => ScanInv'
<1> SUFFICES ASSUME IInv, BeginNegative PROVE ScanInv' OBVIOUS
<1>1. /\ pc = "value" /\ Oct = Minus /\ offset' = offset + 1
      /\ pc' \in {"word", "integer"}
      /\ UNCHANGED <<text, end, start, event, digits>>
  BY DEF BeginNegative
<1>2. offset = 1 /\ exact = 0 /\ start = 1 BY <1>1 DEF IInv, Fresh
<1>3. Front = 2 BY <1>1, <1>2 DEF Oct, Front, PastSign
<1>4. Front' = 2 /\ offset' = 2 /\ exact' = 0 /\ start' = 1
  BY <1>1, <1>2, <1>3, SameText DEF digits
<1>5. InInteger'
  <2>1. IInv' BY BeginNegativeStep
  <2>2. (IInv /\ offset = Front /\ exact = 0 => InInteger)'
    BY FirstDigit, PTL
  <2> QED BY <1>4, <2>1, <2>2
<1>6. Letter' = 1 BY <1>4 DEF Letter, Front
<1>7. InWord' BY <1>6 DEF InWord
<1> QED BY <1>1, <1>5, <1>7 DEF ScanInv

(* So does the first letter of a word.                                     *)
LEMMA BeginWordScan == IInv /\ BeginWord => ScanInv'
<1> SUFFICES ASSUME IInv, BeginWord PROVE ScanInv' OBVIOUS
<1>1. /\ pc = "value" /\ pc' = "word"
      /\ UNCHANGED <<text, end, start, offset, intNeg, event, digits>>
      /\ \E w \in DOMAIN Word : Oct = Initial(w)
  BY DEF BeginWord
<1>2. offset = 1 /\ start = 1 BY <1>1 DEF IInv, Fresh
<1>3. At(1) # Minus BY <1>1, <1>2, Letters DEF Oct
<1>4. Front = 1 BY <1>3 DEF Front, PastSign
<1>5. Front' = 1 /\ offset' = 1 /\ start' = 1 BY <1>1, <1>2, <1>4, SameText
<1>6. Letter' = 1 BY <1>5 DEF Letter, Front
<1>7. InWord' BY <1>6 DEF InWord
<1> QED BY <1>1, <1>7 DEF ScanInv

(* So does a digit: the value of one digit more.                           *)
LEMMA ReadDigitScan == IInv /\ ScanInv /\ ReadDigit => ScanInv'
<1> SUFFICES ASSUME IInv, ScanInv, ReadDigit PROVE ScanInv' OBVIOUS
<1>1. /\ pc = "integer" /\ pc' = pc /\ Oct \in Digit /\ text' = text
      /\ offset' = offset + 1 /\ exact' = 10 * exact + Value(Oct)
  BY DEF ReadDigit
<1>2. InInteger BY <1>1 DEF ScanInv
<1>3. /\ text \in Seq(Byte) /\ Len(text) \in Nat /\ Front \in {1, 2}
      /\ offset \in Nat /\ Front \in Nat \ {0} /\ Front <= offset
      /\ At(offset) = Oct
  BY <1>2, Fronts DEF InInteger, Oct
<1>4. offset <= Len(text)
  BY <1>1, NotNull DEF IInv, Digit
<1>5. DigitsIn(Front, offset)
  <2> SUFFICES ASSUME NEW k \in Front..offset PROVE At(k) \in Digit
    BY DEF DigitsIn
  <2>1. k = offset \/ k \in Front..(offset - 1) BY <1>3
  <2> QED BY <1>1, <1>2, <1>3, <2>1 DEF InInteger, DigitsIn
<1>6. Naturals(Rest)[(offset + 1) - Front] = 10 * exact + Value(Oct)
  <2> DEFINE i == (offset + 1) - Front
             m == Len(text)
             v == SubSeq(text, Front, m)
  <2>1. m \in 0..Len(text) BY <1>3
  <2>0. m = Len(text) OBVIOUS
  <2> HIDE DEF m
  <2>2. /\ v \in Seq(Byte)
        /\ Front <= m => Len(v) = (m - Front) + 1
        /\ \A k \in 1..Len(v) : v[k] = At(Front + (k - 1))
    BY <1>3, <2>1, Slice
  <2>3. v = Rest BY <2>0 DEF Rest
  <2> HIDE DEF v
  <2>4. i \in 1..Len(v) /\ Front + (i - 1) = offset /\ i - 1 = offset - Front
        /\ Len(v) \in Nat
    BY <1>3, <1>4, <2>0, <2>2
  <2>5. v[i] = Oct BY <1>3, <2>2, <2>4
  <2>6. Naturals(v)[i] = 10 * Naturals(v)[i - 1] + Value(v[i])
    BY <2>4, NaturalsDef
  <2>7. Naturals(v)[i - 1] = exact BY <1>2, <2>3, <2>4 DEF InInteger
  <2> QED BY <2>3, <2>5, <2>6, <2>7
<1>7. InInteger'
  <2>1. Front' = Front /\ Rest' = Rest BY <1>1, SameText
  <2>2. offset' - 1 = offset BY <1>1, <1>3
  <2>3. DigitsIn(Front, offset - 1)'
    <3>1. \A k \in Front..offset : At(k)' \in Digit
      BY <1>1, <1>5 DEF DigitsIn, At
    <3> QED BY <2>1, <2>2, <3>1 DEF DigitsIn
  <2>4. Naturals(Rest)' = Naturals(Rest) BY <2>1 DEF Naturals
  <2>5. Front' <= offset' BY <1>1, <1>3, <2>1
  <2> QED BY <1>1, <1>6, <2>1, <2>3, <2>4, <2>5 DEF InInteger
<1> QED BY <1>1, <1>7 DEF ScanInv

(* So do the four ways to make an integer.                                 *)
LEMMA IntegerScan ==
  IInv /\ ScanInv
    /\ (NewIntegerFromString \/ NewUnsignedLong \/ NewLong \/ NewInt)
    => ScanInv'
<1> SUFFICES ASSUME IInv, ScanInv, NewIntegerFromString \/ NewUnsignedLong
                                     \/ NewLong \/ NewInt
             PROVE  ScanInv'
  OBVIOUS
<1>1. EndsInteger
  BY DEF NewIntegerFromString, NewUnsignedLong, NewLong, NewInt
<1>2. /\ event'.kind \in Fixed \cup {"string"} /\ start' = offset
      /\ pc' = "done" /\ UNCHANGED <<text, end, exact>>
  BY DEF NewIntegerFromString, NewUnsignedLong, NewLong, NewInt, Call,
         digits, Fixed
<1>3. InInteger /\ Oct \notin Digit \cup {Point} \cup Exponent
  BY <1>1 DEF EndsInteger, ScanInv
<1>4. Front' = Front /\ Rest' = Rest /\ Len(text)' = Len(text)
  BY <1>2, SameText
<1>5. offset \in Front..(Len(text) + 1) BY <1>3, Fronts DEF InInteger
<1>6. DigitsIn(Front, start - 1)'
  BY <1>2, <1>3, <1>4 DEF InInteger, DigitsIn, At
<1>7. At(start)' = Oct BY <1>2 DEF At, Oct
<1>8. Naturals(Rest)' = Naturals(Rest) BY <1>4 DEF Naturals
<1>9. exact' = Naturals(Rest)'[start' - Front']
  BY <1>2, <1>3, <1>4, <1>8 DEF InInteger
<1>10. AfterInteger'
  BY <1>2, <1>3, <1>4, <1>5, <1>6, <1>7, <1>9 DEF AfterInteger, Fixed
<1> QED BY <1>2, <1>10 DEF ScanInv

(* So does a double.                                                       *)
LEMMA NewDoubleScan == IInv /\ ScanInv /\ NewDouble => ScanInv'
<1> SUFFICES ASSUME IInv, ScanInv, NewDouble PROVE ScanInv' OBVIOUS
<1>1. /\ pc = "integer" /\ Oct \in {Point} \cup Exponent
      /\ event'.kind = "double" /\ start' = PastDouble(start)
      /\ pc' = "done" /\ UNCHANGED <<text, end>>
  BY DEF NewDouble, Call
<1>2. InInteger BY <1>1 DEF ScanInv
<1>3. start = 1 /\ offset \in Front..Len(text)
  <2>1. Oct # 0 BY <1>1 DEF Point, Exponent
  <2>2. offset <= Len(text) BY <2>1, NotNull DEF IInv
  <2> QED BY <1>1, <1>2, <2>2, Fronts DEF InInteger
<1>4. Front' = Front /\ Len(text)' = Len(text) BY <1>1, SameText
<1>5. PastDouble(1)' = PastDouble(1) BY <1>1, SameDouble
<1>6. DigitsIn(Front, offset - 1)
      /\ At(offset) \in {Point} \cup Exponent
  BY <1>1, <1>2 DEF InInteger, Oct
<1>7. \E q \in Front'..Len(text)' :
        (\A k \in Front'..(q - 1) : At(k)' \in Digit)
          /\ At(q)' \in {Point} \cup Exponent
  <2>0. ASSUME NEW k PROVE At(k)' = At(k) BY <1>1, Zenon DEF At
  <2>1. PICK q \in Front..Len(text) : q = offset BY <1>3
  <2>2. \A k \in Front..(q - 1) : At(k)' \in Digit
    BY <1>6, <2>0, <2>1 DEF DigitsIn
  <2>3. At(q)' \in {Point} \cup Exponent BY <1>6, <2>0, <2>1
  <2> QED BY <1>4, <2>2, <2>3
<1>8. AfterDouble'
  BY <1>1, <1>3, <1>5, <1>7 DEF AfterDouble, DigitsIn
<1> QED BY <1>1, <1>8 DEF ScanInv

(* So does a letter in the middle of a word.                               *)
LEMMA ReadLetterScan == IInv /\ ScanInv /\ ReadLetter => ScanInv'
<1> SUFFICES ASSUME IInv, ScanInv, ReadLetter PROVE ScanInv' OBVIOUS
<1>1. /\ pc = "word" /\ pc' = pc /\ Oct = Word[word][Letter]
      /\ offset' = offset + 1 /\ UNCHANGED <<text, end, start, word>>
  BY DEF ReadLetter
<1>2. InWord BY <1>1 DEF ScanInv
<1>3. /\ Front \in {1, 2} /\ start = 1 /\ Letter = (offset - Front) + 1
      /\ offset \in Nat
  BY <1>1, Fronts
<1>4. Front' = Front BY <1>1, SameText
<1>5. Letter' = ((offset + 1) - Front) + 1
  BY <1>1, <1>3, <1>4 DEF Letter, Front
<1>6. \A i \in 1..Letter : At(Front + (i - 1)) = Word[word][i]
  <2> TAKE i \in 1..Letter
  <2>1. CASE i = Letter
    <3>1. Front + (i - 1) = offset BY <1>3, <2>1
    <3> QED BY <1>1, <2>1, <3>1 DEF Oct
  <2>2. CASE i # Letter
    <3>1. i \in 1..(Letter - 1) BY <1>3, <2>2
    <3> QED BY <1>2, <3>1 DEF InWord
  <2> QED BY <2>1, <2>2
<1>7. Letter' - 1 = Letter BY <1>3, <1>5
<1>8. InWord' BY <1>1, <1>4, <1>6, <1>7 DEF InWord, At
<1> QED BY <1>1, <1>8 DEF ScanInv

(* The words are text.                                                     *)
LEMMA WordType ==
  ASSUME NEW w \in DOMAIN Word
  PROVE  Word[w] \in Seq(Byte)
<1>1. CASE w = "true" BY <1>1 DEF Word, Byte
<1>2. CASE w = "false" BY <1>2 DEF Word, Byte
<1>3. CASE w = "null" BY <1>3 DEF Word, Byte
<1>4. CASE w = "nan" BY <1>4 DEF Word, Byte
<1>5. CASE w = "inf" BY <1>5 DEF Word, Byte
<1> QED BY <1>1, <1>2, <1>3, <1>4, <1>5 DEF Word

(* A stutter keeps the invariant.                                          *)
LEMMA ScanStutter == ScanInv /\ UNCHANGED vars => ScanInv'
<1> SUFFICES ASSUME ScanInv, UNCHANGED vars PROVE ScanInv' OBVIOUS
<1>0. /\ UNCHANGED <<text, end, start, offset, word, event, pc, exact>>
      /\ text' = text
  BY DEF vars
<1>1. Front' = Front /\ Rest' = Rest /\ Len(text)' = Len(text)
  BY <1>0, SameText
<1>2. ASSUME NEW k PROVE At(k)' = At(k) BY <1>0, Zenon DEF At
<1>3. Naturals(Rest)' = Naturals(Rest) BY <1>1 DEF Naturals
<1>4. InInteger => InInteger'
  BY <1>0, <1>1, <1>2, <1>3, Zenon DEF InInteger, DigitsIn
<1>5. InWord => InWord'
  <2>1. Letter' = Letter BY <1>0, <1>2 DEF Letter, PastSign
  <2> QED BY <1>0, <1>1, <1>2, <2>1, Zenon DEF InWord
<1>6. AfterInteger => AfterInteger'
  BY <1>0, <1>1, <1>2, <1>3, Zenon DEF AfterInteger, DigitsIn
<1>7. AfterDouble => AfterDouble'
  <2>1. PastDouble(1)' = PastDouble(1) BY <1>0, SameDouble
  <2> QED BY <1>0, <1>1, <1>2, <2>1, Zenon DEF AfterDouble, DigitsIn
<1>8. AfterWord => AfterWord'
  BY <1>0, <1>1, Zenon DEF AfterWord
<1> QED BY <1>0, <1>4, <1>5, <1>6, <1>7, <1>8 DEF ScanInv

(* So does its last letter: the word is all there.                         *)
LEMMA LastLetterScan == IInv /\ ScanInv /\ LastLetter => ScanInv'
<1> SUFFICES ASSUME IInv, ScanInv, LastLetter PROVE ScanInv' OBVIOUS
<1>1. /\ pc = "word" /\ Oct = Word[word][Letter]
      /\ Letter = Len(Word[word])
      /\ event' = [kind |-> "word", word |-> word, sign |-> intNeg]
      /\ start' = offset + 1 /\ pc' = "done" /\ UNCHANGED text
  BY DEF LastLetter, Call
<1>2. InWord BY <1>1 DEF ScanInv
<1>3. /\ Front \in {1, 2} /\ Letter = (offset - Front) + 1
      /\ offset \in Nat /\ Front \in Nat \ {0} /\ text \in Seq(Byte)
      /\ Len(text) \in Nat
  BY <1>1, Fronts
<1>4. word \in DOMAIN Word BY <1>1 DEF IInv, OnItsLetter
<1>5. Letter \in Nat /\ Letter > 1 BY <1>1, <1>4, Letters
<1>6. offset \in 0..Len(text)
  <2>1. Oct # 0 BY <1>1, <1>4, <1>5, Letters
  <2> QED BY <1>3, <2>1, NotNull DEF IInv
<1> DEFINE s == SubSeq(text, Front, offset)
<1>7. /\ s \in Seq(Byte)
      /\ Front <= offset => Len(s) = (offset - Front) + 1
      /\ \A k \in 1..Len(s) : s[k] = At(Front + (k - 1))
  BY <1>3, <1>6, Slice
<1> HIDE DEF s
<1>8. Len(s) = Len(Word[word]) BY <1>1, <1>3, <1>5, <1>7
<1>9. \A i \in 1..Len(s) : s[i] = Word[word][i]
  <2> TAKE i \in 1..Len(s)
  <2>1. CASE i = Letter
    <3>1. Front + (i - 1) = offset BY <1>3, <2>1
    <3> QED BY <1>1, <1>7, <2>1, <3>1 DEF Oct
  <2>2. CASE i # Letter
    <3>0. Len(s) = Letter BY <1>1, <1>8
    <3>1. i \in 1..(Letter - 1) BY <1>5, <2>2, <3>0
    <3> QED BY <1>2, <1>7, <3>1 DEF InWord
  <2> QED BY <2>1, <2>2
<1>10. Word[word] \in Seq(Byte) BY <1>4, WordType
<1>11. s = Word[word] BY <1>7, <1>8, <1>9, <1>10, SeqEqual
<1>12. Front' = Front /\ Len(text)' = Len(text) /\ start' - 1 = offset
  BY <1>1, <1>3, SameText
<1>13. SubSeq(text, Front, start - 1)' = s BY <1>1, <1>12 DEF s
<1>14. start' \in Front'..(Len(text)' + 1)
  BY <1>1, <1>3, <1>5, <1>6, <1>12
<1>15. event'.kind = "word" /\ event'.word = word BY <1>1
<1>16. AfterWord'
  BY <1>4, <1>11, <1>13, <1>14, <1>15 DEF AfterWord
<1> QED BY <1>1, <1>16 DEF ScanInv

(* So does every step.                                                     *)
LEMMA ScanSteps == IInv /\ ScanInv /\ Next => ScanInv'
<1> SUFFICES ASSUME IInv, ScanInv, Next PROVE ScanInv' OBVIOUS
<1>1. CASE BadLetter BY <1>1 DEF BadLetter, ScanInv
<1>2. CASE Stopped
  BY <1>2, ScanStutter DEF Stopped
<1> QED BY <1>1, <1>2, BeginIntegerScan, BeginNegativeScan, BeginWordScan,
           ReadDigitScan, IntegerScan, NewDoubleScan, ReadLetterScan,
           LastLetterScan DEF Next

(* In the round trip there is nothing to say before loads begins.          *)
GrammarInv == RoundTripInv /\ (~dumping => ScanInv)

(* It holds at first.                                                      *)
LEMMA GrammarBegins == RoundTripInit => GrammarInv
<1> SUFFICES ASSUME RoundTripInit PROVE GrammarInv OBVIOUS
<1>1. Begin BY DEF RoundTripInit, LoadOnly, DumpAndLoad, Init
<1>2. ScanInv BY <1>1 DEF Begin, ScanInv
<1> QED BY <1>2, RoundTripBegins DEF GrammarInv

(* Every step keeps it; loads begins anew with the text of dumps.          *)
LEMMA GrammarStep == GrammarInv /\ [RoundTripNext]_roundTripVars => GrammarInv'
<1> SUFFICES ASSUME GrammarInv, [RoundTripNext]_roundTripVars
             PROVE  GrammarInv'
  OBVIOUS
<1>1. RoundTripInv'
  BY DumpStep, PassStep, LoadStep, RoundTripStutter
     DEF GrammarInv, RoundTripNext
<1>2. CASE Dump BY <1>1, <1>2 DEF Dump, GrammarInv
<1>3. CASE Pass
  <2>1. pc' = "value"
    BY <1>3 DEF Pass, GrammarInv, RoundTripInv, Begin
  <2> QED BY <1>1, <2>1 DEF GrammarInv, ScanInv
<1>4. CASE Load
  <2>1. IInv /\ ScanInv /\ Next
    BY <1>4 DEF Load, GrammarInv, RoundTripInv
  <2> QED BY <1>1, <2>1, ScanSteps DEF GrammarInv
<1>5. CASE UNCHANGED roundTripVars
  <2>1. UNCHANGED vars /\ dumping' = dumping BY <1>5 DEF roundTripVars
  <2> QED BY <1>1, <2>1, ScanStutter DEF GrammarInv
<1> QED BY <1>2, <1>3, <1>4, <1>5 DEF RoundTripNext

(* It gives the two properties.                                            *)
LEMMA GrammarInvariant == GrammarInv => ReadsJsonNumbers /\ TakesOnlyScalars
<1> SUFFICES ASSUME GrammarInv PROVE ReadsJsonNumbers /\ TakesOnlyScalars
  OBVIOUS
<1>1. CASE dumping
  <2>1. pc # "done" BY <1>1 DEF GrammarInv, RoundTripInv, Begin
  <2> QED BY <2>1 DEF ReadsJsonNumbers, TakesOnlyScalars
<1>2. CASE ~dumping
  BY <1>2, NumbersRead, ScalarsTaken DEF GrammarInv, RoundTripInv
<1> QED BY <1>1, <1>2

(* Every number of JSON, of every text, is read whole, as a double exactly *)
(* if it has a fraction or an exponent, and as its value if it is an       *)
(* integer.                                                                *)
THEOREM NumbersOfJsonRead == RoundTripSpec => []ReadsJsonNumbers
<1>1. RoundTripInit => GrammarInv BY GrammarBegins
<1>2. GrammarInv /\ [RoundTripNext]_roundTripVars => GrammarInv'
  BY GrammarStep
<1>3. GrammarInv => ReadsJsonNumbers BY GrammarInvariant
<1> QED BY <1>1, <1>2, <1>3, PTL DEF RoundTripSpec

(* Whatever the text, what is taken is a whole literal or a number, with   *)
(* the liberties the tests tolerate.                                       *)
THEOREM OnlyScalarsTaken == RoundTripSpec => []TakesOnlyScalars
<1>1. RoundTripInit => GrammarInv BY GrammarBegins
<1>2. GrammarInv /\ [RoundTripNext]_roundTripVars => GrammarInv'
  BY GrammarStep
<1>3. GrammarInv => TakesOnlyScalars BY GrammarInvariant
<1> QED BY <1>1, <1>2, <1>3, PTL DEF RoundTripSpec
==============================================================================
