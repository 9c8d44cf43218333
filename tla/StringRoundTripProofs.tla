------------------------ MODULE StringRoundTripProofs ------------------------
(***************************************************************************)
(* The escaper of the encoder, alone and with the scanner of the decoder   *)
(* that reads what it wrote, for every string and all options.             *)
(*                                                                         *)
(* Alone: it reads no byte beyond the end, writes no more than encode      *)
(* reserved, and leaves nothing in its output that JSON or the options     *)
(* forbid (IInv).                                                          *)
(*                                                                         *)
(* With the scanner: dumps accepts the strings that are UTF-8, and what it *)
(* wrote is loaded again.  The string read so far and the output written   *)
(* so far stand in one of three ways (Standing).  They agree (Live): the   *)
(* string up to io is a list of sequences of UTF-8, the output is one too, *)
(* and a list of characters to the reader, and the characters have the     *)
(* points of the sequences (Matches).  Or they did up to a sequence that   *)
(* is being copied byte by byte (Middle).  Or both have a place where no   *)
(* sequence begins, whatever is appended (Dead), and neither is UTF-8.     *)
(* At the end the second is over too, so the string is UTF-8 exactly when  *)
(* the output is (StandsAtEnd).  The characters of an output that agrees   *)
(* lead from the first quote to the last; that way is the only one         *)
(* (OnlyWay), and the scanner's invariant says that it is on a way: so it  *)
(* comes to the last quote, with the points of those characters            *)
(* (QuoteIsLast), and never to a place where it would refuse the text      *)
(* (NeverRefused).                                                         *)
(***************************************************************************)
EXTENDS StringRoundTrip, SequenceTheorems, TLAPS

IInv == TypeOK /\ FitsReserve /\ CleanOutput

(* What may be written for one character.                                  *)
Clean(bytes) ==
  \A i \in DOMAIN bytes :
    /\ bytes[i] >= 32
    /\ enc.encodeHTMLChars => bytes[i] \notin Html
    /\ bytes[i] \notin SequenceLead
    /\ bytes[i] = 34 => i > 1 /\ bytes[i - 1] = 92

(* Clean output stays clean when clean bytes are appended to it.           *)
LEMMA CleanConcat ==
  ASSUME NEW s \in Seq(Int), NEW t \in Seq(Int), Clean(s), Clean(t)
  PROVE  Clean(s \o t)
<1> SUFFICES ASSUME NEW i \in DOMAIN (s \o t)
             PROVE  /\ (s \o t)[i] >= 32
                    /\ enc.encodeHTMLChars => (s \o t)[i] \notin Html
                    /\ (s \o t)[i] \notin SequenceLead
                    /\ (s \o t)[i] = 34 => i > 1 /\ (s \o t)[i - 1] = 92
  BY DEF Clean
<1>1. CASE i <= Len(s)
  <2>1. i \in DOMAIN s /\ (s \o t)[i] = s[i] BY <1>1
  <2>2. i > 1 => (s \o t)[i - 1] = s[i - 1] BY <1>1
  <2> QED BY <2>1, <2>2 DEF Clean
<1>2. CASE i > Len(s)
  <2>1. i - Len(s) \in DOMAIN t /\ (s \o t)[i] = t[i - Len(s)] BY <1>2
  <2>2. i - Len(s) > 1 => (s \o t)[i - 1] = t[(i - Len(s)) - 1] BY <1>2
  <2>3. i \in Int /\ Len(s) \in Nat OBVIOUS
  <2> QED BY <2>1, <2>2, <2>3 DEF Clean
<1> QED BY <1>1, <1>2

(* Before the end there is a byte to look at.                              *)
LEMMA OctInString ==
  ASSUME TypeOK, ~AtEnd PROVE Oct \in Byte /\ io \in 1..Len(str)
<1>1. io \in 1..Len(str) BY DEF TypeOK, AtEnd
<1>2. str[io] \in Byte BY <1>1 DEF TypeOK
<1> QED BY <1>1, <1>2 DEF Oct, At

(* What is read at an index, past the end included.                        *)
LEMMA AtType == ASSUME TypeOK, NEW i \in Nat \ {0} PROVE At(i) \in Nat
<1>1. CASE i <= Len(str)
  <2>1. i \in 1..Len(str) BY <1>1 DEF TypeOK
  <2>2. str[i] \in Byte BY <2>1 DEF TypeOK
  <2>3. str[i] \in Nat BY <2>2 DEF Byte
  <2> QED BY <1>1, <2>3 DEF At
<1> QED BY <1>1 DEF At

(* Remainders and quotients are natural numbers.                           *)
LEMMA Quotient ==
  ASSUME NEW x \in Nat, NEW n \in Nat \ {0}
  PROVE  x % n \in Nat /\ x \div n \in Nat
OBVIOUS

(* A hexadecimal digit is a digit or a lower-case letter.                  *)
LEMMA HexDigitType ==
  ASSUME NEW x \in Nat
  PROVE  HexDigit(x % 16) \in 48..57 \cup 97..102
<1>1. x % 16 \in 0..15 OBVIOUS
<1> QED BY <1>1 DEF HexDigit

(* A \u escape is six clean bytes.                                         *)
LEMMA UnicodeClean ==
  ASSUME NEW v \in Nat
  PROVE  Unicode(v) \in Seq(Int) /\ Len(Unicode(v)) = 6 /\ Clean(Unicode(v))
<1> DEFINE a == HexDigit((v \div 4096) % 16)
           b == HexDigit((v \div 256) % 16)
           c == HexDigit((v \div 16) % 16)
           d == HexDigit(v % 16)
<1>1. v \div 4096 \in Nat /\ v \div 256 \in Nat /\ v \div 16 \in Nat
  BY Quotient
<1>2. {a, b, c, d} \subseteq 48..57 \cup 97..102 BY <1>1, HexDigitType
<1>3. Unicode(v) = <<92, 117, a, b, c, d>> BY DEF Unicode
<1> HIDE DEF a, b, c, d
<1>4. Unicode(v) \in Seq(Int) /\ Len(Unicode(v)) = 6 BY <1>2, <1>3
<1>5. \A i \in DOMAIN Unicode(v) :
        Unicode(v)[i] \in {92, 117} \cup 48..57 \cup 97..102
  BY <1>2, <1>3
<1>6. \A x \in {92, 117} \cup 48..57 \cup 97..102 :
        x >= 32 /\ x \notin Html /\ x \notin SequenceLead /\ x # 34
  BY DEF Html, SequenceLead
<1> QED BY <1>4, <1>5, <1>6 DEF Clean

(* A letter escape is two clean bytes.                                     *)
LEMMA LetterClean ==
  ASSUME Oct \in Lettered
  PROVE  <<92, Letter(Oct)>> \in Seq(Int) /\ Clean(<<92, Letter(Oct)>>)
<1>1. Letter(Oct) \in {34, 47, 92, 98, 102, 110, 114, 116}
  BY DEF Lettered, Letter, Slash
<1> QED BY <1>1 DEF Clean, Html, SequenceLead

(* A byte that is copied is clean.                                         *)
LEMMA CopyClean ==
  ASSUME Oct \in Byte, Oct \notin Lettered \cup Coded \cup SequenceLead
  PROVE  <<Oct>> \in Seq(Int) /\ Clean(<<Oct>>)
<1>1. Oct \in Nat /\ Oct >= 32 /\ Oct # 34
  BY DEF Byte, Lettered, Coded, Control
<1>2. enc.encodeHTMLChars => Oct \notin Html BY DEF Coded
<1> QED BY <1>1, <1>2 DEF Clean

(* Any step that writes clean bytes within the reservation of the bytes it *)
(* passes.                                                                 *)
LEMMA WriteKeeps ==
  ASSUME IInv, NEW bytes \in Seq(Int), NEW n \in Nat \ {0}, Write(bytes, n),
         io + n <= Len(str) + 1, Clean(bytes), Len(bytes) <= 6 * n
  PROVE  IInv'
<1>1. of' = of \o bytes /\ io' = io + n /\ UNCHANGED <<str, enc, pc>>
  BY DEF Write
<1>2. of \in Seq(Int) /\ Len(str) \in Nat /\ io \in 1..(Len(str) + 1)
  BY DEF IInv, TypeOK
<1>3. TypeOK' BY <1>1, <1>2 DEF IInv, TypeOK
<1>4. FitsReserve'
  BY <1>1, <1>2 DEF IInv, FitsReserve, ReserveString
<1>5. CleanOutput'
  <2>1. Clean(of) BY DEF IInv, CleanOutput, Clean
  <2>2. Clean(of') BY <1>1, <1>2, <2>1, CleanConcat
  <2> QED BY <1>1, <2>2 DEF Clean, CleanOutput, SequenceLead
<1> QED BY <1>3, <1>4, <1>5 DEF IInv

(* The code point of a sequence.                                           *)
LEMMA UcsType ==
  ASSUME TypeOK, ~AtEnd PROVE Ucs \in Nat
<1>1. Oct \in Nat
  <2>1. Oct \in Byte BY OctInString
  <2> QED BY <2>1 DEF Byte
<1>2. io \in Nat \ {0} BY OctInString
<1>3. \A i \in {io + 1, io + 2, io + 3} : Bits(i) \in Nat
  BY <1>2, AtType, Quotient DEF Bits
<1>4. Oct % 32 \in Nat /\ Oct % 16 \in Nat /\ Oct % 8 \in Nat
  BY <1>1, Quotient
<1> QED BY <1>3, <1>4, SMT DEF Ucs

(* A sequence of UTF-8 keeps the invariant.                                *)
LEMMA SequenceKeeps == ASSUME IInv, EscapeSequence PROVE IInv'
<1> DEFINE bytes == IF Ucs >= 65536 THEN Pair(Ucs) ELSE Unicode(Ucs)
<1>1. Write(bytes, Length) /\ ~AtEnd /\ TypeOK BY DEF EscapeSequence, IInv
<1>2. Ucs \in Nat BY <1>1, UcsType
<1>3. bytes \in Seq(Int) /\ Clean(bytes) /\ Len(bytes) <= 12
  <2>1. CASE Ucs >= 65536
    <3>1. Ucs - 65536 \in Nat BY <1>2, <2>1
    <3>2. HighOf(Ucs) \in Nat /\ LowOf(Ucs) \in Nat
      BY <3>1, Quotient DEF HighOf, LowOf
    <3> DEFINE h == Unicode(HighOf(Ucs))
               l == Unicode(LowOf(Ucs))
    <3>3. /\ h \in Seq(Int) /\ Len(h) = 6 /\ Clean(h)
          /\ l \in Seq(Int) /\ Len(l) = 6 /\ Clean(l)
      BY <3>2, UnicodeClean
    <3> HIDE DEF h, l
    <3>4. Clean(h \o l) BY <3>3, CleanConcat
    <3>5. h \o l \in Seq(Int) /\ Len(h \o l) <= 12
      <4>1. h \in Seq(Int) /\ l \in Seq(Int) BY <3>3
      <4>2. h \o l \in Seq(Int) /\ Len(h \o l) = Len(h) + Len(l)
        BY <4>1, ConcatProperties
      <4>3. Len(h) = 6 /\ Len(l) = 6 BY <3>3
      <4> QED BY <4>2, <4>3
    <3>6. bytes = h \o l BY <2>1 DEF Pair, h, l
    <3> HIDE DEF bytes
    <3> QED BY <3>4, <3>5, <3>6
  <2>2. CASE ~(Ucs >= 65536)
    <3>1. bytes = Unicode(Ucs) BY <2>2
    <3>2. /\ Unicode(Ucs) \in Seq(Int) /\ Len(Unicode(Ucs)) = 6
          /\ Clean(Unicode(Ucs))
      BY <1>2, UnicodeClean
    <3> HIDE DEF bytes
    <3> QED BY <3>1, <3>2
  <2> QED BY <2>1, <2>2
<1>4. Length \in 2..5 BY DEF Length
<1>5. io + Length <= Len(str) + 1
  <2>1. ~Unterminated BY DEF EscapeSequence, WellFormed
  <2>2. Len(str) \in Nat /\ io \in Nat BY <1>1, OctInString DEF TypeOK
  <2> QED BY <1>4, <2>1, <2>2 DEF Unterminated
<1> HIDE DEF bytes
<1>6. Len(bytes) <= 6 * Length BY <1>3, <1>4
<1> QED BY <1>1, <1>3, <1>4, <1>5, <1>6, WriteKeeps

(* So does a single byte.                                                  *)
LEMMA ByteKeeps ==
  ASSUME IInv, EscapeLetter \/ EscapeCode \/ CopyByte PROVE IInv'
<1>1. TypeOK /\ ~AtEnd BY DEF IInv, EscapeLetter, EscapeCode, CopyByte
<1>2. Oct \in Byte /\ io + 1 <= Len(str) + 1 BY <1>1, OctInString DEF TypeOK
<1>3. CASE EscapeLetter
  <2> DEFINE bytes == <<92, Letter(Oct)>>
  <2>1. Oct \in Lettered /\ Write(bytes, 1) BY <1>3 DEF EscapeLetter
  <2>2. bytes \in Seq(Int) /\ Clean(bytes) BY <2>1, LetterClean
  <2>3. Len(bytes) <= 6 * 1 OBVIOUS
  <2> HIDE DEF bytes
  <2> QED BY <1>2, <2>1, <2>2, <2>3, WriteKeeps
<1>4. CASE EscapeCode
  <2> DEFINE bytes == Unicode(Oct)
  <2>1. Write(bytes, 1) BY <1>4 DEF EscapeCode
  <2>2. Oct \in Nat BY <1>2 DEF Byte
  <2>3. bytes \in Seq(Int) /\ Len(bytes) = 6 /\ Clean(bytes)
    BY <2>2, UnicodeClean
  <2> HIDE DEF bytes
  <2>4. Len(bytes) <= 6 * 1 BY <2>3
  <2>5. bytes \in Seq(Int) /\ Clean(bytes) BY <2>3
  <2> QED BY <1>2, <2>1, <2>4, <2>5, WriteKeeps
<1>5. CASE CopyByte
  <2> DEFINE bytes == <<Oct>>
  <2>1. Write(bytes, 1) /\ Oct \notin Lettered \cup Coded \cup SequenceLead
    BY <1>5 DEF CopyByte
  <2>2. bytes \in Seq(Int) /\ Clean(bytes) BY <1>2, <2>1, CopyClean
  <2>3. Len(bytes) <= 6 * 1 OBVIOUS
  <2> HIDE DEF bytes
  <2> QED BY <1>2, <2>1, <2>2, <2>3, WriteKeeps
<1> QED BY <1>3, <1>4, <1>5

(* Every step keeps the invariant.                                         *)
LEMMA StepIInv == IInv /\ [Next]_vars => IInv'
<1> SUFFICES ASSUME IInv, [Next]_vars PROVE IInv'
  OBVIOUS
<1>1. CASE EscapeLetter \/ EscapeCode \/ CopyByte BY <1>1, ByteKeeps
<1>2. CASE EscapeSequence BY <1>2, SequenceKeeps
<1>3. CASE /\ UNCHANGED <<str, enc, io, of>>
           /\ pc' \in {"escape", "done", "refused"}
  BY <1>3 DEF IInv, TypeOK, FitsReserve, CleanOutput, SequenceLead
<1> QED BY <1>1, <1>2, <1>3
        DEF Next, Stopped, EndOfString, RefuseSequence, vars, IInv, TypeOK

(* The invariant holds at the start.                                       *)
LEMMA InitIInv == Init => IInv
BY StringsAssumption, OptionsAssumption
   DEF Init, Fresh, IInv, TypeOK, FitsReserve, ReserveString, CleanOutput

(* The conjunction of all that holds of the escaper in every state.        *)
THEOREM Invariance == Spec => []IInv
BY InitIInv, StepIInv, PTL DEF Spec

(* The variables of the escaper have their types; io stays in the string.  *)
THEOREM TypeCorrect == Spec => []TypeOK
<1>1. IInv => TypeOK BY DEF IInv
<1> QED BY <1>1, Invariance, PTL

(* RESERVE_STRING is enough for every string and all options.              *)
THEOREM ReserveIsEnough == Spec => []FitsReserve
<1>1. IInv => FitsReserve BY DEF IInv
<1> QED BY <1>1, Invariance, PTL

(* No string makes its way out of its quotes, and none leaves a control    *)
(* character, or one the options forbid, in the output.                    *)
THEOREM NothingForbidden == Spec => []CleanOutput
<1>1. IInv => CleanOutput BY DEF IInv
<1> QED BY <1>1, Invariance, PTL
Reader == INSTANCE StringScannerProofs WITH text <- Text, end <- Len(Text),
                                            Texts <- {}, Behind <- {},
                                            pc <- reading

(* What the lemmas of the scanner assume.                                  *)
LEMMA ReaderHas ==
  {} \subseteq Seq(Reader!Byte) /\ {} \subseteq Nat /\ StackSize \in Nat
BY StackSizeAssumption

(* The bytes of both are the same.                                         *)
LEMMA ReaderByte == Reader!Byte = Byte
BY DEF Byte, Reader!Byte

(***************************************************************************)
(* The characters that the escaper's bytes are read as.                    *)
(***************************************************************************)
(* The bytes x are in s from place e on.                                   *)
Holds(s, e, x) ==
  /\ e + Len(x) - 1 <= Len(s)
  /\ \A k \in 1..Len(x) : Reader!ByteAt(s, e + k - 1) = x[k]

(* A letter after a backslash.                                             *)
LEMMA LetterCharacter ==
  ASSUME NEW s, NEW e \in Nat \ {0}, NEW c \in {8, 9, 10, 12, 13, 34, 47, 92},
         Holds(s, e, <<92, Letter(c)>>)
  PROVE  Reader!CharacterForm(s, e, 2, Reader!Bare(c))
<1>1. Reader!ByteAt(s, e) = 92 /\ Reader!ByteAt(s, e + 1) = Letter(c)
  <2>1. Len(<<92, Letter(c)>>) = 2 /\ e + 1 - 1 = e /\ e + 2 - 1 = e + 1
    OBVIOUS
  <2> QED BY <2>1 DEF Holds
<1>2. Letter(c) \in Reader!EscapeLetter /\ Reader!Escaped(Letter(c)) = c
  BY DEF Letter, Reader!EscapeLetter, Reader!Escaped
<1>3. Reader!LetterForm(s, e, 2, Reader!Bare(c))
  BY <1>1, <1>2 DEF Reader!LetterForm
<1> QED BY <1>3 DEF Reader!CharacterForm

(* The four digits of a number of 16 bits.                                 *)
SixteenBits(v) == v \in Nat /\ v < 65536
IsNibbles(v, a, b, c, d) == v = a * 4096 + b * 256 + c * 16 + d

(* They are what they are written from.                                    *)
LEMMA Nibbles ==
  ASSUME NEW v, SixteenBits(v)
  PROVE  /\ (v \div 4096) % 16 \in 0..15 /\ (v \div 256) % 16 \in 0..15
         /\ (v \div 16) % 16 \in 0..15 /\ v % 16 \in 0..15
         /\ IsNibbles(v, (v \div 4096) % 16, (v \div 256) % 16,
                      (v \div 16) % 16, v % 16)
<1>0. v \in Nat /\ v < 65536 BY DEF SixteenBits
<1> DEFINE p == v \div 16
<1>1. v = p * 16 + (v % 16) /\ v % 16 \in 0..15 /\ p \in Nat BY <1>0
<1>2. v \div 256 = p \div 16 BY <1>0
<1>3. v \div 4096 = (p \div 16) \div 16 BY <1>0
<1>4. v \div 16 = p OBVIOUS
<1> HIDE DEF p
<1> DEFINE q == p \div 16
<1>5. p = q * 16 + (p % 16) /\ p % 16 \in 0..15 /\ q \in Nat BY <1>1
<1>6. v \div 256 = q BY <1>2
<1>7. v \div 4096 = q \div 16 BY <1>3
<1> HIDE DEF q
<1> DEFINE r == q \div 16
<1>8. q = r * 16 + (q % 16) /\ q % 16 \in 0..15 /\ r \in Nat BY <1>5
<1>9. v \div 4096 = r BY <1>7
<1> HIDE DEF r
<1>10. r < 16 BY <1>0, <1>1, <1>5, <1>8, SMT
<1>11. r % 16 = r /\ r \in 0..15 BY <1>8, <1>10
<1>12. v = r * 4096 + (q % 16) * 256 + (p % 16) * 16 + (v % 16)
  BY <1>1, <1>5, <1>8, SMT
<1>13. IsNibbles(v, r % 16, q % 16, p % 16, v % 16)
  BY <1>11, <1>12, SMT DEF IsNibbles
<1>14. r % 16 \in 0..15 BY <1>11
<1> QED BY <1>1, <1>4, <1>5, <1>6, <1>8, <1>9, <1>13, <1>14, SMT

(* A digit is read as what it was written for.                             *)
LEMMA DigitValue ==
  ASSUME NEW a \in 0..15
  PROVE  HexDigit(a) \in Reader!HexDigit /\ Reader!HexValue(HexDigit(a)) = a
<1>1. CASE a < 10
  <2>1. HexDigit(a) = 48 + a /\ 48 + a \in 48..57 BY <1>1 DEF HexDigit
  <2> QED BY <2>1 DEF Reader!HexDigit, Reader!HexValue, Reader!Digit
<1>2. CASE a >= 10
  <2>1. HexDigit(a) = 87 + a /\ 87 + a \in 97..102 /\ 87 + a \notin 48..57
    BY <1>2 DEF HexDigit
  <2> QED BY <2>1 DEF Reader!HexDigit, Reader!HexValue, Reader!Digit,
                      Reader!LowerHex
<1> QED BY <1>1, <1>2

(* An escape of a unit of 16 bits.                                         *)
LEMMA UnicodeCharacter ==
  ASSUME NEW s, NEW e \in Nat \ {0}, NEW v, SixteenBits(v),
         Holds(s, e, Unicode(v))
  PROVE  Reader!CharacterForm(s, e, 6, Reader!Unit(v))
<1> DEFINE a == (v \div 4096) % 16
           b == (v \div 256) % 16
           c == (v \div 16) % 16
           d == v % 16
           x == <<92, 117, HexDigit(a), HexDigit(b), HexDigit(c), HexDigit(d)>>
<1>1. /\ a \in 0..15 /\ b \in 0..15 /\ c \in 0..15 /\ d \in 0..15
      /\ IsNibbles(v, a, b, c, d)
  BY Nibbles
<1>2. Unicode(v) = x BY DEF Unicode
<1> HIDE DEF a, b, c, d
<1>3. /\ Reader!ByteAt(s, e) = 92 /\ Reader!ByteAt(s, e + 1) = 117
      /\ Reader!ByteAt(s, e + 2) = HexDigit(a)
      /\ Reader!ByteAt(s, e + 3) = HexDigit(b)
      /\ Reader!ByteAt(s, e + 4) = HexDigit(c)
      /\ Reader!ByteAt(s, e + 5) = HexDigit(d)
  <2>1. Len(x) = 6 OBVIOUS
  <2>2. /\ e + 1 - 1 = e /\ e + 2 - 1 = e + 1 /\ e + 3 - 1 = e + 2
        /\ e + 4 - 1 = e + 3 /\ e + 5 - 1 = e + 4 /\ e + 6 - 1 = e + 5
    OBVIOUS
  <2>3. /\ x[1] = 92 /\ x[2] = 117 /\ x[3] = HexDigit(a)
        /\ x[4] = HexDigit(b) /\ x[5] = HexDigit(c) /\ x[6] = HexDigit(d)
    OBVIOUS
  <2> HIDE DEF x
  <2>0. Holds(s, e, x) BY <1>2
  <2>4. \A k \in 1..6 : Reader!ByteAt(s, e + k - 1) = x[k]
    BY <2>0, <2>1, Zenon DEF Holds
  <2> QED BY <2>2, <2>3, <2>4
<1>4. /\ HexDigit(a) \in Reader!HexDigit /\ Reader!HexValue(HexDigit(a)) = a
      /\ HexDigit(b) \in Reader!HexDigit /\ Reader!HexValue(HexDigit(b)) = b
      /\ HexDigit(c) \in Reader!HexDigit /\ Reader!HexValue(HexDigit(c)) = c
      /\ HexDigit(d) \in Reader!HexDigit /\ Reader!HexValue(HexDigit(d)) = d
  BY <1>1, DigitValue
<1>5. Reader!HexAt(s, e) BY <1>3, <1>4 DEF Reader!HexAt
<1>6. Reader!UnitAt(s, e) = v
  <2>1. Reader!UnitAt(s, e) = a * 4096 + b * 256 + c * 16 + d
    BY <1>3, <1>4 DEF Reader!UnitAt
  <2> QED BY <2>1, <1>1 DEF IsNibbles
<1>7. Reader!UnicodeForm(s, e, 6, Reader!Unit(v))
  BY <1>3, <1>5, <1>6, Zenon DEF Reader!UnicodeForm
<1> QED BY <1>7, Zenon DEF Reader!CharacterForm

(* A sequence of UTF-8 that is neither null, a quote, nor a backslash.     *)
LEMMA PlainCharacter ==
  ASSUME NEW s, NEW e, NEW n, NEW p, Reader!SequenceForm(s, e, n, p),
         p \notin {0, 34, 92}
  PROVE  Reader!CharacterForm(s, e, n, Reader!Bare(p))
BY Zenon DEF Reader!CharacterForm, Reader!PlainForm

(***************************************************************************)
(* The sequences of UTF-8 up to a place of a string, and the characters of *)
(* the string in a text that begins with a quote.                          *)
(***************************************************************************)
Spells(s, j, d) ==
  d \in Seq(Nat) /\ Reader!Parse(Reader!SequencePlaces(s), 1, j, d)
Reads(s, j, chars) ==
  /\ chars \in Seq(Reader!CharacterType)
  /\ Reader!Parse(Reader!CharacterPlaces(s), 2, j, chars)

(* Before the first byte nothing was.                                      *)
LEMMA NothingSpelt ==
  ASSUME NEW s PROVE Spells(s, 1, <<>>) /\ Reads(s, 2, <<>>)
<1>1. Reader!Parse(Reader!SequencePlaces(s), 1, 1, <<>>)
  BY ReaderHas, Reader!ParseNone
<1>2. Reader!Parse(Reader!CharacterPlaces(s), 2, 2, <<>>)
  BY ReaderHas, Reader!ParseNone
<1>3. <<>> \in Seq(Nat) /\ <<>> \in Seq(Reader!CharacterType) OBVIOUS
<1> QED BY <1>1, <1>2, <1>3 DEF Spells, Reads

(* A sequence more.                                                        *)
LEMMA SpellsMore ==
  ASSUME NEW s \in Seq(Byte), NEW j \in Nat \ {0}, NEW d, Spells(s, j, d),
         NEW n, NEW p, Reader!SequenceForm(s, j, n, p)
  PROVE  Spells(s, j + n, Append(d, p)) /\ p \in Nat
<1> DEFINE at == Reader!SequencePlaces(s)
           t == [length |-> n, item |-> p]
<1>0. s \in Seq(Reader!Byte) BY ReaderByte
<1>1. n \in 1..4 /\ p \in Nat /\ j + n - 1 <= Len(s)
  BY <1>0, ReaderHas, Reader!FormBytes
<1>2. Len(s) \in Nat OBVIOUS
<1>3. j \in 1..(Len(s) + 1) BY <1>1, <1>2
<1>4. t \in Reader!SequenceAt(s, j)
  BY <1>0, <1>3, ReaderHas, Reader!SequenceAtIs
<1>5. j \in DOMAIN at /\ t \in at[j] BY <1>3, <1>4 DEF Reader!SequencePlaces
<1>6. t.length = n /\ t.item = p /\ n \in Nat BY <1>1
<1>7. d \in Seq(Nat) /\ Reader!Parse(at, 1, j, d) BY DEF Spells
<1> HIDE DEF at, t
<1>8. Reader!Parse(at, 1, j + t.length, Append(d, t.item))
  BY <1>1, <1>5, <1>6, <1>7, ReaderHas, Reader!ParseAppend
<1>9. Append(d, p) \in Seq(Nat) BY <1>1, <1>7
<1>10. Reader!Parse(at, 1, j + n, Append(d, p)) BY <1>6, <1>8, Zenon
<1> QED BY <1>1, <1>9, <1>10, Zenon DEF Spells, at

(* A character more.                                                       *)
LEMMA ReadsMore ==
  ASSUME NEW s \in Seq(Byte), NEW j \in Nat \ {0}, NEW d, Reads(s, j, d),
         NEW n, NEW c, Reader!CharacterForm(s, j, n, c)
  PROVE  Reads(s, j + n, Append(d, c)) /\ c \in Reader!CharacterType
<1> DEFINE at == Reader!CharacterPlaces(s)
           t == [length |-> n, item |-> c]
<1>0. s \in Seq(Reader!Byte) BY ReaderByte
<1>1. n \in 1..6 /\ c \in Reader!CharacterType /\ j + n - 1 <= Len(s)
  BY <1>0, ReaderHas, Reader!CharacterBytes
<1>2. Len(s) \in Nat OBVIOUS
<1>3. j \in 1..(Len(s) + 1) BY <1>1, <1>2
<1>4. t \in Reader!CharacterAt(s, j)
  BY <1>0, <1>3, ReaderHas, Reader!CharacterAtIs
<1>5. j \in DOMAIN at /\ t \in at[j] BY <1>3, <1>4 DEF Reader!CharacterPlaces
<1>6. t.length = n /\ t.item = c /\ n \in Nat BY <1>1
<1>7. d \in Seq(Reader!CharacterType) /\ Reader!Parse(at, 2, j, d) BY DEF Reads
<1> HIDE DEF at, t
<1>8. Reader!Parse(at, 2, j + t.length, Append(d, t.item))
  BY <1>1, <1>5, <1>6, <1>7, ReaderHas, Reader!ParseAppend
<1>9. Append(d, c) \in Seq(Reader!CharacterType) BY <1>1, <1>7
<1>10. Reader!Parse(at, 2, j + n, Append(d, c)) BY <1>6, <1>8, Zenon
<1> QED BY <1>1, <1>9, <1>10, Zenon DEF Reads, at

(* The sequence of a byte below 128.                                       *)
LEMMA AsciiForm ==
  ASSUME NEW s, NEW j, Reader!ByteAt(s, j) < 128, j <= Len(s)
  PROVE  Reader!SequenceForm(s, j, 1, Reader!ByteAt(s, j))
BY DEF Reader!SequenceForm

(* A run of bytes below 128.                                               *)
LEMMA SpellsAscii ==
  ASSUME NEW s \in Seq(Byte), NEW j \in Nat \ {0}, NEW d, Spells(s, j, d),
         NEW n \in Nat, j + n <= Len(s) + 1,
         \A k \in 0..(n - 1) : Reader!ByteAt(s, j + k) < 128
  PROVE  \E e : Spells(s, j + n, e)
<1> DEFINE K == {k \in Nat : k <= n => \E e : Spells(s, j + k, e)}
<1>1. ASSUME NEW k \in Nat, \A m \in 0..(k - 1) : m \in K
      PROVE  k \in K
  <2> SUFFICES ASSUME k <= n PROVE \E e : Spells(s, j + k, e)
    OBVIOUS
  <2>1. CASE k = 0
    <3>1. j + k = j BY <2>1
    <3> QED BY <3>1
  <2>2. CASE k > 0
    <3>1. k - 1 \in 0..(k - 1) /\ k - 1 <= n BY <2>2
    <3>2. PICK e : Spells(s, j + (k - 1), e) BY <3>1, <1>1
    <3>3. /\ j + (k - 1) \in Nat \ {0} /\ j + (k - 1) <= Len(s)
          /\ Reader!ByteAt(s, j + (k - 1)) < 128
      <4>1. k - 1 \in 0..(n - 1) /\ Len(s) \in Nat BY <2>2
      <4>2. Reader!ByteAt(s, j + (k - 1)) < 128 BY <4>1
      <4> QED BY <4>1, <4>2, <3>1
    <3>4. Spells(s, j + (k - 1) + 1,
                 Append(e, Reader!ByteAt(s, j + (k - 1))))
      BY <3>2, <3>3, AsciiForm, SpellsMore
    <3>5. j + (k - 1) + 1 = j + k OBVIOUS
    <3> QED BY <3>4, <3>5
  <2> QED BY <2>1, <2>2
<1> HIDE DEF K
<1>2. Nat \subseteq K BY <1>1, ReaderHas, Reader!Induction
<1>3. n \in K BY <1>2
<1> QED BY <1>3 DEF K

(***************************************************************************)
(* What Decoded and IsUtf8 say, in terms of the places spelt.              *)
(***************************************************************************)
LEMMA SequenceAtSame ==
  ASSUME NEW s, NEW i
  PROVE  SequenceAt(s, i) = Reader!SequenceAt(s, i)
BY DEF SequenceAt, Reader!SequenceAt, Fitting, Reader!Fitting, Slice,
       Reader!Slice, Guess, Reader!Guess, IsSequence, Reader!IsSequence,
       MaxPoint, Reader!MaxPoint, Utf8, Reader!Utf8, Tail6, Reader!Tail6

(* So Decoded is the same too.                                             *)
LEMMA DecodedSame == ASSUME NEW s PROVE Decoded(s) = Reader!Decoded(s)
<1>1. [i \in 1..(Len(s) + 1) |-> SequenceAt(s, i)]
        = [i \in 1..(Len(s) + 1) |-> Reader!SequenceAt(s, i)]
  BY SequenceAtSame
<1>2. \A at, ends, none : Items(at, ends, none) = Reader!Items(at, ends, none)
  BY Zenon DEF Items, Reader!Items
<1> QED BY <1>1, <1>2, Zenon DEF Decoded, Reader!Decoded

(* No sequence begins at a place.                                          *)
NoSequence(s, j) == \A n, p : ~Reader!SequenceForm(s, j, n, p)

(* It is what an empty place of the string means.                          *)
LEMMA EmptyPlace ==
  ASSUME NEW s \in Seq(Byte), NEW j \in 1..(Len(s) + 1)
  PROVE  Reader!SequencePlaces(s)[j] = {} <=> NoSequence(s, j)
<1>1. /\ \A t \in Reader!SequenceAt(s, j) :
           Reader!SequenceForm(s, j, t.length, t.item)
      /\ \A n, p : Reader!SequenceForm(s, j, n, p) =>
                     [length |-> n, item |-> p] \in Reader!SequenceAt(s, j)
  BY ReaderHas, ReaderByte, Reader!SequenceAtIs
<1>2. Reader!SequencePlaces(s)[j] = Reader!SequenceAt(s, j)
  BY DEF Reader!SequencePlaces
<1> QED BY <1>1, <1>2, Zenon DEF NoSequence

(* A string spelt to its end is UTF-8, and what was spelt is decoded.      *)
LEMMA WholeSpelt ==
  ASSUME NEW s \in Seq(Byte), NEW d, Spells(s, Len(s) + 1, d)
  PROVE  Decoded(s) = d /\ IsUtf8(s)
<1>1. /\ d \in Seq(Nat) /\ d \in Seq(Int)
      /\ Reader!Parse(Reader!SequencePlaces(s), 1, Len(s) + 1, d)
  BY DEF Spells
<1>2. Reader!Decoded(s) = d
  BY <1>1, ReaderHas, ReaderByte, Reader!DecodedWhole
<1>3. \A i \in DOMAIN d : d[i] >= 0 BY <1>1
<1> QED BY <1>2, <1>3, DecodedSame, Zenon DEF IsUtf8

(* One that cannot be spelt further is not.                                *)
LEMMA PartSpelt ==
  ASSUME NEW s \in Seq(Byte), NEW j \in 1..Len(s), NEW d, Spells(s, j, d),
         NoSequence(s, j)
  PROVE  ~IsUtf8(s)
<1>1. /\ d \in Seq(Nat) /\ d \in Seq(Int)
      /\ Reader!Parse(Reader!SequencePlaces(s), 1, j, d)
  BY DEF Spells
<1>2. j \in 1..(Len(s) + 1) OBVIOUS
<1>3. Reader!SequencePlaces(s)[j] = {} BY <1>2, EmptyPlace
<1>4. Reader!Decoded(s) = Append(d, -1)
  BY <1>1, <1>3, ReaderHas, ReaderByte, Reader!DecodedPart
<1>5. /\ Len(d) + 1 \in DOMAIN Append(d, -1)
      /\ Append(d, -1)[Len(d) + 1] = -1
  BY <1>1
<1>6. ~(Append(d, -1)[Len(d) + 1] >= 0) BY <1>5
<1> QED BY <1>4, <1>5, <1>6, DecodedSame, Zenon DEF IsUtf8

(***************************************************************************)
(* Sequences and characters depend on their own bytes only.                *)
(***************************************************************************)
(* n bytes of s from place i on are those of t from place j on.            *)
Same(s, i, t, j, n) ==
  \A k \in 0..(n - 1) : Reader!ByteAt(s, i + k) = Reader!ByteAt(t, j + k)

(* Byte by byte.                                                           *)
LEMMA SameBytes ==
  ASSUME NEW s, NEW t, NEW i \in Nat, NEW j \in Nat, NEW n, Same(s, i, t, j, n)
  PROVE  /\ n \in 1..6 => Reader!ByteAt(s, i) = Reader!ByteAt(t, j)
         /\ n \in 2..6 => Reader!ByteAt(s, i + 1) = Reader!ByteAt(t, j + 1)
         /\ n \in 3..6 => Reader!ByteAt(s, i + 2) = Reader!ByteAt(t, j + 2)
         /\ n \in 4..6 => Reader!ByteAt(s, i + 3) = Reader!ByteAt(t, j + 3)
         /\ n = 6 => Reader!ByteAt(s, i + 4) = Reader!ByteAt(t, j + 4)
         /\ n = 6 => Reader!ByteAt(s, i + 5) = Reader!ByteAt(t, j + 5)
<1>0. i + 0 = i /\ j + 0 = j OBVIOUS
<1>1. n \in 1..6 => 0 \in 0..(n - 1) OBVIOUS
<1>2. n \in 2..6 => 1 \in 0..(n - 1) OBVIOUS
<1>3. n \in 3..6 => 2 \in 0..(n - 1) OBVIOUS
<1>4. n \in 4..6 => 3 \in 0..(n - 1) OBVIOUS
<1>5. n = 6 => 4 \in 0..(n - 1) /\ 5 \in 0..(n - 1) OBVIOUS
<1>6. n \in 1..6 => Reader!ByteAt(s, i) = Reader!ByteAt(t, j)
  BY <1>0, <1>1 DEF Same
<1> QED BY <1>2, <1>3, <1>4, <1>5, <1>6, Zenon DEF Same

(* A sequence stays one where its bytes are.                               *)
LEMMA SequenceMoves ==
  ASSUME NEW s \in Seq(Byte), NEW i \in Nat \ {0}, NEW n, NEW p,
         Reader!SequenceForm(s, i, n, p),
         NEW t, NEW j \in Nat \ {0}, Same(s, i, t, j, n), j + n - 1 <= Len(t)
  PROVE  Reader!SequenceForm(t, j, n, p)
<1>1. n \in 1..4 BY ReaderHas, ReaderByte, Reader!FormBytes
<1>2. n \in 1..6 /\ (n = 1 => j <= Len(t)) BY <1>1
<1>3. CASE n = 1
  <2>1. Reader!ByteAt(s, i) = Reader!ByteAt(t, j) BY <1>2, SameBytes
  <2>2. Reader!ByteAt(s, i) < 128 /\ p = Reader!ByteAt(s, i)
    BY <1>3 DEF Reader!SequenceForm
  <2> QED BY <1>2, <1>3, <2>1, <2>2, Zenon DEF Reader!SequenceForm
<1>4. CASE n = 2
  <2>0. n \in 2..6 BY <1>4
  <2>1. /\ Reader!ByteAt(s, i) = Reader!ByteAt(t, j)
        /\ Reader!ByteAt(s, i + 1) = Reader!ByteAt(t, j + 1)
    BY <1>2, <2>0, SameBytes
  <2>2. 2 # 1 /\ 2 # 3 /\ 2 # 4 OBVIOUS
  <2> QED BY <1>4, <2>1, <2>2, Zenon DEF Reader!SequenceForm
<1>5. CASE n = 3
  <2>0. n \in 2..6 /\ n \in 3..6 BY <1>5
  <2>1. /\ Reader!ByteAt(s, i) = Reader!ByteAt(t, j)
        /\ Reader!ByteAt(s, i + 1) = Reader!ByteAt(t, j + 1)
        /\ Reader!ByteAt(s, i + 2) = Reader!ByteAt(t, j + 2)
    BY <1>2, <2>0, SameBytes
  <2>2. 3 # 1 /\ 3 # 2 /\ 3 # 4 OBVIOUS
  <2> QED BY <1>5, <2>1, <2>2, Zenon DEF Reader!SequenceForm
<1>6. CASE n = 4
  <2>0. n \in 2..6 /\ n \in 3..6 /\ n \in 4..6 BY <1>6
  <2>1. /\ Reader!ByteAt(s, i) = Reader!ByteAt(t, j)
        /\ Reader!ByteAt(s, i + 1) = Reader!ByteAt(t, j + 1)
        /\ Reader!ByteAt(s, i + 2) = Reader!ByteAt(t, j + 2)
        /\ Reader!ByteAt(s, i + 3) = Reader!ByteAt(t, j + 3)
    BY <1>2, <2>0, SameBytes
  <2>2. 4 # 1 /\ 4 # 2 /\ 4 # 3 OBVIOUS
  <2> QED BY <1>6, <2>1, <2>2, Zenon DEF Reader!SequenceForm
<1> QED BY <1>1, <1>3, <1>4, <1>5, <1>6

(* So does a character.                                                    *)
LEMMA CharacterMoves ==
  ASSUME NEW s \in Seq(Byte), NEW i \in Nat \ {0}, NEW n, NEW c,
         Reader!CharacterForm(s, i, n, c),
         NEW t, NEW j \in Nat \ {0}, Same(s, i, t, j, n), j + n - 1 <= Len(t)
  PROVE  Reader!CharacterForm(t, j, n, c)
<1>1. CASE Reader!PlainForm(s, i, n, c)
  <2>1. Reader!PlainForm(t, j, n, c)
    BY <1>1, SequenceMoves, Zenon DEF Reader!PlainForm
  <2> QED BY <2>1, Zenon DEF Reader!CharacterForm
<1>2. CASE Reader!LetterForm(s, i, n, c)
  <2>1. n = 2 BY <1>2, Zenon DEF Reader!LetterForm
  <2>2. n \in 1..6 /\ n \in 2..6 BY <2>1
  <2>3. /\ Reader!ByteAt(s, i) = Reader!ByteAt(t, j)
        /\ Reader!ByteAt(s, i + 1) = Reader!ByteAt(t, j + 1)
    BY <2>2, SameBytes
  <2> QED BY <1>2, <2>3, Zenon DEF Reader!CharacterForm, Reader!LetterForm
<1>3. CASE Reader!UnicodeForm(s, i, n, c)
  <2>1. n = 6 BY <1>3, Zenon DEF Reader!UnicodeForm
  <2>2. n \in 1..6 /\ n \in 2..6 /\ n \in 3..6 /\ n \in 4..6 BY <2>1
  <2>3. /\ Reader!ByteAt(s, i) = Reader!ByteAt(t, j)
        /\ Reader!ByteAt(s, i + 1) = Reader!ByteAt(t, j + 1)
        /\ Reader!ByteAt(s, i + 2) = Reader!ByteAt(t, j + 2)
        /\ Reader!ByteAt(s, i + 3) = Reader!ByteAt(t, j + 3)
        /\ Reader!ByteAt(s, i + 4) = Reader!ByteAt(t, j + 4)
        /\ Reader!ByteAt(s, i + 5) = Reader!ByteAt(t, j + 5)
    BY <2>1, <2>2, SameBytes
  <2>4. Reader!UnitAt(s, i) = Reader!UnitAt(t, j)
    BY <2>3, SMT DEF Reader!UnitAt
  <2> QED BY <1>3, <2>3, <2>4, Zenon
          DEF Reader!CharacterForm, Reader!UnicodeForm, Reader!HexAt
<1> QED BY <1>1, <1>2, <1>3, Zenon DEF Reader!CharacterForm

(* Hence a string that begins with another is spelt, and read, as that one *)
(* is, up to its end.                                                      *)
Begins(s, t) ==
  Len(s) <= Len(t) /\ \A k \in 1..Len(s) : Reader!ByteAt(s, k) = Reader!ByteAt(t, k)

(* What is within the first is in both.                                    *)
LEMMA BeginsSame ==
  ASSUME NEW s \in Seq(Byte), NEW t, Begins(s, t), NEW i \in Nat \ {0},
         NEW n \in Nat, i + n - 1 <= Len(s), Len(t) \in Nat
  PROVE  Same(s, i, t, i, n) /\ i + n - 1 <= Len(t)
<1>1. Len(s) \in Nat /\ Len(s) <= Len(t) BY DEF Begins
<1>2. ASSUME NEW k \in 0..(n - 1)
      PROVE  Reader!ByteAt(s, i + k) = Reader!ByteAt(t, i + k)
  <2>1. i + k \in 1..Len(s) BY <1>1
  <2> QED BY <2>1 DEF Begins
<1> QED BY <1>1, <1>2 DEF Same

(* A way stays one when there are more items.                              *)
LEMMA ParseMore ==
  ASSUME NEW at, NEW more, NEW i, NEW j, NEW d, Reader!Parse(at, i, j, d),
         \A k \in DOMAIN at : k \in DOMAIN more /\ at[k] \subseteq more[k]
  PROVE  Reader!Parse(more, i, j, d)
<1>1. PICK b : Reader!Way(at, b, d) /\ b[1] = i /\ b[Len(b)] = j
  BY Zenon DEF Reader!Parse
<1>2. Reader!Way(more, b, d)
  <2>1. ASSUME NEW k \in 1..Len(d)
        PROVE  b[k] \in DOMAIN more
                 /\ \E t \in more[b[k]] : b[k + 1] = b[k] + t.length /\ d[k] = t.item
    <3>1. b[k] \in DOMAIN at
            /\ \E t \in at[b[k]] : b[k + 1] = b[k] + t.length /\ d[k] = t.item
      BY <1>1, Zenon DEF Reader!Way
    <3>2. b[k] \in DOMAIN more /\ at[b[k]] \subseteq more[b[k]] BY <3>1
    <3> QED BY <3>1, <3>2
  <2> QED BY <1>1, <2>1, Zenon DEF Reader!Way
<1> QED BY <1>1, <1>2, Zenon DEF Reader!Parse

(* What was spelt in the beginning of a string is spelt in it.             *)
LEMMA SpellsAlike ==
  ASSUME NEW s \in Seq(Byte), NEW t \in Seq(Byte), Begins(s, t),
         NEW j, NEW d, Spells(s, j, d)
  PROVE  Spells(t, j, d)
<1> DEFINE at == Reader!SequencePlaces(s)
           more == Reader!SequencePlaces(t)
<1>0. Len(s) \in Nat /\ Len(t) \in Nat /\ Len(s) <= Len(t) BY DEF Begins
<1>1. ASSUME NEW k \in DOMAIN at
      PROVE  k \in DOMAIN more /\ at[k] \subseteq more[k]
  <2>1. k \in 1..(Len(s) + 1) BY DEF Reader!SequencePlaces
  <2>2. k \in 1..(Len(t) + 1) /\ k \in Nat \ {0} BY <1>0, <2>1
  <2>3. ASSUME NEW u \in Reader!SequenceAt(s, k)
        PROVE  u \in Reader!SequenceAt(t, k)
    <3>1. /\ Reader!SequenceForm(s, k, u.length, u.item)
          /\ u = [length |-> u.length, item |-> u.item]
      BY <2>1, ReaderHas, ReaderByte, Reader!SequenceAtIs
    <3>2. u.length \in 1..4 /\ k + u.length - 1 <= Len(s)
      BY <2>2, <3>1, ReaderHas, ReaderByte, Reader!FormBytes
    <3>3. u.length \in Nat BY <3>2
    <3>4. Same(s, k, t, k, u.length) /\ k + u.length - 1 <= Len(t)
      BY <1>0, <2>2, <3>2, <3>3, BeginsSame
    <3>5. Reader!SequenceForm(t, k, u.length, u.item)
      BY <2>2, <3>1, <3>4, SequenceMoves
    <3>6. [length |-> u.length, item |-> u.item] \in Reader!SequenceAt(t, k)
      BY <2>2, <3>5, ReaderHas, ReaderByte, Reader!SequenceAtIs
    <3> QED BY <3>1, <3>6, Zenon
  <2> QED BY <2>1, <2>2, <2>3 DEF Reader!SequencePlaces
<1>2. d \in Seq(Nat) /\ Reader!Parse(at, 1, j, d) BY DEF Spells
<1> HIDE DEF at, more
<1>3. Reader!Parse(more, 1, j, d) BY <1>1, <1>2, ParseMore
<1> QED BY <1>2, <1>3 DEF Spells, more

(* And so with what was read.                                              *)
LEMMA ReadsAlike ==
  ASSUME NEW s \in Seq(Byte), NEW t \in Seq(Byte), Begins(s, t),
         NEW j, NEW d, Reads(s, j, d)
  PROVE  Reads(t, j, d)
<1> DEFINE at == Reader!CharacterPlaces(s)
           more == Reader!CharacterPlaces(t)
<1>0. Len(s) \in Nat /\ Len(t) \in Nat /\ Len(s) <= Len(t) BY DEF Begins
<1>1. ASSUME NEW k \in DOMAIN at
      PROVE  k \in DOMAIN more /\ at[k] \subseteq more[k]
  <2>1. k \in 1..(Len(s) + 1) BY DEF Reader!CharacterPlaces
  <2>2. k \in 1..(Len(t) + 1) /\ k \in Nat \ {0} BY <1>0, <2>1
  <2>3. ASSUME NEW u \in Reader!CharacterAt(s, k)
        PROVE  u \in Reader!CharacterAt(t, k)
    <3>1. /\ Reader!CharacterForm(s, k, u.length, u.item)
          /\ u = [length |-> u.length, item |-> u.item]
      BY <2>1, ReaderHas, ReaderByte, Reader!CharacterAtIs
    <3>2. u.length \in 1..6 /\ k + u.length - 1 <= Len(s)
      BY <2>2, <3>1, ReaderHas, ReaderByte, Reader!CharacterBytes
    <3>3. u.length \in Nat BY <3>2
    <3>4. Same(s, k, t, k, u.length) /\ k + u.length - 1 <= Len(t)
      BY <1>0, <2>2, <3>2, <3>3, BeginsSame
    <3>5. Reader!CharacterForm(t, k, u.length, u.item)
      BY <2>2, <3>1, <3>4, CharacterMoves
    <3>6. [length |-> u.length, item |-> u.item] \in Reader!CharacterAt(t, k)
      BY <2>2, <3>5, ReaderHas, ReaderByte, Reader!CharacterAtIs
    <3> QED BY <3>1, <3>6, Zenon
  <2> QED BY <2>1, <2>2, <2>3 DEF Reader!CharacterPlaces
<1>2. d \in Seq(Reader!CharacterType) /\ Reader!Parse(at, 2, j, d) BY DEF Reads
<1> HIDE DEF at, more
<1>3. Reader!Parse(more, 2, j, d) BY <1>1, <1>2, ParseMore
<1> QED BY <1>2, <1>3 DEF Reads, more

(* A string that is appended to begins with what it was.                   *)
LEMMA ConcatBegins ==
  ASSUME NEW s \in Seq(Byte), NEW x \in Seq(Byte)
  PROVE  /\ s \o x \in Seq(Byte) /\ Len(s \o x) = Len(s) + Len(x)
         /\ Begins(s, s \o x) /\ Holds(s \o x, Len(s) + 1, x)
<1>1. /\ s \o x \in Seq(Byte) /\ Len(s \o x) = Len(s) + Len(x)
      /\ Len(s) \in Nat /\ Len(x) \in Nat
  OBVIOUS
<1>2. ASSUME NEW k \in 1..Len(s)
      PROVE  Reader!ByteAt(s, k) = Reader!ByteAt(s \o x, k)
  <2>1. k <= Len(s) /\ k <= Len(s \o x) /\ (s \o x)[k] = s[k] BY <1>1
  <2> QED BY <2>1, Zenon DEF Reader!ByteAt
<1>3. ASSUME NEW k \in 1..Len(x)
      PROVE  Reader!ByteAt(s \o x, Len(s) + 1 + k - 1) = x[k]
  <2>1. Len(s) + 1 + k - 1 <= Len(s \o x) /\ (s \o x)[Len(s) + 1 + k - 1] = x[k]
    BY <1>1
  <2> QED BY <2>1, Zenon DEF Reader!ByteAt
<1>4. Len(s) + 1 + Len(x) - 1 <= Len(s \o x) /\ Len(s) <= Len(s \o x) BY <1>1
<1> QED BY <1>1, <1>2, <1>3, <1>4 DEF Begins, Holds

(***************************************************************************)
(* The characters that stand for the code points of a string.              *)
(***************************************************************************)
Units(d) == [i \in DOMAIN d |-> Reader!Unit(d[i])]

(* With ensure_ascii they are what escapes would be, one for each point,   *)
(* which join; without, they are the points.                               *)
Matches(forced, d, chars) ==
  IF forced
    THEN /\ Reader!Points(chars) = Reader!Points(Units(d))
         /\ Reader!EndsHigh(chars) <=> Reader!EndsHigh(Units(d))
    ELSE Reader!Points(chars) = d /\ ~Reader!EndsHigh(chars)

(* What a character says of its point.                                     *)
LEMMA CharacterTypes ==
  ASSUME NEW p \in Nat
  PROVE  /\ Reader!Unit(p) \in Reader!CharacterType
         /\ Reader!Unit(p).point = p /\ Reader!Unit(p).escaped = TRUE
         /\ Reader!Bare(p) \in Reader!CharacterType
         /\ Reader!Bare(p).point = p /\ Reader!Bare(p).escaped = FALSE
BY DEF Reader!Unit, Reader!Bare, Reader!CharacterType

(* One more point is one more escape.                                      *)
LEMMA UnitsMore ==
  ASSUME NEW d \in Seq(Nat), NEW p \in Nat
  PROVE  /\ Units(d) \in Seq(Reader!CharacterType)
         /\ Units(Append(d, p)) = Append(Units(d), Reader!Unit(p))
<1> DEFINE u == Units(d)
           more == Append(d, p)
           v == Units(more)
           w == Append(u, Reader!Unit(p))
<1>1. Len(d) \in Nat /\ DOMAIN d = 1..Len(d) OBVIOUS
<1>2. \A i \in 1..Len(d) : d[i] \in Nat BY <1>1
<1>3. \A i \in 1..Len(d) : Reader!Unit(d[i]) \in Reader!CharacterType
  BY <1>2, CharacterTypes
<1>4. u = [i \in 1..Len(d) |-> Reader!Unit(d[i])] BY <1>1 DEF Units
<1>5. u \in Seq(Reader!CharacterType) /\ Len(u) = Len(d) BY <1>1, <1>3, <1>4
<1>6. /\ Len(more) = Len(d) + 1 /\ more[Len(d) + 1] = p
      /\ DOMAIN more = 1..(Len(d) + 1) /\ \A i \in 1..Len(d) : more[i] = d[i]
  BY <1>1
<1>7. v = [i \in 1..(Len(d) + 1) |-> Reader!Unit(more[i])] BY <1>6 DEF Units
<1>8. \A i \in 1..Len(d) : u[i] = Reader!Unit(d[i]) BY <1>4
<1> HIDE DEF u, more, v
<1>9. Reader!Unit(p) \in Reader!CharacterType BY CharacterTypes
<1>10. /\ w \in Seq(Reader!CharacterType) /\ Len(w) = Len(d) + 1
       /\ w[Len(d) + 1] = Reader!Unit(p) /\ \A i \in 1..Len(d) : w[i] = u[i]
  BY <1>1, <1>5, <1>9
<1>11. \A i \in 1..(Len(d) + 1) : w[i] = v[i]
  BY <1>1, <1>6, <1>7, <1>8, <1>10
<1> HIDE DEF w
<1>12. w = [i \in 1..(Len(d) + 1) |-> w[i]] BY <1>1, <1>10
<1>13. w = v BY <1>7, <1>11, <1>12
<1> QED BY <1>5, <1>13 DEF u, v, w, more

(* No characters match no points.                                          *)
LEMMA MatchesNone == ASSUME NEW forced PROVE Matches(forced, <<>>, <<>>)
<1>1. Units(<<>>) = <<>> BY DEF Units
<1>2. Reader!Points(<<>>) = <<>> BY ReaderHas, Reader!NoPoints
<1>3. ~Reader!EndsHigh(<<>>) BY DEF Reader!EndsHigh
<1> QED BY <1>1, <1>2, <1>3 DEF Matches

Surrogate(p) == p \in Reader!Highs \/ p \in Reader!Lows

(* A point that is no surrogate, in whatever form.                         *)
LEMMA MatchesPlain ==
  ASSUME NEW forced, NEW d \in Seq(Nat), NEW chars \in Seq(Reader!CharacterType),
         Matches(forced, d, chars), NEW p \in Nat, ~Surrogate(p),
         NEW c \in {Reader!Bare(p), Reader!Unit(p)}
  PROVE  Matches(forced, Append(d, p), Append(chars, c))
<1> DEFINE u == Units(d)
           b == Reader!Unit(p)
<1>1. /\ c \in Reader!CharacterType /\ c.point = p
      /\ b \in Reader!CharacterType /\ b.point = p
  BY CharacterTypes
<1>2. u \in Seq(Reader!CharacterType) /\ Units(Append(d, p)) = Append(u, b)
  BY UnitsMore
<1> HIDE DEF u, b
<1>3. Reader!Points(Append(chars, c)) = Append(Reader!Points(chars), p)
  BY <1>1, ReaderHas, Reader!PointsMore DEF Surrogate
<1>4. Reader!Points(Append(u, b)) = Append(Reader!Points(u), p)
  BY <1>1, <1>2, ReaderHas, Reader!PointsMore DEF Surrogate
<1>5. ~Reader!EndsHigh(Append(chars, c)) /\ ~Reader!EndsHigh(Append(u, b))
  BY <1>1, <1>2, ReaderHas, Reader!EndsHighMore DEF Surrogate
<1> QED BY <1>2, <1>3, <1>4, <1>5 DEF Matches, u

(* A sequence that is copied.                                              *)
LEMMA MatchesBare ==
  ASSUME NEW forced, NEW d \in Seq(Nat), NEW chars \in Seq(Reader!CharacterType),
         Matches(forced, d, chars), NEW p \in Nat, ~forced
  PROVE  Matches(forced, Append(d, p), Append(chars, Reader!Bare(p)))
<1> DEFINE c == Reader!Bare(p)
<1>1. c \in Reader!CharacterType /\ c.point = p /\ c.escaped = FALSE
  BY CharacterTypes
<1> HIDE DEF c
<1>2. Reader!Points(Append(chars, c)) = Append(Reader!Points(chars), p)
  BY <1>1, ReaderHas, Reader!PointsMore
<1>3. ~Reader!EndsHigh(Append(chars, c))
  BY <1>1, ReaderHas, Reader!EndsHighMore
<1> QED BY <1>2, <1>3 DEF Matches, c

(* An escape, which may join with the one before.                          *)
LEMMA MatchesUnit ==
  ASSUME NEW forced, NEW d \in Seq(Nat), NEW chars \in Seq(Reader!CharacterType),
         Matches(forced, d, chars), NEW p \in Nat, forced
  PROVE  Matches(forced, Append(d, p), Append(chars, Reader!Unit(p)))
<1> DEFINE u == Units(d)
           b == Reader!Unit(p)
<1>1. b \in Reader!CharacterType /\ b.point = p /\ b.escaped = TRUE
  BY CharacterTypes
<1>2. u \in Seq(Reader!CharacterType) /\ Units(Append(d, p)) = Append(u, b)
  BY UnitsMore
<1>3. /\ Reader!Points(chars) = Reader!Points(u)
      /\ Reader!EndsHigh(chars) <=> Reader!EndsHigh(u)
  BY DEF Matches
<1> HIDE DEF u, b
<1>4. Reader!EndsHigh(Append(chars, b)) <=> Reader!EndsHigh(Append(u, b))
  BY <1>1, <1>2, ReaderHas, Reader!EndsHighMore
<1>5. CASE ~(Reader!EndsHigh(u) /\ p \in Reader!Lows)
  <2>1. Reader!Points(Append(chars, b)) = Append(Reader!Points(chars), p)
    BY <1>1, <1>3, <1>5, ReaderHas, Reader!PointsMore
  <2>2. Reader!Points(Append(u, b)) = Append(Reader!Points(u), p)
    BY <1>1, <1>2, <1>5, ReaderHas, Reader!PointsMore
  <2> QED BY <1>2, <1>3, <1>4, <2>1, <2>2 DEF Matches, b
<1>6. CASE Reader!EndsHigh(u) /\ p \in Reader!Lows
  <2> DEFINE ps == Reader!Points(u)
             x == chars[Len(chars)]
             y == u[Len(u)]
  <2>1. /\ Reader!Points(chars)[Len(Reader!Points(chars))] = x.point
        /\ Reader!Points(Append(chars, b))
             = [Reader!Points(chars) EXCEPT ![Len(Reader!Points(chars))]
                  = Reader!JoinedPoint(x, b)]
    BY <1>1, <1>3, <1>6, ReaderHas, Reader!PointsJoin
  <2>2. /\ ps[Len(ps)] = y.point
        /\ Reader!Points(Append(u, b))
             = [ps EXCEPT ![Len(ps)] = Reader!JoinedPoint(y, b)]
    BY <1>1, <1>2, <1>6, ReaderHas, Reader!PointsJoin
  <2> HIDE DEF x, y
  <2>a. Reader!Points(chars)[Len(Reader!Points(chars))] = x.point BY <2>1
  <2>b. ps[Len(ps)] = y.point BY <2>2
  <2>3. x.point = y.point BY <2>a, <2>b, <1>3, Zenon
  <2>4. Reader!JoinedPoint(x, b) = Reader!JoinedPoint(y, b)
    BY <2>3, SMT DEF Reader!JoinedPoint
  <2>5. Reader!Points(Append(chars, b)) = Reader!Points(Append(u, b))
    BY <2>1, <2>2, <2>4, <1>3, Zenon
  <2> QED BY <1>2, <1>4, <2>5 DEF Matches, b
<1> QED BY <1>5, <1>6

(* The surrogates of a point beyond 16 bits.                               *)
Beyond(p) == p \in Nat /\ p >= 65536 /\ p <= Reader!MaxPoint

(* The two halves of such a point join to it.                              *)
LEMMA PairOf ==
  ASSUME NEW p, Beyond(p)
  PROVE  /\ SixteenBits(HighOf(p)) /\ SixteenBits(LowOf(p))
         /\ HighOf(p) \in Reader!Highs /\ LowOf(p) \in Reader!Lows
         /\ HighOf(p) \notin Reader!Lows /\ LowOf(p) \notin Reader!Highs
         /\ Reader!JoinedPoint(Reader!Unit(HighOf(p)), Reader!Unit(LowOf(p))) = p
<1> DEFINE q == p - 65536
           h == q \div 1024
           l == q % 1024
<1>1. q \in Nat /\ q < 1048576 /\ p = 65536 + q BY SMT DEF Reader!MaxPoint, Beyond
<1>2. HighOf(p) = 55296 + h /\ LowOf(p) = 56320 + l BY SMT DEF HighOf, LowOf
<1> HIDE DEF q
<1>3. q = h * 1024 + l /\ h \in Nat /\ h < 1024 /\ l \in 0..1023 BY <1>1, SMT
<1> HIDE DEF h, l
<1>4. (55296 + h) % 1024 = h /\ (56320 + l) % 1024 = l BY <1>3, SMT
<1>5. /\ SixteenBits(HighOf(p)) /\ SixteenBits(LowOf(p))
      /\ HighOf(p) \in Reader!Highs /\ LowOf(p) \in Reader!Lows
      /\ HighOf(p) \notin Reader!Lows /\ LowOf(p) \notin Reader!Highs
      /\ HighOf(p) \in Nat /\ LowOf(p) \in Nat
  BY <1>2, <1>3, SMT DEF SixteenBits, Reader!Highs, Reader!Lows
<1>6. Reader!Unit(HighOf(p)).point = HighOf(p)
  BY SMT DEF Reader!Unit
<1>9. Reader!Unit(LowOf(p)).point = LowOf(p)
  BY SMT DEF Reader!Unit
<1>7. Reader!JoinedPoint(Reader!Unit(HighOf(p)), Reader!Unit(LowOf(p)))
        = 65536 + (HighOf(p) % 1024) * 1024 + (LowOf(p) % 1024)
  BY <1>6, <1>9, SMT DEF Reader!JoinedPoint
<1>8. 65536 + (HighOf(p) % 1024) * 1024 + (LowOf(p) % 1024) = p
  BY <1>1, <1>2, <1>3, <1>4, SMT
<1>10. Reader!JoinedPoint(Reader!Unit(HighOf(p)), Reader!Unit(LowOf(p))) = p
  BY <1>7, <1>8, SMT
<1> QED BY <1>5, <1>10, Zenon

(* Joining changes what was written last.                                  *)
LEMMA LastChanged ==
  ASSUME NEW s \in Seq(Int), NEW x \in Int, NEW y \in Int
  PROVE  [Append(s, x) EXCEPT ![Len(Append(s, x))] = y] = Append(s, y)
<1> DEFINE a == Append(s, x)
           b == Append(s, y)
           c == [a EXCEPT ![Len(a)] = y]
<1>1. /\ a \in Seq(Int) /\ Len(a) = Len(s) + 1 /\ Len(s) \in Nat
      /\ \A i \in 1..Len(s) : a[i] = s[i]
      /\ b \in Seq(Int) /\ Len(b) = Len(s) + 1
      /\ b[Len(s) + 1] = y /\ \A i \in 1..Len(s) : b[i] = s[i]
  OBVIOUS
<1> HIDE DEF a, b
<1>2. /\ c \in Seq(Int) /\ Len(c) = Len(s) + 1 /\ c[Len(s) + 1] = y
      /\ \A i \in 1..Len(s) : c[i] = a[i]
  BY <1>1
<1> HIDE DEF c
<1>3. ASSUME NEW i \in 1..(Len(s) + 1) PROVE c[i] = b[i]
  <2>1. CASE i = Len(s) + 1 BY <1>1, <1>2, <2>1
  <2>2. CASE i # Len(s) + 1
    <3>1. i \in 1..Len(s) BY <1>1, <2>2
    <3> QED BY <1>1, <1>2, <3>1
  <2> QED BY <2>1, <2>2
<1>4. c = b BY <1>1, <1>2, <1>3
<1> QED BY <1>4 DEF a, b, c

(* A point that takes a pair is no surrogate.                              *)
LEMMA BeyondSurrogates == ASSUME NEW p, Beyond(p) PROVE ~Surrogate(p)
<1>1. p \in Nat /\ p >= 65536 BY SMT DEF Beyond
<1>2. p \notin Reader!Highs BY <1>1, SMT DEF Reader!Highs
<1>3. p \notin Reader!Lows BY <1>1, SMT DEF Reader!Lows
<1> QED BY <1>2, <1>3, Zenon DEF Surrogate

(* A pair of escapes, which join with each other only.                     *)
LEMMA MatchesPair ==
  ASSUME NEW forced, NEW d \in Seq(Nat), NEW chars \in Seq(Reader!CharacterType),
         Matches(forced, d, chars), NEW p \in Nat, forced,
         Beyond(p)
  PROVE  Matches(forced, Append(d, p),
                 Append(Append(chars, Reader!Unit(HighOf(p))),
                        Reader!Unit(LowOf(p))))
<1> DEFINE u == Units(d)
           b == Reader!Unit(p)
           h == Reader!Unit(HighOf(p))
           l == Reader!Unit(LowOf(p))
           f == Append(chars, h)
           ps == Reader!Points(chars)
<1>1. HighOf(p) \in Nat /\ LowOf(p) \in Nat /\ ~Surrogate(p)
  <2>1. SixteenBits(HighOf(p)) /\ SixteenBits(LowOf(p)) BY PairOf
  <2>2. ~Surrogate(p) BY BeyondSurrogates
  <2> QED BY <2>1, <2>2 DEF SixteenBits
<1>2. /\ b \in Reader!CharacterType /\ b.point = p /\ b.escaped = TRUE
      /\ h \in Reader!CharacterType /\ h.point = HighOf(p) /\ h.escaped = TRUE
      /\ l \in Reader!CharacterType /\ l.point = LowOf(p) /\ l.escaped = TRUE
  BY <1>1, CharacterTypes
<1>3. u \in Seq(Reader!CharacterType) /\ Units(Append(d, p)) = Append(u, b)
  BY UnitsMore
<1>4. /\ ps = Reader!Points(u)
      /\ HighOf(p) \in Reader!Highs /\ LowOf(p) \in Reader!Lows
      /\ HighOf(p) \notin Reader!Lows /\ LowOf(p) \notin Reader!Highs
      /\ Reader!JoinedPoint(h, l) = p
  BY PairOf DEF Matches
<1>5. ps \in Seq(Int) BY ReaderHas, Reader!PointsType
<1> HIDE DEF u, b, h, l, ps
<1>6. Reader!Points(f) = Append(ps, HighOf(p))
  BY <1>2, <1>4, ReaderHas, Reader!PointsMore DEF ps
<1>7. f \in Seq(Reader!CharacterType) /\ f[Len(f)] = h
      /\ Reader!EndsHigh(f)
  <2>1. f \in Seq(Reader!CharacterType) /\ f[Len(f)] = h BY <1>2
  <2>2. Reader!EndsHigh(f) BY <1>2, <1>4, ReaderHas, Reader!EndsHighMore
  <2> QED BY <2>1, <2>2
<1> HIDE DEF f
<1>14. \A c \in Reader!CharacterType : c.escaped /\ c.point \in Reader!Lows =>
         Reader!Points(Append(f, c))
           = [Reader!Points(f) EXCEPT ![Len(Reader!Points(f))]
                = Reader!JoinedPoint(f[Len(f)], c)]
  BY <1>7, ReaderHas, Reader!PointsJoin
<1>8. Reader!Points(Append(f, l))
        = [Append(ps, HighOf(p)) EXCEPT ![Len(Append(ps, HighOf(p)))] = p]
  BY <1>2, <1>4, <1>6, <1>7, <1>14, Zenon
<1>9. [Append(ps, HighOf(p)) EXCEPT ![Len(Append(ps, HighOf(p)))] = p]
        = Append(ps, p)
  <2>1. HighOf(p) \in Int /\ p \in Int BY <1>1
  <2> QED BY <1>5, <2>1, LastChanged
<1>10. Reader!Points(Append(u, b)) = Append(Reader!Points(u), p)
  BY <1>1, <1>2, <1>3, ReaderHas, Reader!PointsMore DEF Surrogate
<1>11. ~Reader!EndsHigh(Append(f, l)) /\ ~Reader!EndsHigh(Append(u, b))
  <2>1. ~Reader!EndsHigh(Append(f, l))
    BY <1>2, <1>4, <1>7, ReaderHas, Reader!EndsHighMore
  <2>2. ~Reader!EndsHigh(Append(u, b))
    BY <1>1, <1>2, <1>3, ReaderHas, Reader!EndsHighMore DEF Surrogate
  <2> QED BY <2>1, <2>2
<1>12. Reader!Points(Append(f, l)) = Reader!Points(Append(u, b))
  BY <1>4, <1>8, <1>9, <1>10, Zenon
<1>13. Matches(forced, Append(d, p), Append(f, l))
  BY <1>3, <1>11, <1>12, Zenon DEF Matches
<1> QED BY <1>13 DEF f, h, l

(***************************************************************************)
(* What was written, and the string it was written for.                    *)
(***************************************************************************)
Ascii(b) == b < 128

(* What encode has put in its buffer when o was written.                   *)
Opened(o) == <<34>> \o o

(* The string s up to place i means what is written in o up to place e.    *)
Agree(forced, s, o, i, e) ==
  /\ i \in Nat \ {0} /\ e \in 1..(Len(o) + 1)
  /\ \E d, f, chars :
       /\ Spells(s, i, d) /\ Spells(o, e, f)
       /\ Reads(Opened(o), e + 1, chars) /\ Matches(forced, d, chars)
  /\ forced => \A k \in 1..(e - 1) : Ascii(Reader!ByteAt(o, k))

(* All of o is for what is before place i of the string.                   *)
Live(forced, s, o, i) == Agree(forced, s, o, i, Len(o) + 1)

(* Bytes of a sequence were copied, which may become one.                  *)
Middle(forced, s, o, i) ==
  /\ ~forced
  /\ \E j, e :
       /\ Agree(forced, s, o, j, e) /\ j < i /\ i - j = Len(o) + 1 - e
       /\ Same(s, j, o, e, i - j)
       /\ \A k \in 0..(i - j - 1) : ~Ascii(Reader!ByteAt(s, j + k))
       /\ \A n, p : Reader!SequenceForm(s, j, n, p) => j + n > i

(* Whatever is written from now on, no sequence begins at place e.         *)
Stuck(o, e) == \A t \in Seq(Byte) : Begins(o, t) => NoSequence(t, e)

(* Neither the string nor what is written can be UTF-8 any more.           *)
Dead(s, o) ==
  \E j \in 1..Len(s), e \in 1..Len(o) : \E d, f :
    /\ Spells(s, j, d) /\ NoSequence(s, j)
    /\ Spells(o, e, f) /\ Stuck(o, e)

(* The order of appending does not matter.                                 *)
LEMMA ConcatMoved ==
  ASSUME NEW q \in Seq(Byte), NEW o \in Seq(Byte), NEW x \in Seq(Byte)
  PROVE  q \o (o \o x) = (q \o o) \o x
BY ConcatAssociative

(* What encode has put in its buffer grows with what was written.          *)
LEMMA OpenedMore ==
  ASSUME NEW o \in Seq(Byte), NEW x \in Seq(Byte)
  PROVE  /\ Opened(o) \in Seq(Byte) /\ Len(Opened(o)) = Len(o) + 1
         /\ Opened(o \o x) = Opened(o) \o x
         /\ Opened(o \o x) \in Seq(Byte)
         /\ Begins(Opened(o), Opened(o \o x))
         /\ Holds(Opened(o \o x), Len(o) + 2, x)
<1> DEFINE q == <<34>>
<1>1. q \in Seq(Byte) /\ Len(q) = 1 BY DEF Byte
<1> HIDE DEF q
<1>2. q \o (o \o x) = (q \o o) \o x BY <1>1, ConcatMoved
<1>3. q \o o \in Seq(Byte) /\ Len(q \o o) = Len(o) + 1
  <2>1. q \o o \in Seq(Byte) /\ Len(q \o o) = Len(q) + Len(o)
    BY <1>1, ConcatBegins, Zenon
  <2>2. Len(o) \in Nat OBVIOUS
  <2> QED BY <1>1, <2>1, <2>2
<1>4. /\ (q \o o) \o x \in Seq(Byte) /\ Begins(q \o o, (q \o o) \o x)
      /\ Holds((q \o o) \o x, Len(q \o o) + 1, x)
  BY <1>3, ConcatBegins
<1>5. Len(q \o o) + 1 = Len(o) + 2 BY <1>3
<1> QED BY <1>2, <1>3, <1>4, <1>5, Zenon DEF Opened, q

(* A beginning of a beginning is one.                                      *)
LEMMA BeginsTrans ==
  ASSUME NEW s \in Seq(Byte), NEW t \in Seq(Byte), NEW u \in Seq(Byte),
         Begins(s, t), Begins(t, u)
  PROVE  Begins(s, u)
<1>1. /\ Len(s) \in Nat /\ Len(t) \in Nat /\ Len(u) \in Nat
      /\ Len(s) <= Len(t) /\ Len(t) <= Len(u)
  BY DEF Begins
<1>2. ASSUME NEW k \in 1..Len(s) PROVE Reader!ByteAt(s, k) = Reader!ByteAt(u, k)
  <2>1. k \in 1..Len(t) BY <1>1
  <2> QED BY <2>1, Zenon DEF Begins
<1>3. Len(s) <= Len(u) BY <1>1
<1> QED BY <1>2, <1>3, Zenon DEF Begins

(* What agreed still does when more is written.                            *)
LEMMA AgreeAlike ==
  ASSUME NEW forced, NEW s, NEW o \in Seq(Byte), NEW x \in Seq(Byte), NEW i,
         NEW e, Agree(forced, s, o, i, e)
  PROVE  Agree(forced, s, o \o x, i, e)
<1> DEFINE w == o \o x
<1>1. w \in Seq(Byte) /\ Begins(o, w) /\ Len(w) = Len(o) + Len(x)
  BY ConcatBegins
<1>2. /\ Opened(o) \in Seq(Byte) /\ Opened(w) \in Seq(Byte)
      /\ Begins(Opened(o), Opened(w))
  BY OpenedMore
<1> HIDE DEF w
<1>3. i \in Nat \ {0} /\ e \in 1..(Len(w) + 1)
  <2>1. Len(o) \in Nat /\ Len(x) \in Nat OBVIOUS
  <2>2. i \in Nat \ {0} /\ e \in 1..(Len(o) + 1) BY Zenon DEF Agree
  <2> QED BY <2>1, <2>2, <1>1
<1>4. PICK d, f, chars : /\ Spells(s, i, d) /\ Spells(o, e, f)
                         /\ Reads(Opened(o), e + 1, chars)
                         /\ Matches(forced, d, chars)
  BY Zenon DEF Agree
<1>5. Spells(w, e, f) BY <1>1, <1>4, SpellsAlike
<1>6. Reads(Opened(w), e + 1, chars) BY <1>2, <1>4, ReadsAlike
<1>7. ASSUME forced, NEW k \in 1..(e - 1) PROVE Ascii(Reader!ByteAt(w, k))
  <2>1. Ascii(Reader!ByteAt(o, k)) BY <1>7, Zenon DEF Agree
  <2>2. e \in 1..(Len(o) + 1) /\ Len(o) \in Nat BY DEF Agree
  <2>3. k \in 1..Len(o) BY <2>2
  <2>4. Reader!ByteAt(w, k) = Reader!ByteAt(o, k)
    BY <1>1, <2>3, Zenon DEF Begins
  <2> QED BY <2>1, <2>4
<1>8. Agree(forced, s, w, i, e)
  BY <1>3, <1>4, <1>5, <1>6, <1>7, Zenon DEF Agree
<1> QED BY <1>8 DEF w

(* What is dead stays so.                                                  *)
LEMMA DeadStays ==
  ASSUME NEW s \in Seq(Byte), NEW o \in Seq(Byte), NEW x \in Seq(Byte),
         Dead(s, o)
  PROVE  Dead(s, o \o x)
<1> DEFINE w == o \o x
<1>1. w \in Seq(Byte) /\ Begins(o, w) /\ Len(w) = Len(o) + Len(x)
  BY ConcatBegins
<1> HIDE DEF w
<1>2. PICK j \in 1..Len(s), e \in 1..Len(o) : \E d, f :
        /\ Spells(s, j, d) /\ NoSequence(s, j)
        /\ Spells(o, e, f) /\ Stuck(o, e)
  BY Zenon DEF Dead
<1>3. PICK d, f : /\ Spells(s, j, d) /\ NoSequence(s, j)
                  /\ Spells(o, e, f) /\ Stuck(o, e)
  BY <1>2
<1>4. Spells(w, e, f) BY <1>1, <1>3, SpellsAlike
<1>5. Stuck(w, e)
  BY <1>1, <1>3, BeginsTrans, Zenon DEF Stuck
<1>6. e \in 1..Len(w)
  <2>1. Len(o) \in Nat /\ Len(x) \in Nat OBVIOUS
  <2> QED BY <2>1, <1>1
<1>7. Dead(s, w) BY <1>3, <1>4, <1>5, <1>6, Zenon DEF Dead
<1> QED BY <1>7 DEF w

(* What is dead is no UTF-8.                                               *)
LEMMA DeadMeans ==
  ASSUME NEW s \in Seq(Byte), NEW o \in Seq(Byte), Dead(s, o)
  PROVE  ~IsUtf8(s) /\ ~IsUtf8(o)
<1>1. PICK j \in 1..Len(s), e \in 1..Len(o) : \E d, f :
        /\ Spells(s, j, d) /\ NoSequence(s, j)
        /\ Spells(o, e, f) /\ Stuck(o, e)
  BY Zenon DEF Dead
<1>2. PICK d, f : /\ Spells(s, j, d) /\ NoSequence(s, j)
                  /\ Spells(o, e, f) /\ Stuck(o, e)
  BY <1>1
<1>3. Begins(o, o) BY DEF Begins
<1>4. NoSequence(o, e) BY <1>2, <1>3, Zenon DEF Stuck
<1> QED BY <1>2, <1>4, PartSpelt

(* The bytes of a sequence.                                                *)
LEMMA HighTwo ==
  ASSUME NEW a, NEW b, Reader!IsTwo(a, b)
  PROVE  ~Ascii(a) /\ ~Ascii(b)
BY DEF Reader!IsTwo, Ascii

(* Of three.                                                               *)
LEMMA HighThree ==
  ASSUME NEW a, NEW b, NEW c, Reader!IsThree(a, b, c)
  PROVE  ~Ascii(a) /\ ~Ascii(b) /\ ~Ascii(c)
BY DEF Reader!IsThree, Ascii

(* Of four.                                                                *)
LEMMA HighFour ==
  ASSUME NEW a, NEW b, NEW c, NEW d, Reader!IsFour(a, b, c, d)
  PROVE  ~Ascii(a) /\ ~Ascii(b) /\ ~Ascii(c) /\ ~Ascii(d)
BY DEF Reader!IsFour, Ascii

(* Only a sequence of one byte has a byte below 128.                       *)
LEMMA HighForm ==
  ASSUME NEW s \in Seq(Byte), NEW i \in Nat \ {0}, NEW n, NEW p,
         Reader!SequenceForm(s, i, n, p)
  PROVE  /\ n \in 1..4 /\ p \in Nat /\ i + n - 1 <= Len(s)
         /\ n = 1 => Ascii(Reader!ByteAt(s, i)) /\ p = Reader!ByteAt(s, i)
         /\ n > 1 => /\ p >= 128
                     /\ \A k \in 0..(n - 1) : ~Ascii(Reader!ByteAt(s, i + k))
<1>1. n \in 1..4 /\ p \in Nat /\ i + n - 1 <= Len(s) /\ (n > 1 => p >= 128)
  BY ReaderHas, ReaderByte, Reader!FormBytes
<1>2. n = 1 => Ascii(Reader!ByteAt(s, i)) /\ p = Reader!ByteAt(s, i)
  BY DEF Reader!SequenceForm, Ascii
<1>3. ASSUME n > 1, NEW k \in 0..(n - 1) PROVE ~Ascii(Reader!ByteAt(s, i + k))
  <2>0. i + 0 = i OBVIOUS
  <2>1. CASE n = 2
    <3>1. Reader!IsTwo(Reader!ByteAt(s, i), Reader!ByteAt(s, i + 1))
      BY <2>1 DEF Reader!SequenceForm
    <3>2. ~Ascii(Reader!ByteAt(s, i)) /\ ~Ascii(Reader!ByteAt(s, i + 1))
      BY <3>1, HighTwo, Zenon
    <3>3. k = 0 \/ k = 1 BY <2>1
    <3> QED BY <2>0, <3>2, <3>3, Zenon
  <2>2. CASE n = 3
    <3>1. Reader!IsThree(Reader!ByteAt(s, i), Reader!ByteAt(s, i + 1),
                         Reader!ByteAt(s, i + 2))
      BY <2>2 DEF Reader!SequenceForm
    <3>2. /\ ~Ascii(Reader!ByteAt(s, i)) /\ ~Ascii(Reader!ByteAt(s, i + 1))
          /\ ~Ascii(Reader!ByteAt(s, i + 2))
      BY <3>1, HighThree, Zenon
    <3>3. k = 0 \/ k = 1 \/ k = 2 BY <2>2
    <3> QED BY <2>0, <3>2, <3>3, Zenon
  <2>3. CASE n = 4
    <3>1. Reader!IsFour(Reader!ByteAt(s, i), Reader!ByteAt(s, i + 1),
                        Reader!ByteAt(s, i + 2), Reader!ByteAt(s, i + 3))
      BY <2>3 DEF Reader!SequenceForm
    <3>2. /\ ~Ascii(Reader!ByteAt(s, i)) /\ ~Ascii(Reader!ByteAt(s, i + 1))
          /\ ~Ascii(Reader!ByteAt(s, i + 2)) /\ ~Ascii(Reader!ByteAt(s, i + 3))
      BY <3>1, HighFour, Zenon
    <3>3. k = 0 \/ k = 1 \/ k = 2 \/ k = 3 BY <2>3
    <3> QED BY <2>0, <3>2, <3>3, Zenon
  <2> QED BY <1>1, <1>3, <2>1, <2>2, <2>3
<1> QED BY <1>1, <1>2, <1>3

(* No sequence begins with a continuation byte, or beyond 244.             *)
NoLead(b) == b \in 128..191 \/ b \in 245..255

(* It is none of the bytes a sequence begins with.                         *)
LEMMA LeadOnly ==
  ASSUME NEW b, NoLead(b)
  PROVE  ~Ascii(b) /\ b \notin 192..223 /\ b \notin 224..239 /\ b \notin 240..244
BY DEF NoLead, Ascii

(* So there is no sequence.                                                *)
LEMMA NoLeadNone ==
  ASSUME NEW s \in Seq(Byte), NEW i \in Nat \ {0}, NoLead(Reader!ByteAt(s, i))
  PROVE  NoSequence(s, i)
<1> SUFFICES ASSUME NEW n, NEW p, Reader!SequenceForm(s, i, n, p) PROVE FALSE
  BY DEF NoSequence
<1>1. \/ Reader!ByteAt(s, i) < 128 \/ Reader!ByteAt(s, i) \in 192..223
      \/ Reader!ByteAt(s, i) \in 224..239 \/ Reader!ByteAt(s, i) \in 240..244
  <2>1. n \in 1..4 BY HighForm
  <2> QED BY <2>1
          DEF Reader!SequenceForm, Reader!IsTwo, Reader!IsThree, Reader!IsFour
<1> QED BY <1>1, LeadOnly DEF Ascii

(***************************************************************************)
(* A character more.                                                       *)
(***************************************************************************)
(* What was read is continued by x, which stands for point p.              *)
Continued(forced, o, x, p) ==
  \A d \in Seq(Nat), chars \in Seq(Reader!CharacterType) :
    Reads(Opened(o \o x), Len(o) + 2, chars) /\ Matches(forced, d, chars) =>
      \E more : /\ Reads(Opened(o \o x), Len(o \o x) + 2, more)
                /\ Matches(forced, Append(d, p), more)

AllAscii(x) == \A k \in 1..Len(x) : Ascii(x[k])

(* One of the bytes.                                                       *)
LEMMA HeldAt ==
  ASSUME NEW s, NEW e, NEW x, Holds(s, e, x), NEW k \in 1..Len(x)
  PROVE  Reader!ByteAt(s, e + k - 1) = x[k]
BY DEF Holds

(* A character of the string, and what it was written as.                  *)
LEMMA LiveMore ==
  ASSUME NEW forced, NEW s \in Seq(Byte), NEW o \in Seq(Byte), NEW i,
         Live(forced, s, o, i), NEW n, NEW p, Reader!SequenceForm(s, i, n, p),
         NEW x \in Seq(Byte), AllAscii(x), Continued(forced, o, x, p)
  PROVE  Live(forced, s, o \o x, i + n)
<1> DEFINE w == o \o x
           e == Len(o) + 1
<1>0. Len(o) \in Nat /\ Len(x) \in Nat OBVIOUS
<1>1. /\ w \in Seq(Byte) /\ Begins(o, w) /\ Len(w) = Len(o) + Len(x)
      /\ Holds(w, e, x)
  BY ConcatBegins
<1>2. Agree(forced, s, w, i, e) BY AgreeAlike DEF Live
<1>3. Continued(forced, o, x, p) OBVIOUS
<1>a. \A d \in Seq(Nat), chars \in Seq(Reader!CharacterType) :
        Reads(Opened(w), Len(o) + 2, chars) /\ Matches(forced, d, chars) =>
          \E more : /\ Reads(Opened(w), Len(w) + 2, more)
                    /\ Matches(forced, Append(d, p), more)
  BY <1>3, Zenon DEF Continued
<1> HIDE DEF w
<1>4. PICK d, f, chars : /\ Spells(s, i, d) /\ Spells(w, e, f)
                         /\ Reads(Opened(w), e + 1, chars)
                         /\ Matches(forced, d, chars)
  BY <1>2, Zenon DEF Agree
<1>5. i \in Nat \ {0} BY <1>2, Zenon DEF Agree
<1>6. n \in 1..4 /\ p \in Nat BY <1>5, HighForm
<1>7. Spells(s, i + n, Append(d, p)) BY <1>4, <1>5, SpellsMore
<1>8. \E g : Spells(w, e + Len(x), g)
  <2>1. ASSUME NEW k \in 0..(Len(x) - 1) PROVE Reader!ByteAt(w, e + k) < 128
    <3>1. k + 1 \in 1..Len(x) /\ e + (k + 1) - 1 = e + k BY <1>0
    <3>2. Reader!ByteAt(w, e + (k + 1) - 1) = x[k + 1]
      BY <1>1, <3>1, HeldAt
    <3>3. Ascii(x[k + 1]) BY <3>1, Zenon DEF AllAscii
    <3> QED BY <3>1, <3>2, <3>3 DEF Ascii
  <2>2. e \in Nat \ {0} /\ e + Len(x) <= Len(w) + 1 BY <1>0, <1>1
  <2> QED BY <1>0, <1>1, <1>4, <2>1, <2>2, SpellsAscii
<1>9. PICK more : /\ Reads(Opened(w), Len(w) + 2, more)
                  /\ Matches(forced, Append(d, p), more)
  <2>1. d \in Seq(Nat) /\ chars \in Seq(Reader!CharacterType)
    BY <1>4 DEF Spells, Reads
  <2>2. e + 1 = Len(o) + 2 BY <1>0
  <2>3. Reads(Opened(w), Len(o) + 2, chars) BY <1>4, <2>2
  <2> QED BY <1>a, <1>4, <2>1, <2>3, Zenon
<1>10. ASSUME forced, NEW k \in 1..(Len(w) + 1 - 1)
       PROVE  Ascii(Reader!ByteAt(w, k))
  <2>1. CASE k <= Len(o)
    <3>1. k \in 1..(e - 1) BY <1>0, <2>1
    <3> QED BY <1>2, <1>10, <3>1, Zenon DEF Agree
  <2>2. CASE k > Len(o)
    <3>1. k - Len(o) \in 1..Len(x) /\ e + (k - Len(o)) - 1 = k
      BY <1>0, <1>1, <2>2
    <3>2. Reader!ByteAt(w, e + (k - Len(o)) - 1) = x[k - Len(o)]
      BY <1>1, <3>1, HeldAt
    <3> QED BY <3>1, <3>2 DEF AllAscii
  <2> QED BY <1>0, <1>1, <2>1, <2>2
<1>11. i + n \in Nat \ {0} /\ Len(w) + 1 \in 1..(Len(w) + 1)
       /\ Len(w) + 1 + 1 = Len(w) + 2 /\ e + Len(x) = Len(w) + 1
  BY <1>0, <1>1, <1>5, <1>6
<1>12. PICK g : Spells(w, Len(w) + 1, g)
  BY <1>8, <1>11
<1>15. Reads(Opened(w), Len(w) + 1 + 1, more)
  BY <1>9, <1>11
<1>13. Agree(forced, s, w, i + n, Len(w) + 1)
  <2> DEFINE z == Len(w) + 1
             y == i + n
  <2>1. y \in Nat \ {0} /\ z \in 1..(Len(w) + 1) BY <1>11
  <2>2. forced => \A k \in 1..(z - 1) : Ascii(Reader!ByteAt(w, k)) BY <1>10
  <2>3. /\ Spells(s, y, Append(d, p)) /\ Spells(w, z, g)
        /\ Reads(Opened(w), z + 1, more) /\ Matches(forced, Append(d, p), more)
    BY <1>7, <1>9, <1>12, <1>15
  <2> HIDE DEF y, z
  <2>4. Agree(forced, s, w, y, z) BY <2>1, <2>2, <2>3, Zenon DEF Agree
  <2> QED BY <2>4 DEF y, z
<1>14. Live(forced, s, w, i + n) BY <1>13, Zenon DEF Live
<1> QED BY <1>14 DEF w

(* One character that matches the point.                                   *)
LEMMA ContinuedBy ==
  ASSUME NEW forced, NEW o \in Seq(Byte), NEW x \in Seq(Byte), NEW p, NEW c,
         Reader!CharacterForm(Opened(o \o x), Len(o) + 2, Len(x), c),
         \A d \in Seq(Nat), chars \in Seq(Reader!CharacterType) :
           Matches(forced, d, chars) =>
             Matches(forced, Append(d, p), Append(chars, c))
  PROVE  Continued(forced, o, x, p)
<1> DEFINE t == Opened(o \o x)
<1> SUFFICES ASSUME NEW d \in Seq(Nat), NEW chars \in Seq(Reader!CharacterType),
                    Reads(t, Len(o) + 2, chars), Matches(forced, d, chars)
             PROVE  \E more : /\ Reads(t, Len(o \o x) + 2, more)
                              /\ Matches(forced, Append(d, p), more)
  BY Zenon DEF Continued
<1>1. t \in Seq(Byte) BY OpenedMore
<1>2. Reader!CharacterForm(t, Len(o) + 2, Len(x), c) OBVIOUS
<1> HIDE DEF t
<1>3. Len(o) + 2 \in Nat \ {0} OBVIOUS
<1>4. Reads(t, Len(o) + 2 + Len(x), Append(chars, c))
  BY <1>1, <1>2, <1>3, ReadsMore
<1>5. Len(o) + 2 + Len(x) = Len(o \o x) + 2
  <2>1. Len(o \o x) = Len(o) + Len(x) BY ConcatBegins
  <2> QED BY <2>1
<1> QED BY <1>4, <1>5, Zenon

(* The letters, escapes, and bytes that are written.                       *)
LEMMA LetterBytes ==
  ASSUME NEW c \in {8, 9, 10, 12, 13, 34, 47, 92}
  PROVE  /\ <<92, Letter(c)>> \in Seq(Byte) /\ Len(<<92, Letter(c)>>) = 2
         /\ AllAscii(<<92, Letter(c)>>)
<1> DEFINE l == Letter(c)
           x == <<92, l>>
<1>1. l \in 0..127 BY DEF Letter
<1> HIDE DEF l
<1>2. x \in Seq(Byte) /\ Len(x) = 2 BY <1>1 DEF Byte
<1>3. x[1] = 92 /\ x[2] = l OBVIOUS
<1> HIDE DEF x
<1>4. ASSUME NEW k \in 1..Len(x) PROVE Ascii(x[k])
  <2>1. k = 1 \/ k = 2 BY <1>2
  <2> QED BY <1>1, <1>3, <2>1 DEF Ascii
<1>5. AllAscii(x) BY <1>4, Zenon DEF AllAscii
<1> QED BY <1>2, <1>5 DEF x, l

(* The six bytes of an escape.                                             *)
LEMMA UnicodeBytes ==
  ASSUME NEW v, SixteenBits(v)
  PROVE  Unicode(v) \in Seq(Byte) /\ Len(Unicode(v)) = 6 /\ AllAscii(Unicode(v))
<1> DEFINE a == HexDigit((v \div 4096) % 16)
           b == HexDigit((v \div 256) % 16)
           c == HexDigit((v \div 16) % 16)
           d == HexDigit(v % 16)
           x == <<92, 117, a, b, c, d>>
<1>1. \A n \in 0..15 : HexDigit(n) \in 0..127 BY DEF HexDigit
<1>2. /\ (v \div 4096) % 16 \in 0..15 /\ (v \div 256) % 16 \in 0..15
      /\ (v \div 16) % 16 \in 0..15 /\ v % 16 \in 0..15
  BY Nibbles
<1>3. a \in 0..127 /\ b \in 0..127 /\ c \in 0..127 /\ d \in 0..127
  BY <1>1, <1>2
<1>4. Unicode(v) = x BY DEF Unicode
<1> HIDE DEF a, b, c, d
<1>5. x \in Seq(Byte) /\ Len(x) = 6 BY <1>3 DEF Byte
<1>6. /\ x[1] = 92 /\ x[2] = 117 /\ x[3] = a /\ x[4] = b /\ x[5] = c /\ x[6] = d
  OBVIOUS
<1> HIDE DEF x
<1>7. ASSUME NEW k \in 1..Len(x) PROVE Ascii(x[k])
  <2>1. k = 1 \/ k = 2 \/ k = 3 \/ k = 4 \/ k = 5 \/ k = 6 BY <1>5
  <2>2. /\ Ascii(x[1]) /\ Ascii(x[2]) /\ Ascii(x[3]) /\ Ascii(x[4])
        /\ Ascii(x[5]) /\ Ascii(x[6])
    BY <1>3, <1>6 DEF Ascii
  <2> QED BY <2>1, <2>2, Zenon
<1>8. AllAscii(x) BY <1>7, Zenon DEF AllAscii
<1> QED BY <1>4, <1>5, <1>8

(* The points below 128 are neither surrogates nor wide.                   *)
LEMMA LowBytes == \A p \in 0..127 : ~Surrogate(p) /\ SixteenBits(p)
BY DEF Surrogate, Reader!Highs, Reader!Lows, SixteenBits

(* A letter escape is read as what it stands for.                          *)
LEMMA ContinuedLetter ==
  ASSUME NEW forced, NEW o \in Seq(Byte),
         NEW c \in {8, 9, 10, 12, 13, 34, 47, 92}
  PROVE  Continued(forced, o, <<92, Letter(c)>>, c)
<1> DEFINE x == <<92, Letter(c)>>
<1>1. x \in Seq(Byte) /\ Len(x) = 2 BY LetterBytes
<1>2. Holds(Opened(o \o x), Len(o) + 2, x) BY <1>1, OpenedMore
<1>3. Len(o) + 2 \in Nat \ {0} OBVIOUS
<1>4. Reader!CharacterForm(Opened(o \o x), Len(o) + 2, 2, Reader!Bare(c))
  BY <1>2, <1>3, LetterCharacter, ZenonT(60)
<1>5. /\ c \in Nat /\ ~Surrogate(c)
      /\ Reader!Bare(c) \in {Reader!Bare(c), Reader!Unit(c)}
  <2>1. c \in 0..127 OBVIOUS
  <2>2. ~Surrogate(c) BY <2>1, LowBytes, Zenon
  <2> QED BY <2>1, <2>2
<1> HIDE DEF x
<1>6. \A d \in Seq(Nat), chars \in Seq(Reader!CharacterType) :
        Matches(forced, d, chars) =>
          Matches(forced, Append(d, c), Append(chars, Reader!Bare(c)))
  BY <1>5, MatchesPlain
<1>8. Reader!CharacterForm(Opened(o \o x), Len(o) + 2, Len(x), Reader!Bare(c))
  BY <1>1, <1>4, Zenon
<1>7. Continued(forced, o, x, c) BY <1>1, <1>6, <1>8, ContinuedBy, ZenonT(60)
<1> QED BY <1>7 DEF x

(* So is an escape of a unit of 16 bits, which ensure_ascii takes for a    *)
(* surrogate too.                                                          *)
LEMMA ContinuedUnit ==
  ASSUME NEW forced, NEW o \in Seq(Byte), NEW v, SixteenBits(v),
         ~Surrogate(v) \/ forced
  PROVE  Continued(forced, o, Unicode(v), v)
<1> DEFINE x == Unicode(v)
<1>1. x \in Seq(Byte) /\ Len(x) = 6 BY UnicodeBytes
<1>2. Holds(Opened(o \o x), Len(o) + 2, x) BY <1>1, OpenedMore
<1>3. Len(o) + 2 \in Nat \ {0} OBVIOUS
<1>4. Reader!CharacterForm(Opened(o \o x), Len(o) + 2, 6, Reader!Unit(v))
  BY <1>2, <1>3, UnicodeCharacter
<1>5. v \in Nat /\ Reader!Unit(v) \in {Reader!Bare(v), Reader!Unit(v)}
  BY DEF SixteenBits
<1> HIDE DEF x
<1>6. \A d \in Seq(Nat), chars \in Seq(Reader!CharacterType) :
        Matches(forced, d, chars) =>
          Matches(forced, Append(d, v), Append(chars, Reader!Unit(v)))
  <2>1. CASE forced BY <1>5, <2>1, MatchesUnit
  <2>2. CASE ~Surrogate(v) BY <1>5, <2>2, MatchesPlain
  <2> QED BY <2>1, <2>2
<1>7. Continued(forced, o, x, v) BY <1>1, <1>4, <1>6, ContinuedBy
<1> QED BY <1>7 DEF x

(* And a byte that was copied.                                             *)
LEMMA ContinuedByte ==
  ASSUME NEW forced, NEW o \in Seq(Byte), NEW b \in 0..127, b \notin {0, 34, 92}
  PROVE  Continued(forced, o, <<b>>, b)
<1> DEFINE x == <<b>>
           t == Opened(o \o x)
           e == Len(o) + 2
<1>1. x \in Seq(Byte) /\ Len(x) = 1 /\ x[1] = b BY DEF Byte
<1> HIDE DEF x
<1>2. Holds(t, e, x) BY <1>1, OpenedMore
<1>3. Reader!ByteAt(t, e) = b /\ e <= Len(t)
  <2>1. e \in Nat /\ e + 1 - 1 = e /\ e + Len(x) - 1 = e BY <1>1
  <2>2. e + Len(x) - 1 <= Len(t) BY <1>2, Zenon DEF Holds
  <2>3. 1 \in 1..Len(x) BY <1>1
  <2>4. Reader!ByteAt(t, e + 1 - 1) = x[1] BY <1>2, <2>3, HeldAt
  <2> QED BY <1>1, <2>1, <2>2, <2>4
<1> HIDE DEF t, e
<1>4. Reader!SequenceForm(t, e, 1, b) BY <1>3, AsciiForm
<1>5. Reader!CharacterForm(t, e, 1, Reader!Bare(b)) BY <1>4, PlainCharacter
<1>6. /\ b \in Nat /\ ~Surrogate(b)
      /\ Reader!Bare(b) \in {Reader!Bare(b), Reader!Unit(b)}
  <2>1. ~Surrogate(b) BY LowBytes, Zenon
  <2> QED BY <2>1
<1>7. \A d \in Seq(Nat), chars \in Seq(Reader!CharacterType) :
        Matches(forced, d, chars) =>
          Matches(forced, Append(d, b), Append(chars, Reader!Bare(b)))
  BY <1>6, MatchesPlain
<1>8. Continued(forced, o, x, b)
  <2>1. Reader!CharacterForm(Opened(o \o x), Len(o) + 2, Len(x), Reader!Bare(b))
    BY <1>1, <1>5 DEF t, e
  <2> QED BY <1>1, <1>7, <2>1, ContinuedBy
<1> QED BY <1>8 DEF x

(***************************************************************************)
(* Bytes of sequences that are copied.                                     *)
(***************************************************************************)
(* A copied byte is where a sequence may begin.                            *)
LEMMA LiveCopies ==
  ASSUME NEW forced, ~forced, NEW s \in Seq(Byte), NEW o \in Seq(Byte),
         NEW i \in 1..Len(s), Live(forced, s, o, i),
         NEW b \in Byte, b = Reader!ByteAt(s, i), ~Ascii(b)
  PROVE  Middle(forced, s, o \o <<b>>, i + 1)
<1> DEFINE x == <<b>>
           w == o \o x
           e == Len(o) + 1
<1>0. x \in Seq(Byte) /\ Len(x) = 1 /\ x[1] = b OBVIOUS
<1> HIDE DEF x
<1>1. w \in Seq(Byte) /\ Len(w) = Len(o) + 1 /\ Holds(w, e, x)
  BY <1>0, ConcatBegins, ZenonT(60)
<1>2. Agree(forced, s, w, i, e) BY <1>0, AgreeAlike DEF Live
<1> HIDE DEF w
<1>3. Len(o) \in Nat /\ i \in Nat /\ i + 1 - i = 1 /\ Len(w) + 1 - e = 1
      /\ i < i + 1 /\ i \in Nat \ {0} /\ e \in Nat
  BY <1>1
<1>4. Same(s, i, w, e, 1)
  <2>1. 1 \in 1..Len(x) /\ e + 1 - 1 = e /\ i + 0 = i /\ e + 0 = e
    BY <1>0, <1>3
  <2>2. Reader!ByteAt(w, e) = b BY <1>0, <1>1, <2>1, HeldAt
  <2>3. \A k \in 0..(1 - 1) : k = 0 OBVIOUS
  <2> QED BY <2>1, <2>2, <2>3, Zenon DEF Same
<1>5. \A k \in 0..(1 - 1) : ~Ascii(Reader!ByteAt(s, i + k))
  <2>1. \A k \in 0..(1 - 1) : k = 0 OBVIOUS
  <2>2. i + 0 = i BY <1>3
  <2> QED BY <2>1, <2>2, Zenon
<1>6. ASSUME NEW n, NEW p, Reader!SequenceForm(s, i, n, p)
      PROVE  i + n > i + 1
  <2>1. n \in 1..4 /\ (n = 1 => Ascii(Reader!ByteAt(s, i)))
    BY <1>3, <1>6, HighForm
  <2>2. n # 1 BY <2>1
  <2> QED BY <1>3, <2>1, <2>2
<1> HIDE DEF e
<1>7. Middle(forced, s, w, i + 1)
  <2> DEFINE j == i + 1
  <2>1. j - i = 1 /\ i < j /\ j - i = Len(w) + 1 - e BY <1>3
  <2>2. \A n, p : Reader!SequenceForm(s, i, n, p) => i + n > j BY <1>6
  <2> HIDE DEF j
  <2>3. /\ Same(s, i, w, e, j - i)
        /\ \A k \in 0..(j - i - 1) : ~Ascii(Reader!ByteAt(s, i + k))
    BY <1>4, <1>5, <2>1, Zenon
  <2>4. Middle(forced, s, w, j)
    BY <1>2, <2>1, <2>2, <2>3, Zenon DEF Middle
  <2> QED BY <2>4 DEF j
<1> QED BY <1>7 DEF w, x

(* What Middle says, and of a byte more.                                   *)
Copied(forced, s, o, i, j, e) ==
  /\ Agree(forced, s, o, j, e) /\ j < i /\ i - j = Len(o) + 1 - e
  /\ Same(s, j, o, e, i - j)
  /\ \A k \in 0..(i - j - 1) : ~Ascii(Reader!ByteAt(s, j + k))

(* A byte more of the sequence that is being copied.                       *)
LEMMA CopiedMore ==
  ASSUME NEW forced, NEW s \in Seq(Byte), NEW o \in Seq(Byte),
         NEW i \in 1..Len(s), NEW j, NEW e, Copied(forced, s, o, i, j, e),
         NEW b \in Byte, b = Reader!ByteAt(s, i), ~Ascii(b)
  PROVE  Copied(forced, s, o \o <<b>>, i + 1, j, e)
<1> DEFINE x == <<b>>
           w == o \o x
           m == i - j
<1>0. x \in Seq(Byte) /\ Len(x) = 1 /\ x[1] = b OBVIOUS
<1> HIDE DEF x
<1>1. /\ w \in Seq(Byte) /\ Len(w) = Len(o) + 1 /\ Begins(o, w)
      /\ Holds(w, Len(o) + 1, x)
  BY <1>0, ConcatBegins, ZenonT(60)
<1>2. Agree(forced, s, o, j, e) BY Zenon DEF Copied
<1>3. Agree(forced, s, w, j, e) BY <1>0, <1>2, AgreeAlike
<1>4. j \in Nat \ {0} /\ e \in 1..(Len(o) + 1) BY <1>2, Zenon DEF Agree
<1>5. j < i /\ m = Len(o) + 1 - e /\ Same(s, j, o, e, m)
      /\ \A k \in 0..(m - 1) : ~Ascii(Reader!ByteAt(s, j + k))
  BY Zenon DEF Copied
<1> HIDE DEF w
<1>6. /\ Len(o) \in Nat /\ i \in Nat /\ m \in Nat /\ m > 0 /\ i + 1 - j = m + 1
      /\ j + m = i /\ e + m = Len(o) + 1 /\ j < i + 1
      /\ i + 1 - j = Len(w) + 1 - e
  BY <1>1, <1>4, <1>5, SMTT(60)
<1> HIDE DEF m
<1>7. Reader!ByteAt(w, Len(o) + 1) = b
  <2>1. 1 \in 1..Len(x) /\ Len(o) + 1 + 1 - 1 = Len(o) + 1 BY <1>0, <1>6
  <2> QED BY <1>0, <1>1, <2>1, HeldAt
<1>8. Same(s, j, w, e, m + 1)
  <2>1. ASSUME NEW k \in 0..(m + 1 - 1)
        PROVE  Reader!ByteAt(s, j + k) = Reader!ByteAt(w, e + k)
    <3>1. CASE k = m BY <3>1, <1>6, <1>7
    <3>2. CASE k # m
      <4>1. k \in 0..(m - 1) /\ e + k \in 1..Len(o) BY <1>4, <1>6, <3>2
      <4>2. Reader!ByteAt(s, j + k) = Reader!ByteAt(o, e + k)
        BY <1>5, <4>1, Zenon DEF Same
      <4>3. Reader!ByteAt(o, e + k) = Reader!ByteAt(w, e + k)
        BY <1>1, <4>1, Zenon DEF Begins
      <4> QED BY <4>2, <4>3
    <3> QED BY <3>1, <3>2
  <2> DEFINE n == m + 1
  <2>2. \A k \in 0..(n - 1) : Reader!ByteAt(s, j + k) = Reader!ByteAt(w, e + k)
    BY <1>6, <2>1
  <2> HIDE DEF n
  <2>3. Same(s, j, w, e, n) BY <2>2, Zenon DEF Same
  <2> QED BY <2>3 DEF n
<1>9. ASSUME NEW k \in 0..(m + 1 - 1) PROVE ~Ascii(Reader!ByteAt(s, j + k))
  <2>1. CASE k = m
    <3>1. j + k = i BY <2>1, <1>6
    <3> QED BY <3>1
  <2>2. CASE k # m
    <3>1. k \in 0..(m - 1) BY <1>6, <2>2
    <3> QED BY <1>5, <3>1, Zenon
  <2> QED BY <2>1, <2>2
<1>10. Copied(forced, s, w, i + 1, j, e)
  <2> DEFINE y == i + 1
  <2>1. y - j = m + 1 /\ j < y /\ y - j = Len(w) + 1 - e BY <1>4, <1>6
  <2>4. \A k \in 0..(y - j - 1) : ~Ascii(Reader!ByteAt(s, j + k))
    <3>1. ASSUME NEW k \in 0..(y - j - 1) PROVE ~Ascii(Reader!ByteAt(s, j + k))
      <4>1. k \in 0..(m + 1 - 1) BY <1>6, <2>1
      <4> QED BY <1>9, <4>1
    <3> QED BY <3>1
  <2> HIDE DEF y
  <2>2. /\ Same(s, j, w, e, y - j)
        /\ \A k \in 0..(y - j - 1) : ~Ascii(Reader!ByteAt(s, j + k))
    BY <1>8, <2>1, <2>4
  <2>3. Copied(forced, s, w, y, j, e) BY <1>3, <2>1, <2>2, Zenon DEF Copied
  <2> QED BY <2>3 DEF y
<1> QED BY <1>10 DEF w, x

(* The bytes copied are a sequence.                                        *)
LEMMA CopiedWhole ==
  ASSUME NEW forced, ~forced, NEW s \in Seq(Byte), NEW o \in Seq(Byte),
         NEW i \in Nat, NEW j, NEW e, Copied(forced, s, o, i, j, e),
         NEW p, Reader!SequenceForm(s, j, i - j, p)
  PROVE  Live(forced, s, o, i)
<1> DEFINE m == i - j
           t == Opened(o)
<1>0. Len(o) \in Nat OBVIOUS
<1>1. Agree(forced, s, o, j, e) BY Zenon DEF Copied
<1>2. j \in Nat \ {0} /\ e \in 1..(Len(o) + 1) BY <1>1, Zenon DEF Agree
<1>3. j < i /\ m = Len(o) + 1 - e /\ Same(s, j, o, e, m)
      /\ \A k \in 0..(m - 1) : ~Ascii(Reader!ByteAt(s, j + k))
  BY Zenon DEF Copied
<1>4. m \in 1..4 /\ p \in Nat /\ (m = 1 => Ascii(Reader!ByteAt(s, j)))
      /\ (m > 1 => p >= 128)
  BY <1>2, HighForm
<1>5. /\ j + m = i /\ e + m = Len(o) + 1 /\ m \in Nat \ {0} /\ e \in Nat \ {0}
      /\ 0 \in 0..(m - 1) /\ j + 0 = j /\ e + m - 1 <= Len(o)
  BY <1>0, <1>2, <1>3
<1>a. Reader!SequenceForm(s, j, m, p) OBVIOUS
<1> HIDE DEF m
<1>6. p >= 128 BY <1>3, <1>4, <1>5
<1>7. PICK d, f, chars : /\ Spells(s, j, d) /\ Spells(o, e, f)
                         /\ Reads(t, e + 1, chars)
                         /\ Matches(forced, d, chars)
  BY <1>1, Zenon DEF Agree
<1>8. Spells(s, i, Append(d, p)) BY <1>2, <1>5, <1>7, <1>a, SpellsMore
<1>9. Reader!SequenceForm(o, e, m, p)
  BY <1>2, <1>3, <1>5, <1>a, SequenceMoves
<1>10. Spells(o, Len(o) + 1, Append(f, p)) BY <1>5, <1>7, <1>9, SpellsMore
<1>11. /\ t \in Seq(Byte) /\ Len(t) = Len(o) + 1
       /\ \A k \in 1..Len(o) : Reader!ByteAt(o, k) = Reader!ByteAt(t, k + 1)
  <2> DEFINE q == <<34>>
  <2>1. t \in Seq(Byte) /\ Len(t) = Len(o) + 1
    <3>1. <<>> \in Seq(Byte) OBVIOUS
    <3> QED BY <3>1, OpenedMore
  <2>2. q \in Seq(Byte) /\ Len(q) = 1 BY DEF Byte
  <2>3. Holds(t, 2, o)
    <3> HIDE DEF q
    <3>1. Holds(q \o o, Len(q) + 1, o) BY <2>2, ConcatBegins
    <3>2. Len(q) + 1 = 2 BY <2>2
    <3> QED BY <3>1, <3>2 DEF Opened, q
  <2>4. ASSUME NEW k \in 1..Len(o)
        PROVE  Reader!ByteAt(o, k) = Reader!ByteAt(t, k + 1)
    <3>1. 2 + k - 1 = k + 1 /\ k <= Len(o) BY <1>0
    <3>2. Reader!ByteAt(t, 2 + k - 1) = o[k] BY <2>3, HeldAt
    <3>3. Reader!ByteAt(o, k) = o[k] BY <3>1 DEF Reader!ByteAt
    <3> QED BY <3>1, <3>2, <3>3
  <2> QED BY <2>1, <2>4
<1> HIDE DEF t
<1>12. Same(o, e, t, e + 1, m)
  <2>1. ASSUME NEW k \in 0..(m - 1)
        PROVE  Reader!ByteAt(o, e + k) = Reader!ByteAt(t, e + 1 + k)
    <3>1. e + k \in 1..Len(o) /\ e + k + 1 = e + 1 + k BY <1>0, <1>2, <1>5
    <3> QED BY <1>11, <3>1
  <2> QED BY <2>1, Zenon DEF Same
<1>13. Reader!SequenceForm(t, e + 1, m, p)
  <2>1. e + 1 \in Nat \ {0} /\ e + 1 + m - 1 <= Len(t) BY <1>0, <1>5, <1>11
  <2> QED BY <1>5, <1>9, <1>12, <2>1, SequenceMoves
<1>14. Reader!CharacterForm(t, e + 1, m, Reader!Bare(p))
  <2>1. p \notin {0, 34, 92} BY <1>4, <1>6
  <2> QED BY <1>13, <2>1, PlainCharacter
<1>15. Reads(t, Len(o) + 1 + 1, Append(chars, Reader!Bare(p)))
  <2>1. e + 1 \in Nat \ {0} /\ e + 1 + m = Len(o) + 1 + 1 BY <1>0, <1>5
  <2>2. Reads(t, e + 1 + m, Append(chars, Reader!Bare(p)))
    BY <1>7, <1>11, <1>14, <2>1, ReadsMore
  <2> QED BY <2>1, <2>2
<1>16. Matches(forced, Append(d, p), Append(chars, Reader!Bare(p)))
  <2>1. d \in Seq(Nat) /\ chars \in Seq(Reader!CharacterType)
    BY <1>7 DEF Spells, Reads
  <2> QED BY <1>4, <1>7, <2>1, MatchesBare
<1>17. i \in Nat \ {0} /\ Len(o) + 1 \in 1..(Len(o) + 1)
  BY <1>0, <1>2, <1>3
<1>18. Agree(forced, s, o, i, Len(o) + 1)
  <2> DEFINE z == Len(o) + 1
  <2> HIDE DEF z
  <2>1. /\ Spells(s, i, Append(d, p)) /\ Spells(o, z, Append(f, p))
        /\ Reads(t, z + 1, Append(chars, Reader!Bare(p)))
        /\ Matches(forced, Append(d, p), Append(chars, Reader!Bare(p)))
    BY <1>8, <1>10, <1>15, <1>16 DEF z
  <2>2. i \in Nat \ {0} /\ z \in 1..(Len(o) + 1) BY <1>17 DEF z
  <2>3. Agree(forced, s, o, i, z) BY <2>1, <2>2, Zenon DEF Agree, t
  <2> QED BY <2>3 DEF z
<1> QED BY <1>18, Zenon DEF Live

(* After a copied byte the sequence is whole, or goes on.                  *)
LEMMA MiddleCopies ==
  ASSUME NEW forced, NEW s \in Seq(Byte), NEW o \in Seq(Byte),
         NEW i \in 1..Len(s), Middle(forced, s, o, i),
         NEW b \in Byte, b = Reader!ByteAt(s, i), ~Ascii(b)
  PROVE  Live(forced, s, o \o <<b>>, i + 1) \/ Middle(forced, s, o \o <<b>>, i + 1)
<1> DEFINE w == o \o <<b>>
           y == i + 1
<1>1. ~forced BY Zenon DEF Middle
<1>2. PICK j, e : /\ Copied(forced, s, o, i, j, e)
                  /\ \A n, p : Reader!SequenceForm(s, j, n, p) => j + n > i
  BY Zenon DEF Middle, Copied
<1>3. Copied(forced, s, w, y, j, e) BY <1>2, CopiedMore
<1>4. w \in Seq(Byte)
  <2>1. <<b>> \in Seq(Byte) OBVIOUS
  <2> QED BY <2>1, ConcatBegins
<1>5. y \in Nat /\ j \in Nat \ {0} /\ i \in Nat
  <2>1. j \in Nat \ {0} BY <1>2, Zenon DEF Copied, Agree
  <2> QED BY <2>1
<1>6. CASE \E n, p : Reader!SequenceForm(s, j, n, p) /\ ~(j + n > y)
  <2>1. PICK n, p : Reader!SequenceForm(s, j, n, p) /\ ~(j + n > y) BY <1>6
  <2>2. n \in 1..4 BY <1>5, <2>1, HighForm
  <2>3. j + n > i BY <1>2, <2>1
  <2>4. n = y - j BY <1>5, <2>1, <2>2, <2>3
  <2>5. Reader!SequenceForm(s, j, y - j, p) BY <2>1, <2>4
  <2> HIDE DEF w, y
  <2>6. Live(forced, s, w, y) BY <1>1, <1>3, <1>4, <1>5, <2>5, CopiedWhole
  <2> QED BY <2>6 DEF w, y
<1>7. CASE ~(\E n, p : Reader!SequenceForm(s, j, n, p) /\ ~(j + n > y))
  <2>1. \A n, p : Reader!SequenceForm(s, j, n, p) => j + n > y BY <1>7
  <2> HIDE DEF w, y
  <2>2. Middle(forced, s, w, y) BY <1>1, <1>3, <2>1, Zenon DEF Middle, Copied
  <2> QED BY <2>2 DEF w, y
<1> QED BY <1>6, <1>7

(* A byte below 128 ends what was copied, which was no sequence then.      *)
LEMMA MiddleEnds ==
  ASSUME NEW forced, NEW s \in Seq(Byte), NEW o \in Seq(Byte),
         NEW i \in 1..Len(s), Middle(forced, s, o, i), Ascii(Reader!ByteAt(s, i)),
         NEW x \in Seq(Byte), Len(x) > 0, AllAscii(x)
  PROVE  Dead(s, o \o x)
<1> DEFINE w == o \o x
<1>1. PICK j, e : /\ Copied(forced, s, o, i, j, e)
                  /\ \A n, p : Reader!SequenceForm(s, j, n, p) => j + n > i
  BY Zenon DEF Middle, Copied
<1> DEFINE m == i - j
<1>2. Agree(forced, s, o, j, e) BY <1>1, Zenon DEF Copied
<1>3. j \in Nat \ {0} /\ e \in 1..(Len(o) + 1) BY <1>2, Zenon DEF Agree
<1>4. j < i /\ m = Len(o) + 1 - e /\ Same(s, j, o, e, m)
      /\ \A k \in 0..(m - 1) : ~Ascii(Reader!ByteAt(s, j + k))
  BY <1>1, Zenon DEF Copied
<1>5. /\ w \in Seq(Byte) /\ Len(w) = Len(o) + Len(x) /\ Begins(o, w)
      /\ Holds(w, Len(o) + 1, x)
  BY ConcatBegins
<1> HIDE DEF w
<1>6. /\ Len(o) \in Nat /\ Len(x) \in Nat /\ i \in Nat /\ m \in Nat /\ m > 0
      /\ j + m = i /\ e + m = Len(o) + 1 /\ 0 \in 0..(m - 1) /\ j + 0 = j
      /\ j \in 1..Len(s) /\ e \in 1..Len(w) /\ e \in 1..Len(o) /\ e \in Nat \ {0}
      /\ Len(s) \in Nat
  BY <1>3, <1>4, <1>5
<1> HIDE DEF m
<1>7. ~Ascii(Reader!ByteAt(s, j)) BY <1>4, <1>6, Zenon
<1>8. NoSequence(s, j)
  <2> SUFFICES ASSUME NEW n, NEW p, Reader!SequenceForm(s, j, n, p) PROVE FALSE
    BY Zenon DEF NoSequence
  <2>1. /\ n \in 1..4 /\ (n = 1 => Ascii(Reader!ByteAt(s, j)))
        /\ n > 1 => \A k \in 0..(n - 1) : ~Ascii(Reader!ByteAt(s, j + k))
    BY <1>3, HighForm
  <2>2. n > 1 BY <1>7, <2>1
  <2>3. j + n > i BY <1>1
  <2>4. m \in 0..(n - 1) BY <1>6, <2>1, <2>3
  <2> QED BY <1>6, <2>1, <2>2, <2>4
<1>9. Reader!ByteAt(w, Len(o) + 1) = x[1] /\ Ascii(x[1])
  <2>1. 1 \in 1..Len(x) /\ Len(o) + 1 + 1 - 1 = Len(o) + 1 BY <1>6
  <2>2. Reader!ByteAt(w, Len(o) + 1 + 1 - 1) = x[1] BY <1>5, <2>1, HeldAt
  <2> QED BY <2>1, <2>2, Zenon DEF AllAscii
<1>10. Stuck(w, e)
  <2> SUFFICES ASSUME NEW t \in Seq(Byte), Begins(w, t),
                      NEW n, NEW p, Reader!SequenceForm(t, e, n, p)
               PROVE  FALSE
    BY Zenon DEF Stuck, NoSequence
  <2>1. \A k \in 1..Len(w) : Reader!ByteAt(w, k) = Reader!ByteAt(t, k)
    BY Zenon DEF Begins
  <2>2. \A k \in 0..(m - 1) : Reader!ByteAt(t, e + k) = Reader!ByteAt(s, j + k)
    <3> SUFFICES ASSUME NEW k \in 0..(m - 1)
                 PROVE  Reader!ByteAt(t, e + k) = Reader!ByteAt(s, j + k)
      OBVIOUS
    <3>1. e + k \in 1..Len(o) /\ e + k \in 1..Len(w) BY <1>3, <1>5, <1>6
    <3>2. Reader!ByteAt(s, j + k) = Reader!ByteAt(o, e + k)
      BY <1>4, Zenon DEF Same
    <3>3. Reader!ByteAt(o, e + k) = Reader!ByteAt(w, e + k)
      BY <1>5, <3>1, Zenon DEF Begins
    <3> QED BY <2>1, <3>1, <3>2, <3>3
  <2>3. /\ n \in 1..4 /\ (n = 1 => Ascii(Reader!ByteAt(t, e)))
        /\ n > 1 => \A k \in 0..(n - 1) : ~Ascii(Reader!ByteAt(t, e + k))
    BY <1>6, HighForm
  <2>4. ~Ascii(Reader!ByteAt(t, e))
    <3>1. e + 0 = e BY <1>6
    <3>2. Reader!ByteAt(t, e + 0) = Reader!ByteAt(s, j + 0)
      BY <1>6, <2>2, Zenon
    <3> QED BY <1>6, <1>7, <3>1, <3>2
  <2>5. n > 1 BY <2>3, <2>4
  <2>6. n <= m
    <3> SUFFICES ASSUME ~(n <= m) PROVE FALSE OBVIOUS
    <3>1. m \in 0..(n - 1) BY <1>6, <2>3
    <3>2. ~Ascii(Reader!ByteAt(t, e + m)) BY <2>3, <2>5, <3>1
    <3>3. Len(o) + 1 \in 1..Len(w) BY <1>5, <1>6
    <3>4. Reader!ByteAt(t, Len(o) + 1) = x[1] BY <1>9, <2>1, <3>3
    <3> QED BY <1>6, <1>9, <3>2, <3>4
  <2>7. Same(t, e, s, j, n)
    <3>1. ASSUME NEW k \in 0..(n - 1)
          PROVE  Reader!ByteAt(t, e + k) = Reader!ByteAt(s, j + k)
      <4>1. k \in 0..(m - 1) BY <1>6, <2>3, <2>6
      <4> QED BY <2>2, <4>1
    <3> QED BY <3>1, Zenon DEF Same
  <2>8. j + n - 1 <= Len(s) BY <1>6, <2>3, <2>6
  <2>9. Reader!SequenceForm(s, j, n, p) BY <1>3, <1>6, <2>7, <2>8, SequenceMoves
  <2> QED BY <1>8, <2>9, Zenon DEF NoSequence
<1>11. PICK d, f : Spells(s, j, d) /\ Spells(o, e, f) BY <1>2, Zenon DEF Agree
<1>12. Spells(w, e, f) BY <1>5, <1>11, SpellsAlike
<1>13. Dead(s, w) BY <1>6, <1>8, <1>10, <1>11, <1>12, Zenon DEF Dead
<1> QED BY <1>13 DEF w

(* So does the end of the string.                                          *)
LEMMA MiddleOver ==
  ASSUME NEW forced, NEW s \in Seq(Byte), NEW o \in Seq(Byte),
         NEW i, i = Len(s) + 1, Middle(forced, s, o, i)
  PROVE  ~IsUtf8(s) /\ ~IsUtf8(o)
<1>1. PICK j, e : /\ Copied(forced, s, o, i, j, e)
                  /\ \A n, p : Reader!SequenceForm(s, j, n, p) => j + n > i
  BY Zenon DEF Middle, Copied
<1> DEFINE m == i - j
<1>2. Agree(forced, s, o, j, e) BY <1>1, Zenon DEF Copied
<1>3. j \in Nat \ {0} /\ e \in 1..(Len(o) + 1) BY <1>2, Zenon DEF Agree
<1>4. j < i /\ m = Len(o) + 1 - e /\ Same(s, j, o, e, m)
  BY <1>1, Zenon DEF Copied
<1>5. /\ Len(o) \in Nat /\ Len(s) \in Nat /\ i \in Nat /\ m \in Nat
      /\ j + m = i /\ e + m = Len(o) + 1
      /\ j \in 1..Len(s) /\ e \in 1..Len(o) /\ e \in Nat \ {0}
  BY <1>3, <1>4
<1> HIDE DEF m
<1>6. NoSequence(s, j)
  <2> SUFFICES ASSUME NEW n, NEW p, Reader!SequenceForm(s, j, n, p) PROVE FALSE
    BY Zenon DEF NoSequence
  <2>1. n \in 1..4 /\ j + n - 1 <= Len(s) BY <1>3, HighForm
  <2>2. j + n > i BY <1>1
  <2> QED BY <1>5, <2>1, <2>2
<1>7. NoSequence(o, e)
  <2> SUFFICES ASSUME NEW n, NEW p, Reader!SequenceForm(o, e, n, p) PROVE FALSE
    BY Zenon DEF NoSequence
  <2>1. n \in 1..4 /\ e + n - 1 <= Len(o) BY <1>5, HighForm
  <2>2. Same(o, e, s, j, n)
    <3>1. ASSUME NEW k \in 0..(n - 1)
          PROVE  Reader!ByteAt(o, e + k) = Reader!ByteAt(s, j + k)
      <4>1. k \in 0..(m - 1) BY <1>5, <2>1
      <4> QED BY <1>4, <4>1 DEF Same
    <3> QED BY <3>1, Zenon DEF Same
  <2>3. j + n - 1 <= Len(s) BY <1>5, <2>1
  <2>4. Reader!SequenceForm(s, j, n, p) BY <1>3, <1>5, <2>2, <2>3, SequenceMoves
  <2> QED BY <1>6, <2>4, Zenon DEF NoSequence
<1>8. PICK d, f : Spells(s, j, d) /\ Spells(o, e, f) BY <1>2, Zenon DEF Agree
<1> QED BY <1>5, <1>6, <1>7, <1>8, PartSpelt

(* Where no sequence begins, what is copied is dead.                       *)
LEMMA LiveDies ==
  ASSUME NEW forced, NEW s \in Seq(Byte), NEW o \in Seq(Byte),
         NEW i \in 1..Len(s), Live(forced, s, o, i),
         NEW b \in Byte, b = Reader!ByteAt(s, i), NoLead(b)
  PROVE  Dead(s, o \o <<b>>)
<1> DEFINE x == <<b>>
           w == o \o x
           e == Len(o) + 1
<1>0. x \in Seq(Byte) /\ Len(x) = 1 /\ x[1] = b OBVIOUS
<1> HIDE DEF x
<1>1. w \in Seq(Byte) /\ Len(w) = Len(o) + 1 /\ Holds(w, e, x)
  BY <1>0, ConcatBegins, ZenonT(60)
<1>2. Agree(forced, s, w, i, e) BY <1>0, AgreeAlike DEF Live
<1>3. PICK d, f : Spells(s, i, d) /\ Spells(w, e, f) BY <1>2, Zenon DEF Agree
<1> HIDE DEF w
<1>4. /\ e \in 1..Len(w) /\ e \in Nat \ {0} /\ i \in Nat \ {0}
      /\ 1 \in 1..Len(x) /\ e + 1 - 1 = e
  BY <1>0, <1>1
<1>5. Reader!ByteAt(w, e) = b
  <2>1. Reader!ByteAt(w, e + 1 - 1) = x[1] BY <1>1, <1>4, HeldAt
  <2> QED BY <1>0, <1>4, <2>1
<1> HIDE DEF e
<1>6. NoSequence(s, i) BY <1>4, NoLeadNone
<1>7. Stuck(w, e)
  <2> SUFFICES ASSUME NEW t \in Seq(Byte), Begins(w, t) PROVE NoSequence(t, e)
    BY Zenon DEF Stuck
  <2>1. Reader!ByteAt(t, e) = b BY <1>4, <1>5, Zenon DEF Begins
  <2> QED BY <1>4, <2>1, NoLeadNone
<1>8. Dead(s, w) BY <1>3, <1>4, <1>6, <1>7, Zenon DEF Dead
<1> QED BY <1>8 DEF w, x

(***************************************************************************)
(* The sequences that the validating escaper takes are those of UTF-8.     *)
(***************************************************************************)
(* What is left of WellFormed when the length is known.                    *)
LEMMA WellFormedTwo ==
  ASSUME Length = 2
  PROVE  WellFormed <=> /\ ~Unterminated /\ Continues(io + 1) /\ Ucs >= 128
<1>1. 1..(Length - 1) = {1} /\ Least = 128 BY DEF Least
<1>2. ~TooLarge BY DEF TooLarge
<1>3. Length < 5 OBVIOUS
<1> QED BY <1>1, <1>2, <1>3, Zenon DEF WellFormed

(* Of a sequence of three bytes.                                           *)
LEMMA WellFormedThree ==
  ASSUME Length = 3
  PROVE  WellFormed <=> /\ ~Unterminated /\ Ucs >= Least
                        /\ Continues(io + 1) /\ Continues(io + 2)
<1>2. ~TooLarge BY DEF TooLarge
<1>3. Length < 5 OBVIOUS
<1>4. (\A i \in 1..(Length - 1) : Continues(io + i)) <=>
        Continues(io + 1) /\ Continues(io + 2)
  <2>1. \A i \in 1..(Length - 1) : i = 1 \/ i = 2 OBVIOUS
  <2>2. 1 \in 1..(Length - 1) /\ 2 \in 1..(Length - 1) OBVIOUS
  <2> QED BY <2>1, <2>2, Zenon
<1> QED BY <1>2, <1>3, <1>4, Zenon DEF WellFormed

(* Of four.                                                                *)
LEMMA WellFormedFour ==
  ASSUME Length = 4
  PROVE  WellFormed <=> /\ ~Unterminated /\ Ucs >= Least /\ ~TooLarge
                        /\ Continues(io + 1) /\ Continues(io + 2)
                        /\ Continues(io + 3)
<1>3. Length < 5 OBVIOUS
<1>4. (\A i \in 1..(Length - 1) : Continues(io + i)) <=>
        Continues(io + 1) /\ Continues(io + 2) /\ Continues(io + 3)
  <2>1. \A i \in 1..(Length - 1) : i = 1 \/ i = 2 \/ i = 3 OBVIOUS
  <2>2. /\ 1 \in 1..(Length - 1) /\ 2 \in 1..(Length - 1)
        /\ 3 \in 1..(Length - 1)
    OBVIOUS
  <2> QED BY <2>1, <2>2, Zenon
<1> QED BY <1>3, <1>4, Zenon DEF WellFormed

(* The first byte tells the length, or that there is none.                 *)
LEMMA LengthOf ==
  ASSUME Oct \in 192..253
  PROVE  /\ Length = 2 <=> Oct \in 192..223
         /\ Length = 3 <=> Oct \in 224..239
         /\ Length = 4 <=> Oct \in 240..247
         /\ Length \in 2..5
BY DEF Length

(* At gives the bytes of the string.                                       *)
LEMMA BytesSame ==
  ASSUME TypeOK, NEW k \in Nat
  PROVE  /\ At(io + k) = Reader!ByteAt(str, io + k)
         /\ At(io + k) \in 0..255 /\ (At(io + k) # 0 => io + k <= Len(str))
<1>1. str \in Seq(Byte) /\ io + k \in Nat \ {0} BY DEF TypeOK
<1>2. At(io + k) = Reader!ByteAt(str, io + k) BY DEF At, Reader!ByteAt
<1> HIDE DEF At
<1> QED BY <1>1, <1>2, ReaderHas, ReaderByte, Reader!ByteAtType

(* A continuation byte is not the null that ends the string.               *)
LEMMA Terminated ==
  ASSUME TypeOK, NEW k \in 1..3, Length = k + 1, Continues(io + k)
  PROVE  ~Unterminated
<1>1. At(io + k) # 0 => io + k <= Len(str) BY BytesSame
<1>2. io \in Nat /\ Len(str) \in Nat BY DEF TypeOK
<1>3. At(io + k) # 0 BY DEF Continues
<1>4. ~(Len(str) + 1 - io < k + 1) BY <1>1, <1>2, <1>3
<1> QED BY <1>4 DEF Unterminated

(* WellFormed is what a sequence of UTF-8 is: of two bytes.                *)
LEMMA TwoWellFormed ==
  ASSUME TypeOK, Length = 2, Oct \in 192..223
  PROVE  /\ WellFormed <=> Reader!IsTwo(Oct, At(io + 1))
         /\ Ucs = Reader!Two(Oct, At(io + 1))
<1>1. WellFormed <=> /\ ~Unterminated /\ Continues(io + 1) /\ Ucs >= 128
  BY WellFormedTwo
<1>2. Ucs = Reader!Two(Oct, At(io + 1)) BY DEF Ucs, Bits, Reader!Two
<1>3. Continues(io + 1) => ~Unterminated BY Terminated
<1> HIDE DEF Ucs
<1> QED BY <1>1, <1>2, <1>3, Zenon DEF Reader!IsTwo, Continues

(* Of three.                                                               *)
LEMMA ThreeWellFormed ==
  ASSUME TypeOK, Length = 3, Oct \in 224..239
  PROVE  /\ WellFormed <=> Reader!IsThree(Oct, At(io + 1), At(io + 2))
         /\ Ucs = Reader!Three(Oct, At(io + 1), At(io + 2))
<1>1. WellFormed <=> /\ ~Unterminated /\ Ucs >= 2048
                     /\ Continues(io + 1) /\ Continues(io + 2)
  <2>1. Least = 2048 BY DEF Least
  <2> QED BY <2>1, WellFormedThree, SMT
<1>2. Ucs = Reader!Three(Oct, At(io + 1), At(io + 2)) BY DEF Ucs, Bits, Reader!Three
<1>3. Continues(io + 2) => ~Unterminated BY Terminated
<1> HIDE DEF Ucs
<1>4. Reader!IsThree(Oct, At(io + 1), At(io + 2)) <=>
        Continues(io + 1) /\ Continues(io + 2) /\ Ucs >= 2048
  BY <1>2, SMT DEF Reader!IsThree, Continues
<1> QED BY <1>1, <1>2, <1>3, <1>4, SMT

(* Of four, which TooLarge keeps below the largest code point.             *)
LEMMA FourWellFormed ==
  ASSUME TypeOK, Length = 4, Oct \in 240..247
  PROVE  /\ WellFormed <=> Reader!IsFour(Oct, At(io + 1), At(io + 2), At(io + 3))
         /\ Ucs = Reader!Four(Oct, At(io + 1), At(io + 2), At(io + 3))
<1>1. WellFormed <=> /\ ~Unterminated /\ Ucs >= 65536 /\ ~TooLarge
                     /\ Continues(io + 1) /\ Continues(io + 2)
                     /\ Continues(io + 3)
  <2>1. Least = 65536 BY DEF Least
  <2> QED BY <2>1, WellFormedFour, SMT
<1>2. Ucs = Reader!Four(Oct, At(io + 1), At(io + 2), At(io + 3))
  BY DEF Ucs, Bits, Reader!Four
<1>3. Continues(io + 3) => ~Unterminated BY Terminated
<1>4. ASSUME Continues(io + 1), Continues(io + 2), Continues(io + 3)
      PROVE  ~TooLarge <=> /\ Oct <= 244
                           /\ Reader!Four(Oct, At(io + 1), At(io + 2), At(io + 3))
                                <= Reader!MaxPoint
  <2>1. TooLarge <=> Oct >= 245 \/ (Oct >= 244 /\ At(io + 1) >= 144)
    BY Zenon DEF TooLarge
  <2>2. /\ At(io + 1) \in 128..191 /\ At(io + 2) \in 128..191
        /\ At(io + 3) \in 128..191
    BY <1>4, Zenon DEF Continues
  <2>3. Oct \in 240..247 OBVIOUS
  <2> DEFINE a == Oct
             b == At(io + 1)
             c == At(io + 2)
             d == At(io + 3)
  <2>5. a \in 240..247 /\ b \in 128..191 /\ c \in 128..191 /\ d \in 128..191
    BY <2>2, <2>3
  <2> HIDE DEF a, b, c, d
  <2>6. a <= 244 /\ Reader!Four(a, b, c, d) <= Reader!MaxPoint
          <=> ~(a >= 245 \/ (a >= 244 /\ b >= 144))
    <3>1. a % 8 = a - 240 BY <2>5
    <3>2. b % 64 = b - 128 /\ c % 64 = c - 128 /\ d % 64 = d - 128 BY <2>5
    <3>3. Reader!Four(a, b, c, d) = (a - 240) * 262144 + (b - 128) * 4096
                                      + (c - 128) * 64 + (d - 128)
      BY <3>1, <3>2, SMT DEF Reader!Four
    <3> QED BY <2>5, <3>3, SMTT(60) DEF Reader!MaxPoint
  <2> QED BY <2>1, <2>6, Zenon DEF a, b, c, d
<1>5. Oct <= 244 <=> Oct \in 240..244 OBVIOUS
<1> HIDE DEF Ucs
<1>6. Reader!IsFour(Oct, At(io + 1), At(io + 2), At(io + 3)) <=>
        /\ Oct <= 244 /\ Ucs >= 65536 /\ Ucs <= Reader!MaxPoint
        /\ Continues(io + 1) /\ Continues(io + 2) /\ Continues(io + 3)
  BY <1>2, <1>5, SMT DEF Reader!IsFour, Continues
<1> QED BY <1>1, <1>2, <1>3, <1>4, <1>6, SMT
(* What the escaper takes is a sequence of UTF-8; where it refuses there   *)
(* is none.                                                                *)
LEMMA SequenceTaken ==
  ASSUME TypeOK, Oct \in 192..253
  PROVE  /\ WellFormed => Reader!SequenceForm(str, io, Length, Ucs)
         /\ ~WellFormed => NoSequence(str, io)
<1>0. io \in Nat \ {0} /\ io + 0 = io BY DEF TypeOK
<1>1. /\ Oct = Reader!ByteAt(str, io) /\ At(io + 1) = Reader!ByteAt(str, io + 1)
      /\ At(io + 2) = Reader!ByteAt(str, io + 2)
      /\ At(io + 3) = Reader!ByteAt(str, io + 3)
  <2>1. At(io + 0) = Reader!ByteAt(str, io + 0) BY BytesSame
  <2>2. Oct = Reader!ByteAt(str, io) BY <1>0, <2>1 DEF Oct
  <2> QED BY <2>2, BytesSame
<1>2. /\ WellFormed /\ Length = 2 => Reader!IsTwo(Oct, At(io + 1))
      /\ WellFormed /\ Length = 3 => Reader!IsThree(Oct, At(io + 1), At(io + 2))
      /\ WellFormed /\ Length = 4 =>
           Reader!IsFour(Oct, At(io + 1), At(io + 2), At(io + 3))
      /\ Length = 2 => Ucs = Reader!Two(Oct, At(io + 1))
      /\ Length = 3 => Ucs = Reader!Three(Oct, At(io + 1), At(io + 2))
      /\ Length = 4 => Ucs = Reader!Four(Oct, At(io + 1), At(io + 2), At(io + 3))
  BY LengthOf, TwoWellFormed, ThreeWellFormed, FourWellFormed
<1>3. /\ Reader!IsTwo(Oct, At(io + 1)) => Length = 2 /\ WellFormed
      /\ Reader!IsThree(Oct, At(io + 1), At(io + 2)) => Length = 3 /\ WellFormed
      /\ Reader!IsFour(Oct, At(io + 1), At(io + 2), At(io + 3)) =>
           Length = 4 /\ WellFormed
  <2>1. ASSUME Reader!IsTwo(Oct, At(io + 1)) PROVE Length = 2 /\ WellFormed
    <3>1. Oct \in 192..223 BY <2>1 DEF Reader!IsTwo
    <3>2. Length = 2 BY <3>1, LengthOf
    <3> QED BY <2>1, <3>1, <3>2, TwoWellFormed
  <2>2. ASSUME Reader!IsThree(Oct, At(io + 1), At(io + 2))
        PROVE Length = 3 /\ WellFormed
    <3>1. Oct \in 224..239 BY <2>2 DEF Reader!IsThree
    <3>2. Length = 3 BY <3>1, LengthOf
    <3> QED BY <2>2, <3>1, <3>2, ThreeWellFormed
  <2>3. ASSUME Reader!IsFour(Oct, At(io + 1), At(io + 2), At(io + 3))
        PROVE Length = 4 /\ WellFormed
    <3>1. Oct \in 240..247 BY <2>3 DEF Reader!IsFour
    <3>2. Length = 4 BY <3>1, LengthOf
    <3> QED BY <2>3, <3>1, <3>2, FourWellFormed
  <2> QED BY <2>1, <2>2, <2>3
<1>4. ASSUME WellFormed PROVE Reader!SequenceForm(str, io, Length, Ucs)
  <2>1. Length < 5 BY <1>4 DEF WellFormed
  <2>2. Length = 2 \/ Length = 3 \/ Length = 4 BY <2>1, LengthOf
  <2> QED BY <1>1, <1>2, <1>4, <2>2, Zenon DEF Reader!SequenceForm
<1>5. ASSUME ~WellFormed PROVE NoSequence(str, io)
  <2> SUFFICES ASSUME NEW n, NEW p, Reader!SequenceForm(str, io, n, p)
               PROVE  FALSE
    BY Zenon DEF NoSequence
  <2>1. ~(Oct < 128) OBVIOUS
  <2> QED BY <1>1, <1>3, <1>5, <2>1, Zenon DEF Reader!SequenceForm
<1> QED BY <1>4, <1>5

(***************************************************************************)
(* A pair of escapes.                                                      *)
(***************************************************************************)
LEMMA PairBytes ==
  ASSUME NEW p, Beyond(p)
  PROVE  /\ Pair(p) \in Seq(Byte) /\ Len(Pair(p)) = 12 /\ AllAscii(Pair(p))
         /\ Unicode(HighOf(p)) \in Seq(Byte) /\ Unicode(LowOf(p)) \in Seq(Byte)
<1> DEFINE h == Unicode(HighOf(p))
           l == Unicode(LowOf(p))
<1>1. /\ h \in Seq(Byte) /\ Len(h) = 6 /\ AllAscii(h)
      /\ l \in Seq(Byte) /\ Len(l) = 6 /\ AllAscii(l)
  BY PairOf, UnicodeBytes
<1>2. Pair(p) = h \o l BY DEF Pair
<1> HIDE DEF h, l
<1>3. h \o l \in Seq(Byte) /\ Len(h \o l) = 12
  <2>1. h \o l \in Seq(Byte) /\ Len(h \o l) = Len(h) + Len(l)
    BY <1>1, ConcatBegins
  <2> QED BY <1>1, <2>1
<1>4. ASSUME NEW k \in 1..Len(h \o l) PROVE Ascii((h \o l)[k])
  <2>1. CASE k <= 6
    <3>1. k \in 1..Len(h) /\ (h \o l)[k] = h[k] BY <1>1, <1>3, <2>1
    <3> QED BY <1>1, <3>1, Zenon DEF AllAscii
  <2>2. CASE k > 6
    <3>1. k - 6 \in 1..Len(l) /\ (h \o l)[k] = l[k - 6] BY <1>1, <1>3, <2>2
    <3> QED BY <1>1, <3>1, Zenon DEF AllAscii
  <2> QED BY <1>3, <2>1, <2>2
<1>5. AllAscii(h \o l) BY <1>4, Zenon DEF AllAscii
<1> QED BY <1>1, <1>2, <1>3, <1>5 DEF h, l

(* The pair is read as two characters, which join to the point.            *)
LEMMA ContinuedPair ==
  ASSUME NEW forced, NEW o \in Seq(Byte), NEW p, Beyond(p), forced
  PROVE  Continued(forced, o, Pair(p), p)
<1> DEFINE h == Unicode(HighOf(p))
           l == Unicode(LowOf(p))
           x == Pair(p)
           w == o \o h
           t == Opened(o \o x)
           a == Reader!Unit(HighOf(p))
           b == Reader!Unit(LowOf(p))
<1>1. /\ x \in Seq(Byte) /\ Len(x) = 12 /\ h \in Seq(Byte) /\ l \in Seq(Byte)
      /\ SixteenBits(HighOf(p)) /\ SixteenBits(LowOf(p))
  BY PairBytes, PairOf
<1>2. Len(h) = 6 /\ Len(l) = 6 BY <1>1, UnicodeBytes
<1>3. x = h \o l BY DEF Pair
<1>a. \A s, e : Holds(s, e, h) /\ e \in Nat \ {0} => Reader!CharacterForm(s, e, 6, a)
  BY <1>1, UnicodeCharacter
<1>b. \A s, e : Holds(s, e, l) /\ e \in Nat \ {0} => Reader!CharacterForm(s, e, 6, b)
  BY <1>1, UnicodeCharacter
<1>c. \A d \in Seq(Nat), chars \in Seq(Reader!CharacterType) :
        Matches(forced, d, chars) =>
          Matches(forced, Append(d, p), Append(Append(chars, a), b))
  <2>1. p \in Nat BY DEF Beyond
  <2> QED BY <2>1, MatchesPair
<1> HIDE DEF h, l, x, a, b
<1>4. o \o x = w \o l BY <1>1, <1>3, ConcatMoved
<1>5. w \in Seq(Byte) /\ Len(w) = Len(o) + 6 /\ Len(o) \in Nat
  <2>1. w \in Seq(Byte) /\ Len(w) = Len(o) + Len(h) BY <1>1, ConcatBegins
  <2> QED BY <1>2, <2>1
<1>6. t \in Seq(Byte) BY <1>1, OpenedMore
<1>7. Holds(Opened(w), Len(o) + 2, h) BY <1>1, OpenedMore
<1>8. Opened(w) \in Seq(Byte) /\ Begins(Opened(w), t) BY <1>1, <1>4, <1>5, OpenedMore
<1>9. Holds(t, Len(w) + 2, l)
  <2>1. Holds(Opened(w \o l), Len(w) + 2, l) BY <1>1, <1>5, OpenedMore
  <2> QED BY <1>4, <2>1
<1>10. Len(o) + 2 \in Nat \ {0} /\ Len(w) + 2 \in Nat \ {0} BY <1>5
<1>11. Reader!CharacterForm(Opened(w), Len(o) + 2, 6, a) BY <1>7, <1>10, <1>a
<1>12. Reader!CharacterForm(t, Len(w) + 2, 6, b) BY <1>9, <1>10, <1>b
<1>13. Reader!CharacterForm(t, Len(o) + 2, 6, a)
  <2>1. Len(Opened(w)) = Len(o) + 7 /\ Len(t) \in Nat
    <3>1. Len(Opened(w)) = Len(w) + 1 BY <1>5, OpenedMore
    <3> QED BY <1>5, <1>6, <3>1
  <2>2. Len(o) + 2 + 6 - 1 <= Len(Opened(w)) BY <1>5, <2>1
  <2>3. /\ Same(Opened(w), Len(o) + 2, t, Len(o) + 2, 6)
        /\ Len(o) + 2 + 6 - 1 <= Len(t)
    BY <1>8, <1>10, <2>1, <2>2, BeginsSame
  <2> HIDE DEF t, w
  <2> QED BY <1>8, <1>10, <1>11, <2>3, CharacterMoves
<1>14. Len(o) + 2 + 6 = Len(w) + 2 /\ Len(w) + 2 + 6 = Len(o \o x) + 2
  <2>1. Len(o \o x) = Len(o) + Len(x) BY <1>1, ConcatBegins
  <2> QED BY <1>1, <1>5, <2>1
<1> SUFFICES ASSUME NEW d \in Seq(Nat), NEW chars \in Seq(Reader!CharacterType),
                    Reads(t, Len(o) + 2, chars), Matches(forced, d, chars)
             PROVE  \E more : /\ Reads(t, Len(o \o x) + 2, more)
                              /\ Matches(forced, Append(d, p), more)
  BY Zenon DEF Continued, x
<1> HIDE DEF t, w
<1>15. Reads(t, Len(w) + 2, Append(chars, a))
  <2>1. Reads(t, Len(o) + 2 + 6, Append(chars, a)) BY <1>6, <1>10, <1>13, ReadsMore
  <2> QED BY <1>14, <2>1
<1>16. Reads(t, Len(o \o x) + 2, Append(Append(chars, a), b))
  <2>1. Reads(t, Len(w) + 2 + 6, Append(Append(chars, a), b))
    BY <1>6, <1>10, <1>12, <1>15, ReadsMore
  <2> QED BY <1>14, <2>1
<1>17. Matches(forced, Append(d, p), Append(Append(chars, a), b)) BY <1>c
<1> QED BY <1>16, <1>17, Zenon

(* A sequence whose point takes a pair is one of four bytes.               *)
LEMMA FormBeyond ==
  ASSUME NEW s \in Seq(Byte), NEW i \in Nat \ {0}, NEW n, NEW p,
         Reader!SequenceForm(s, i, n, p)
  PROVE  p >= 65536 => Beyond(p)
<1>0. p \in Nat BY HighForm
<1>1. \A k \in Nat \ {0} : Reader!ByteAt(s, k) \in 0..255
  BY ReaderHas, ReaderByte, Reader!ByteAtType
<1> DEFINE a == Reader!ByteAt(s, i)
           b == Reader!ByteAt(s, i + 1)
           c == Reader!ByteAt(s, i + 2)
           d == Reader!ByteAt(s, i + 3)
<1>2. \/ a < 128 /\ p = a
      \/ p = Reader!Two(a, b)
      \/ p = Reader!Three(a, b, c)
      \/ Reader!IsFour(a, b, c, d) /\ p = Reader!Four(a, b, c, d)
  BY Zenon DEF Reader!SequenceForm
<1>3. a \in 0..255 /\ b \in 0..255 /\ c \in 0..255 BY <1>1
<1> HIDE DEF a, b, c, d
<1>4. a < 65536 BY <1>3
<1>5. Reader!Two(a, b) < 65536
  <2> DEFINE u == a % 32
             v == b % 64
  <2>1. u \in 0..31 /\ v \in 0..63 BY <1>3
  <2>2. Reader!Two(a, b) = u * 64 + v BY DEF Reader!Two
  <2> HIDE DEF u, v
  <2> QED BY <2>1, <2>2, SMT
<1>6. Reader!Three(a, b, c) < 65536
  <2> DEFINE u == a % 16
             v == b % 64
             w == c % 64
  <2>1. u \in 0..15 /\ v \in 0..63 /\ w \in 0..63 BY <1>3
  <2>2. Reader!Three(a, b, c) = u * 4096 + v * 64 + w BY DEF Reader!Three
  <2> HIDE DEF u, v, w
  <2> QED BY <2>1, <2>2, SMT
<1>7. ASSUME p >= 65536 PROVE Beyond(p)
  <2>1. Reader!IsFour(a, b, c, d) /\ p = Reader!Four(a, b, c, d)
    <3>1. p # a BY <1>0, <1>3, <1>4, <1>7
    <3>2. p # Reader!Two(a, b) BY <1>0, <1>5, <1>7
    <3>3. p # Reader!Three(a, b, c) BY <1>0, <1>6, <1>7
    <3> QED BY <1>2, <3>1, <3>2, <3>3, Zenon
  <2>2. p <= Reader!MaxPoint BY <2>1, SMT DEF Reader!IsFour
  <2> QED BY <1>0, <1>7, <2>2, SMT DEF Beyond
<1> QED BY <1>7

(***************************************************************************)
(* What holds of the string and the output after every character.          *)
(***************************************************************************)
Standing(forced, s, o, i) ==
  Live(forced, s, o, i) \/ Middle(forced, s, o, i) \/ Dead(s, o)

(* At the start they agree.                                                *)
LEMMA StandsFirst ==
  ASSUME NEW forced, NEW s PROVE Standing(forced, s, <<>>, 1)
<1> DEFINE o == <<>>
<1>1. /\ Spells(s, 1, <<>>) /\ Spells(o, 1, <<>>) /\ Reads(Opened(o), 2, <<>>)
      /\ Matches(forced, <<>>, <<>>)
  BY NothingSpelt, MatchesNone
<1>2. Len(o) + 1 = 1 /\ 1 + 1 = 2 /\ 1 \in Nat \ {0} /\ 1 \in 1..(Len(o) + 1)
      /\ 1..(1 - 1) = {}
  OBVIOUS
<1> HIDE DEF o
<1>3. Agree(forced, s, o, 1, 1) BY <1>1, <1>2, Zenon DEF Agree
<1>4. Live(forced, s, o, 1) BY <1>2, <1>3, Zenon DEF Live
<1> QED BY <1>4, Zenon DEF Standing, o

(* A byte below 128, however it is written.                                *)
LEMMA StandsAscii ==
  ASSUME NEW forced, NEW s \in Seq(Byte), NEW o \in Seq(Byte),
         NEW i \in 1..Len(s), Standing(forced, s, o, i),
         NEW b, b = Reader!ByteAt(s, i), Ascii(b),
         NEW x \in Seq(Byte), Len(x) > 0, AllAscii(x), Continued(forced, o, x, b)
  PROVE  Standing(forced, s, o \o x, i + 1)
<1>1. CASE Live(forced, s, o, i)
  <2>1. Reader!SequenceForm(s, i, 1, b)
    <3>1. i <= Len(s) /\ Reader!ByteAt(s, i) < 128 BY DEF Ascii
    <3> QED BY <3>1, AsciiForm
  <2>2. Live(forced, s, o \o x, i + 1) BY <1>1, <2>1, LiveMore, ZenonT(60)
  <2> QED BY <2>2, Zenon DEF Standing
<1>2. CASE Middle(forced, s, o, i)
  <2>1. Dead(s, o \o x) BY <1>2, MiddleEnds, ZenonT(60)
  <2> QED BY <2>1, Zenon DEF Standing
<1>3. CASE Dead(s, o)
  <2>1. Dead(s, o \o x) BY <1>3, DeadStays, Zenon
  <2> QED BY <2>1, Zenon DEF Standing
<1> QED BY <1>1, <1>2, <1>3, Zenon DEF Standing

(* A byte of 128 or more that is copied, as all are without ensure_ascii.  *)
LEMMA StandsCopied ==
  ASSUME NEW forced, NEW s \in Seq(Byte), NEW o \in Seq(Byte),
         NEW i \in 1..Len(s), Standing(forced, s, o, i),
         NEW b \in Byte, b = Reader!ByteAt(s, i), ~Ascii(b),
         forced => NoLead(b)
  PROVE  Standing(forced, s, o \o <<b>>, i + 1)
<1>1. CASE Live(forced, s, o, i) /\ ~forced
  <2>1. Middle(forced, s, o \o <<b>>, i + 1) BY <1>1, LiveCopies, ZenonT(60)
  <2> QED BY <2>1, Zenon DEF Standing
<1>2. CASE Live(forced, s, o, i) /\ forced
  <2>1. Dead(s, o \o <<b>>) BY <1>2, LiveDies, ZenonT(60)
  <2> QED BY <2>1, Zenon DEF Standing
<1>3. CASE Middle(forced, s, o, i)
  <2>1. Live(forced, s, o \o <<b>>, i + 1) \/ Middle(forced, s, o \o <<b>>, i + 1)
    BY <1>3, MiddleCopies, ZenonT(60)
  <2> QED BY <2>1, Zenon DEF Standing
<1>4. CASE Dead(s, o)
  <2>1. <<b>> \in Seq(Byte) OBVIOUS
  <2>2. Dead(s, o \o <<b>>) BY <1>4, <2>1, DeadStays, Zenon
  <2> QED BY <2>2, Zenon DEF Standing
<1> QED BY <1>1, <1>2, <1>3, <1>4, Zenon DEF Standing

(* A sequence, which ensure_ascii escapes.                                 *)
LEMMA StandsSequence ==
  ASSUME NEW forced, forced, NEW s \in Seq(Byte), NEW o \in Seq(Byte),
         NEW i, Standing(forced, s, o, i),
         NEW n, NEW p, Reader!SequenceForm(s, i, n, p),
         NEW x \in Seq(Byte), AllAscii(x), Continued(forced, o, x, p)
  PROVE  Standing(forced, s, o \o x, i + n)
<1>1. CASE Live(forced, s, o, i)
  <2>2. Live(forced, s, o \o x, i + n) BY <1>1, LiveMore, ZenonT(60)
  <2> QED BY <2>2, Zenon DEF Standing
<1>2. ~Middle(forced, s, o, i) BY Zenon DEF Middle
<1>3. CASE Dead(s, o)
  <2>1. Dead(s, o \o x) BY <1>3, DeadStays, Zenon
  <2> QED BY <2>1, Zenon DEF Standing
<1> QED BY <1>1, <1>2, <1>3, Zenon DEF Standing

(* One it refuses.                                                         *)
LEMMA StandsRefused ==
  ASSUME NEW forced, forced, NEW s \in Seq(Byte), NEW o \in Seq(Byte),
         NEW i \in 1..Len(s), Standing(forced, s, o, i), NoSequence(s, i)
  PROVE  ~IsUtf8(s)
<1>1. CASE Live(forced, s, o, i)
  <2>1. PICK d : Spells(s, i, d) BY <1>1, Zenon DEF Live, Agree
  <2> QED BY <2>1, PartSpelt, Zenon
<1>2. ~Middle(forced, s, o, i) BY Zenon DEF Middle
<1>3. CASE Dead(s, o) BY <1>3, DeadMeans
<1> QED BY <1>1, <1>2, <1>3, Zenon DEF Standing

(* At the end of the string.                                               *)
Whole(forced, s, o) ==
  /\ IsUtf8(s) /\ IsUtf8(o)
  /\ \E chars : /\ Reads(Opened(o), Len(o) + 2, chars)
                /\ Matches(forced, Decoded(s), chars)
  /\ forced => \A k \in 1..Len(o) : Ascii(o[k])

(* There what is being copied is over, and no UTF-8.                       *)
LEMMA StandsAtEnd ==
  ASSUME NEW forced, NEW s \in Seq(Byte), NEW o \in Seq(Byte),
         NEW i, i = Len(s) + 1, Standing(forced, s, o, i)
  PROVE  Whole(forced, s, o) \/ (~IsUtf8(s) /\ ~IsUtf8(o))
<1>0. Len(o) \in Nat OBVIOUS
<1>1. CASE Live(forced, s, o, i)
  <2>1. Agree(forced, s, o, i, Len(o) + 1) BY <1>1, Zenon DEF Live
  <2>2. PICK d, f, chars :
          /\ Spells(s, i, d) /\ Spells(o, Len(o) + 1, f)
          /\ Reads(Opened(o), Len(o) + 1 + 1, chars) /\ Matches(forced, d, chars)
    BY <2>1, Zenon DEF Agree
  <2>3. Decoded(s) = d /\ IsUtf8(s) BY <2>2, WholeSpelt
  <2>4. IsUtf8(o) BY <2>2, WholeSpelt
  <2>5. Len(o) + 1 + 1 = Len(o) + 2 /\ 1..(Len(o) + 1 - 1) = 1..Len(o) BY <1>0
  <2>6. Reads(Opened(o), Len(o) + 2, chars) BY <2>2, <2>5
  <2>8. forced => \A k \in 1..(Len(o) + 1 - 1) : Ascii(Reader!ByteAt(o, k))
    <3> DEFINE e == Len(o) + 1
    <3>1. Agree(forced, s, o, i, e) BY <2>1
    <3> HIDE DEF e
    <3>2. forced => \A k \in 1..(e - 1) : Ascii(Reader!ByteAt(o, k))
      BY <3>1, Zenon DEF Agree
    <3> QED BY <3>2 DEF e
  <2>7. ASSUME forced, NEW k \in 1..Len(o) PROVE Ascii(o[k])
    <3>1. Ascii(Reader!ByteAt(o, k)) BY <2>5, <2>7, <2>8
    <3>2. Reader!ByteAt(o, k) = o[k] BY DEF Reader!ByteAt
    <3> QED BY <3>1, <3>2
  <2> QED BY <2>2, <2>3, <2>4, <2>6, <2>7, Zenon DEF Whole
<1>2. CASE Middle(forced, s, o, i) BY <1>2, MiddleOver, Zenon
<1>3. CASE Dead(s, o) BY <1>3, DeadMeans, Zenon
<1> QED BY <1>1, <1>2, <1>3, Zenon DEF Standing

(***************************************************************************)
(* The escaper, step by step.                                              *)
(***************************************************************************)
forced == enc.forceASCII

RInv ==
  /\ IInv /\ of \in Seq(Byte)
  /\ pc \in {"escape", "done"} => Standing(forced, str, of, io)
  /\ pc = "done" => AtEnd
  /\ pc = "refused" => ~IsUtf8(str)

(* It holds at the start.                                                  *)
LEMMA InitRInv == Init => RInv
<1> SUFFICES ASSUME Init PROVE RInv OBVIOUS
<1>1. IInv BY InitIInv
<1>2. of = <<>> /\ io = 1 /\ pc = "escape" BY DEF Init, Fresh
<1>3. of \in Seq(Byte) BY <1>2
<1>4. Standing(forced, str, of, io) BY <1>2, StandsFirst
<1> QED BY <1>1, <1>2, <1>3, <1>4 DEF RInv

(* Any step that writes.                                                   *)
LEMMA WriteStands ==
  ASSUME RInv, IInv', pc = "escape", NEW x \in Seq(Byte), NEW n,
         Write(x, n), Standing(forced, str, of \o x, io + n)
  PROVE  RInv'
<1>1. of' = of \o x /\ io' = io + n /\ UNCHANGED <<str, enc, pc>> BY DEF Write
<1>2. of \in Seq(Byte) BY DEF RInv
<1>3. of' \in Seq(Byte) BY <1>1, <1>2
<1>4. forced' = forced BY <1>1 DEF forced
<1>5. Standing(forced', str', of', io') BY <1>1, <1>4
<1>6. pc' = "escape" BY <1>1
<1>7. (Standing(forced, str, of, io))' BY <1>5
<1> QED BY <1>3, <1>6, <1>7 DEF RInv

(* What is known before a byte is read.                                    *)
LEMMA Looking ==
  ASSUME RInv, pc = "escape", ~AtEnd
  PROVE  /\ TypeOK /\ str \in Seq(Byte) /\ of \in Seq(Byte) /\ io \in 1..Len(str)
         /\ Oct \in Byte /\ Oct = Reader!ByteAt(str, io)
         /\ Standing(forced, str, of, io) /\ forced \in BOOLEAN
<1>1. TypeOK /\ of \in Seq(Byte) /\ Standing(forced, str, of, io)
  BY DEF RInv, IInv
<1>2. Oct \in Byte /\ io \in 1..Len(str) BY <1>1, OctInString
<1>3. Oct = Reader!ByteAt(str, io) BY <1>2 DEF Oct, At, Reader!ByteAt
<1>4. forced \in BOOLEAN /\ str \in Seq(Byte)
  BY <1>1 DEF TypeOK, Option, forced
<1> QED BY <1>1, <1>2, <1>3, <1>4

(* A letter escape keeps it.                                               *)
LEMMA LetterStep == ASSUME RInv, IInv', EscapeLetter PROVE RInv'
<1> DEFINE x == <<92, Letter(Oct)>>
<1>1. pc = "escape" /\ ~AtEnd /\ Oct \in Lettered /\ Write(x, 1)
  BY DEF EscapeLetter
<1>2. /\ str \in Seq(Byte) /\ of \in Seq(Byte) /\ io \in 1..Len(str)
      /\ Oct = Reader!ByteAt(str, io) /\ Standing(forced, str, of, io)
  BY <1>1, Looking
<1>3. Oct \in {8, 9, 10, 12, 13, 34, 47, 92} BY <1>1 DEF Lettered, Slash
<1>4. Ascii(Oct) BY <1>3 DEF Ascii
<1>5. x \in Seq(Byte) /\ Len(x) = 2 /\ AllAscii(x) BY <1>3, LetterBytes
<1>6. Continued(forced, of, x, Oct) BY <1>2, <1>3, ContinuedLetter
<1> HIDE DEF x
<1>7. Len(x) > 0 BY <1>5
<1>8. Standing(forced, str, of \o x, io + 1)
  BY <1>2, <1>4, <1>5, <1>6, <1>7, StandsAscii, ZenonT(60)
<1> QED BY <1>1, <1>5, <1>8, WriteStands

(* So does an escape of a byte.                                            *)
LEMMA CodeStep == ASSUME RInv, IInv', EscapeCode PROVE RInv'
<1> DEFINE x == Unicode(Oct)
<1>1. pc = "escape" /\ ~AtEnd /\ Oct \in Coded /\ Write(x, 1)
  BY DEF EscapeCode
<1>2. /\ str \in Seq(Byte) /\ of \in Seq(Byte) /\ io \in 1..Len(str)
      /\ Oct = Reader!ByteAt(str, io) /\ Standing(forced, str, of, io)
  BY <1>1, Looking
<1>3. Oct \in 0..127 BY <1>1 DEF Coded, Control, Html
<1>4. Ascii(Oct) BY <1>3 DEF Ascii
<1>5. ~Surrogate(Oct) /\ SixteenBits(Oct) BY <1>3, LowBytes
<1>6. x \in Seq(Byte) /\ Len(x) = 6 /\ AllAscii(x) BY <1>5, UnicodeBytes
<1>7. Continued(forced, of, x, Oct) BY <1>2, <1>5, ContinuedUnit
<1> HIDE DEF x
<1>8. Len(x) > 0 BY <1>6
<1>9. Standing(forced, str, of \o x, io + 1)
  BY <1>2, <1>4, <1>6, <1>7, <1>8, StandsAscii, ZenonT(60)
<1> QED BY <1>1, <1>6, <1>9, WriteStands

(* A copied byte.                                                          *)
LEMMA CopyStep == ASSUME RInv, IInv', CopyByte PROVE RInv'
<1> DEFINE x == <<Oct>>
<1>1. /\ pc = "escape" /\ ~AtEnd /\ Write(x, 1)
      /\ Oct \notin Lettered \cup Coded \cup SequenceLead
  BY DEF CopyByte
<1>2. /\ str \in Seq(Byte) /\ of \in Seq(Byte) /\ io \in 1..Len(str)
      /\ Oct = Reader!ByteAt(str, io) /\ Standing(forced, str, of, io)
      /\ Oct \in Byte /\ forced \in BOOLEAN
  BY <1>1, Looking
<1>3. x \in Seq(Byte) /\ Len(x) = 1 /\ x[1] = Oct BY <1>2
<1>4. CASE Oct \in 0..127
  <2>1. Ascii(Oct) BY <1>4 DEF Ascii
  <2>2. Oct \notin {0, 34, 92} BY <1>1 DEF Lettered, Coded, Control
  <2>3. Continued(forced, of, x, Oct) BY <1>2, <1>4, <2>2, ContinuedByte
  <2> HIDE DEF x
  <2>4. Len(x) > 0 BY <1>3
  <2>5. AllAscii(x)
    <3>1. \A k \in 1..Len(x) : k = 1 BY <1>3
    <3> QED BY <1>3, <2>1, <3>1, Zenon DEF AllAscii
  <2>6. Standing(forced, str, of \o x, io + 1)
    BY <1>2, <1>3, <2>1, <2>3, <2>4, <2>5, StandsAscii, ZenonT(60)
  <2> QED BY <1>1, <1>3, <2>6, WriteStands
<1>5. CASE Oct \notin 0..127
  <2>0. Oct \in 128..255
    <3>1. Oct \in 0..255 BY <1>2, Zenon DEF Byte
    <3> QED BY <1>5, <3>1
  <2>1. ~Ascii(Oct) BY <2>0 DEF Ascii
  <2>2. ASSUME forced PROVE NoLead(Oct)
    <3>1. Oct \notin 192..253 BY <1>1, <2>2 DEF SequenceLead, forced
    <3> QED BY <1>2, <1>5, <3>1 DEF NoLead, Byte
  <2>3. Standing(forced, str, of \o x, io + 1)
    BY <1>2, <2>1, <2>2, StandsCopied, ZenonT(60)
  <2> HIDE DEF x
  <2> QED BY <1>1, <1>3, <2>3, WriteStands
<1> QED BY <1>4, <1>5

(* A sequence, which takes one escape or two.                              *)
LEMMA SequenceStep == ASSUME RInv, IInv', EscapeSequence PROVE RInv'
<1> DEFINE x == IF Ucs >= 65536 THEN Pair(Ucs) ELSE Unicode(Ucs)
           n == Length
           p == Ucs
<1>1. /\ pc = "escape" /\ ~AtEnd /\ Oct \in SequenceLead /\ WellFormed
      /\ Write(x, n)
  BY DEF EscapeSequence
<1>2. /\ str \in Seq(Byte) /\ of \in Seq(Byte) /\ io \in 1..Len(str)
      /\ Standing(forced, str, of, io) /\ TypeOK
  BY <1>1, Looking
<1>3. forced /\ Oct \in 192..253 BY <1>1 DEF SequenceLead, forced
<1>4. Reader!SequenceForm(str, io, n, p) BY <1>1, <1>2, <1>3, SequenceTaken
<1>5. x \in Seq(Byte) /\ AllAscii(x) /\ Continued(forced, of, x, p)
  <2>0. io \in Nat \ {0} BY <1>2
  <2>1. CASE p >= 65536
    <3>1. Beyond(p) BY <1>2, <1>4, <2>0, <2>1, FormBeyond
    <3>2. x = Pair(p) BY <2>1
    <3> HIDE DEF x, p
    <3> QED BY <1>2, <1>3, <3>1, <3>2, PairBytes, ContinuedPair
  <2>2. CASE ~(p >= 65536)
    <3>1. p \in Nat BY <1>2, <1>4, <2>0, HighForm
    <3>2. SixteenBits(p) BY <2>2, <3>1 DEF SixteenBits
    <3>3. x = Unicode(p) BY <2>2
    <3> HIDE DEF x, p
    <3> QED BY <1>2, <1>3, <3>2, <3>3, UnicodeBytes, ContinuedUnit
  <2> QED BY <2>1, <2>2
<1> HIDE DEF x, n, p
<1>6. Standing(forced, str, of \o x, io + n)
  BY <1>2, <1>3, <1>4, <1>5, StandsSequence, ZenonT(60)
<1> QED BY <1>1, <1>5, <1>6, WriteStands

(* What is refused is no UTF-8.                                            *)
LEMMA RefuseStep == ASSUME RInv, IInv', RefuseSequence PROVE RInv'
<1>1. /\ pc = "escape" /\ ~AtEnd /\ Oct \in SequenceLead /\ ~WellFormed
      /\ pc' = "refused" /\ UNCHANGED <<str, enc, io, of>>
  BY DEF RefuseSequence
<1>2. /\ str \in Seq(Byte) /\ of \in Seq(Byte) /\ io \in 1..Len(str)
      /\ Standing(forced, str, of, io) /\ TypeOK
  BY <1>1, Looking
<1>3. forced /\ Oct \in 192..253 BY <1>1 DEF SequenceLead, forced
<1>4. NoSequence(str, io) BY <1>1, <1>2, <1>3, SequenceTaken
<1>5. ~IsUtf8(str) BY <1>2, <1>3, <1>4, StandsRefused
<1>6. ~IsUtf8(str') /\ of' \in Seq(Byte) BY <1>1, <1>2, <1>5
<1> QED BY <1>1, <1>6 DEF RInv

(* Every step of the escaper keeps it.                                     *)
LEMMA StepRInv == RInv /\ [Next]_vars => RInv'
<1> SUFFICES ASSUME RInv, [Next]_vars PROVE RInv' OBVIOUS
<1>0. IInv' BY StepIInv DEF RInv
<1>1. CASE EndOfString
  <2>1. pc = "escape" /\ AtEnd /\ pc' = "done" /\ UNCHANGED <<str, enc, io, of>>
    BY <1>1 DEF EndOfString
  <2>2. AtEnd' BY <2>1 DEF AtEnd
  <2>3. of' \in Seq(Byte) /\ Standing(forced, str, of, io)
    BY <2>1 DEF RInv
  <2>4. (Standing(forced, str, of, io))'
    <3>1. forced' = forced BY <2>1 DEF forced
    <3>2. Standing(forced', str', of', io') BY <2>1, <2>3, <3>1
    <3> QED BY <3>2
  <2> QED BY <1>0, <2>1, <2>2, <2>3, <2>4 DEF RInv
<1>2. CASE EscapeLetter BY <1>0, <1>2, LetterStep
<1>3. CASE EscapeCode BY <1>0, <1>3, CodeStep
<1>4. CASE CopyByte BY <1>0, <1>4, CopyStep
<1>5. CASE EscapeSequence BY <1>0, <1>5, SequenceStep
<1>6. CASE RefuseSequence BY <1>0, <1>6, RefuseStep
<1>7. CASE UNCHANGED vars
  <2>1. UNCHANGED <<str, enc, io, of, pc>> BY <1>7 DEF vars
  <2>2. forced' = forced /\ AtEnd' = AtEnd BY <2>1 DEF forced, AtEnd
  <2>3. pc' \in {"escape", "done"} => Standing(forced', str', of', io')
    BY <2>1, <2>2 DEF RInv
  <2>4. (pc \in {"escape", "done"} => Standing(forced, str, of, io))' BY <2>3
  <2>5. /\ of' \in Seq(Byte) /\ (pc' = "done" => AtEnd')
        /\ (pc' = "refused" => ~IsUtf8(str'))
    BY <2>1, <2>2 DEF RInv
  <2> QED BY <1>0, <2>4, <2>5 DEF RInv
<1> QED
  BY <1>1, <1>2, <1>3, <1>4, <1>5, <1>6, <1>7 DEF Next, Stopped

(***************************************************************************)
(* The scanner of the round trip is the one the lemmas are about.          *)
(***************************************************************************)
LEMMA SameNext == Scanner!Next => Reader!Next
<1> USE DEF Scanner!input, Reader!input, Scanner!locals, Reader!locals,
            Scanner!Oct, Reader!Oct, Scanner!At, Reader!At,
            Scanner!Room, Reader!Room,
            Scanner!Write, Reader!Write, Scanner!Refuse, Reader!Refuse
<1>1. Scanner!BeginString => Reader!BeginString
  BY DEF Scanner!BeginString, Reader!BeginString, Scanner!BeginAt, Reader!BeginAt,
         Scanner!TooSmall, Reader!TooSmall, Scanner!Remaining, Reader!Remaining,
         Scanner!Scan, Reader!Scan, Scanner!Quote, Reader!Quote
<1>2. Scanner!BeginReserve => Reader!BeginReserve
  BY DEF Scanner!BeginReserve, Reader!BeginReserve, Scanner!BeginAt, Reader!BeginAt,
         Scanner!TooSmall, Reader!TooSmall, Scanner!Remaining, Reader!Remaining,
         Scanner!Scan, Reader!Scan, Scanner!Quote, Reader!Quote,
         Scanner!Reserve, Reader!Reserve
<1>3. Scanner!BeginNoMemory => Reader!BeginNoMemory
  BY DEF Scanner!BeginNoMemory, Reader!BeginNoMemory, Scanner!BeginAt,
         Reader!BeginAt, Scanner!TooSmall, Reader!TooSmall, Scanner!Remaining,
         Reader!Remaining, Scanner!Quote, Reader!Quote
<1>20. Scanner!BeginBehind => Reader!BeginBehind
  BY DEF Scanner!BeginBehind, Reader!BeginBehind, Scanner!BeginAt,
         Reader!BeginAt, Scanner!Quote, Reader!Quote
<1>4. Scanner!LiteralByte => Reader!LiteralByte
  BY DEF Scanner!LiteralByte, Reader!LiteralByte, Scanner!Literal, Reader!Literal,
         Scanner!Quote, Reader!Quote, Scanner!Backslash, Reader!Backslash
<1>5. Scanner!LeadByte => Reader!LeadByte
  BY DEF Scanner!LeadByte, Reader!LeadByte, Scanner!Lead, Reader!Lead,
         Scanner!LeadBits, Reader!LeadBits
<1>6. Scanner!EscapeByte => Reader!EscapeByte
  BY DEF Scanner!EscapeByte, Reader!EscapeByte, Scanner!Backslash, Reader!Backslash
<1>7. Scanner!EndString => Reader!EndString
  BY DEF Scanner!EndString, Reader!EndString, Scanner!Quote, Reader!Quote
<1>8. Scanner!BadByte => Reader!BadByte
  BY DEF Scanner!BadByte, Reader!BadByte, Scanner!Continuation, Reader!Continuation
<1>a. /\ Scanner!Continuation = Reader!Continuation
      /\ Scanner!Bits = Reader!Bits
  BY DEF Scanner!Continuation, Reader!Continuation, Scanner!Bits, Reader!Bits
<1>b. \A n : Scanner!Least(n) = Reader!Least(n)
  BY DEF Scanner!Least, Reader!Least
<1>c. \A c : Scanner!InRange(c) <=> Reader!InRange(c)
  <2>1. Scanner!MaxCodePoint = Reader!MaxCodePoint
    BY DEF Scanner!MaxCodePoint, Reader!MaxCodePoint
  <2> QED BY <1>b, <2>1, Zenon DEF Scanner!InRange, Reader!InRange
<1>9. Scanner!ContinuationByte => Reader!ContinuationByte
  BY <1>a, Zenon DEF Scanner!ContinuationByte, Reader!ContinuationByte
<1>10. Scanner!LastContinuationByte => Reader!LastContinuationByte
  BY <1>a, <1>c, Zenon
     DEF Scanner!LastContinuationByte, Reader!LastContinuationByte
<1>11. Scanner!BadContinuation => Reader!BadContinuation
  BY <1>a, <1>c, Zenon DEF Scanner!BadContinuation, Reader!BadContinuation
<1>12. Scanner!EscapedLetter => Reader!EscapedLetter
  BY DEF Scanner!EscapedLetter, Reader!EscapedLetter, Scanner!EscapeLetter,
         Reader!EscapeLetter, Scanner!Escaped, Reader!Escaped
<1>13. Scanner!BeginUnicode => Reader!BeginUnicode
  BY DEF Scanner!BeginUnicode, Reader!BeginUnicode, Scanner!LetterU, Reader!LetterU
<1>14. Scanner!BadEscape => Reader!BadEscape
  BY DEF Scanner!BadEscape, Reader!BadEscape, Scanner!LetterU, Reader!LetterU,
         Scanner!EscapeLetter, Reader!EscapeLetter
<1>d. Scanner!HexDigit = Reader!HexDigit
  BY DEF Scanner!HexDigit, Reader!HexDigit, Scanner!Digit, Reader!Digit,
         Scanner!LowerHex, Reader!LowerHex, Scanner!UpperHex, Reader!UpperHex
<1>e. Scanner!Shifted = Reader!Shifted
  <2>1. \A c : Scanner!HexValue(c) = Reader!HexValue(c)
    BY DEF Scanner!HexValue, Reader!HexValue, Scanner!Digit, Reader!Digit,
           Scanner!LowerHex, Reader!LowerHex
  <2>2. Scanner!MaxUnit = Reader!MaxUnit
    BY DEF Scanner!MaxUnit, Reader!MaxUnit
  <2> QED BY <2>1, <2>2, Zenon DEF Scanner!Shifted, Reader!Shifted
<1>h. \A u : Scanner!JoinsLast(u) <=> Reader!JoinsLast(u)
  <2>1. Scanner!LowSurrogate = Reader!LowSurrogate
    BY DEF Scanner!LowSurrogate, Reader!LowSurrogate
  <2>2. Scanner!FollowsHigh <=> Reader!FollowsHigh
    BY Zenon DEF Scanner!FollowsHigh, Reader!FollowsHigh
  <2> QED BY <2>1, <2>2 DEF Scanner!JoinsLast, Reader!JoinsLast
<1>f. \A u : Scanner!WriteUnit(u) <=> Reader!WriteUnit(u)
  <2>3. Scanner!LastUnit = Reader!LastUnit
    BY Zenon DEF Scanner!LastUnit, Reader!LastUnit
  <2>2. \A u : Scanner!Joined(u) = Reader!Joined(u)
    BY <2>3 DEF Scanner!Joined, Reader!Joined
  <2>5. \A c : Scanner!Write(c) <=> Reader!Write(c) OBVIOUS
  <2> QED
    BY <1>h, <2>2, <2>5 DEF Scanner!WriteUnit, Reader!WriteUnit
<1>g. Scanner!HighSurrogate = Reader!HighSurrogate
  BY DEF Scanner!HighSurrogate, Reader!HighSurrogate
<1>15. Scanner!UnicodeDigit => Reader!UnicodeDigit
  BY <1>d, <1>e, Zenon DEF Scanner!UnicodeDigit, Reader!UnicodeDigit
<1>16. Scanner!LastUnicodeDigit => Reader!LastUnicodeDigit
  BY <1>d, <1>e, <1>f, <1>g, Zenon
     DEF Scanner!LastUnicodeDigit, Reader!LastUnicodeDigit
<1>17. Scanner!BadDigit => Reader!BadDigit
  BY <1>d, Zenon DEF Scanner!BadDigit, Reader!BadDigit
<1>21. Scanner!Overflow => Reader!Overflow
  <2>1. /\ Scanner!Literal = Reader!Literal
        /\ Scanner!EscapeLetter = Reader!EscapeLetter
    BY DEF Scanner!Literal, Reader!Literal, Scanner!Quote, Reader!Quote,
           Scanner!Backslash, Reader!Backslash, Scanner!EscapeLetter,
           Reader!EscapeLetter
  <2>2. Scanner!Writes => Reader!Writes
    BY <1>a, <1>c, <1>d, <1>e, <1>h, <2>1, Zenon
       DEF Scanner!Writes, Reader!Writes
  <2> QED BY <2>2 DEF Scanner!Overflow, Reader!Overflow
<1>18. Scanner!Finish => Reader!Finish
  BY DEF Scanner!Finish, Reader!Finish, Scanner!Freed, Reader!Freed
<1>19. Scanner!Stopped => Reader!Stopped
  BY DEF Scanner!Stopped, Reader!Stopped, Scanner!vars, Reader!vars
<1> QED BY <1>1, <1>2, <1>3, <1>4, <1>5, <1>6, <1>7, <1>8, <1>9, <1>10, <1>11,
           <1>12, <1>13, <1>14, <1>15, <1>16, <1>17, <1>18, <1>19, <1>20,
           <1>21, Zenon
        DEF Scanner!Next, Reader!Next

(* It starts as the one they are about.                                    *)
LEMMA SameFresh == Scanner!Fresh <=> Reader!Fresh
BY Zenon DEF Scanner!Fresh, Reader!Fresh

(* And Points is the same.                                                 *)
LEMMA SamePoints == ASSUME NEW chars PROVE Points(chars) = Reader!Points(chars)
BY DEF Points, Reader!Points, Joins, Reader!Joins, Highs, Reader!Highs, Lows,
       Reader!Lows

(***************************************************************************)
(* What is written between quotes is read to the last byte.                *)
(***************************************************************************)
places == Reader!CharacterPlaces(Text)

(* The text begins with what encode has put in its buffer, and both its    *)
(* first and its last byte are quotes.                                     *)
LEMMA TextIs ==
  ASSUME of \in Seq(Byte)
  PROVE  /\ Text \in Seq(Byte) /\ Len(Text) = Len(of) + 2 /\ Len(of) \in Nat
         /\ Text[1] = 34 /\ Text[Len(Text)] = 34
         /\ Opened(of) \in Seq(Byte) /\ Begins(Opened(of), Text)
<1> DEFINE a == Opened(of)
           q == <<34>>
<1>1. q \in Seq(Byte) /\ Len(q) = 1 /\ q[1] = 34 BY DEF Byte
<1>2. /\ a \in Seq(Byte) /\ Len(a) = Len(of) + 1 /\ a \o q \in Seq(Byte)
      /\ Begins(a, a \o q) /\ Len(a \o q) = Len(a) + Len(q)
      /\ Holds(a \o q, Len(a) + 1, q)
  <2>1. a \in Seq(Byte) /\ Len(a) = Len(of) + 1 BY <1>1, OpenedMore
  <2> HIDE DEF a, q
  <2> QED BY <1>1, <2>1, ConcatBegins
<1>3. Text = a \o q
  <2>1. q \in Seq(Byte) /\ of \in Seq(Byte) BY <1>1
  <2>2. q \o (of \o q) = (q \o of) \o q BY <2>1, ConcatMoved
  <2>3. a = q \o of BY DEF Opened
  <2>4. Text = q \o of \o q BY DEF Text
  <2> HIDE DEF a, q
  <2> QED BY <2>2, <2>3, <2>4
<1>4. Len(of) \in Nat OBVIOUS
<1>5. Reader!ByteAt(Text, 1) = 34
  <2>1. Holds(a, 1, q)
    <3>1. a = q \o of BY DEF Opened
    <3>2. Len(a) = 1 + Len(of) /\ a[1] = 34
      <4>1. Len(q \o of) = Len(q) + Len(of) /\ (q \o of)[1] = q[1] BY <1>1
      <4> HIDE DEF a, q
      <4> QED BY <1>1, <3>1, <4>1
    <3> HIDE DEF a, q
    <3> QED BY <1>1, <1>4, <3>2 DEF Holds, Reader!ByteAt
  <2> HIDE DEF a, q
  <2>2. Reader!ByteAt(a, 1) = 34
    <3>1. 1 + 1 - 1 = 1 /\ 1 \in 1..Len(q) BY <1>1
    <3>2. Reader!ByteAt(a, 1 + 1 - 1) = q[1] BY <2>1, <3>1, HeldAt
    <3> QED BY <1>1, <3>1, <3>2
  <2>3. 1 \in 1..Len(a) BY <1>2, <1>4
  <2> QED BY <1>2, <1>3, <2>2, <2>3, Zenon DEF Begins
<1>6. Reader!ByteAt(Text, Len(a) + 1) = 34
  <2> HIDE DEF a, q
  <2>1. 1 \in 1..Len(q) /\ Len(a) + 1 + 1 - 1 = Len(a) + 1
    BY <1>1, <1>2, <1>4
  <2>2. Reader!ByteAt(a \o q, Len(a) + 1 + 1 - 1) = q[1] BY <1>2, <2>1, HeldAt
  <2> QED BY <1>1, <1>3, <2>1, <2>2
<1> HIDE DEF a, q
<1>7. Len(Text) = Len(of) + 2 /\ Len(a) + 1 = Len(Text) BY <1>1, <1>2, <1>3, <1>4
<1>8. Text[1] = 34 /\ Text[Len(Text)] = 34
  BY <1>4, <1>5, <1>6, <1>7 DEF Reader!ByteAt
<1> QED BY <1>2, <1>3, <1>4, <1>7, <1>8 DEF a

(* The characters from the first quote to the last byte, which is one too. *)
LEMMA QuotedEnd ==
  ASSUME of \in Seq(Byte), NEW chars, Reads(Opened(of), Len(of) + 2, chars)
  PROVE  /\ chars \in Seq(Reader!CharacterType)
         /\ Reader!Parse(places, 2, Len(Text), chars)
         /\ Reader!Leads(places, Reader!Quotes(Text), Len(Text) + 1)
         /\ Len(Text) + 1 \in Nat /\ 2 \in 1..(Len(Text) + 1)
         /\ Len(Text) \in Reader!Quotes(Text) /\ places[Len(Text)] = {}
<1>1. /\ Text \in Seq(Byte) /\ Len(Text) = Len(of) + 2 /\ Len(of) \in Nat
      /\ Text[Len(Text)] = 34
      /\ Opened(of) \in Seq(Byte) /\ Begins(Opened(of), Text)
  BY TextIs
<1> HIDE DEF Text
<1>2. Reads(Text, Len(of) + 2, chars) BY <1>1, ReadsAlike, Zenon
<1>3. /\ chars \in Seq(Reader!CharacterType)
      /\ Reader!Parse(places, 2, Len(of) + 2, chars)
  BY <1>2, Zenon DEF Reads, places
<1>4. Reader!Leads(places, Reader!Quotes(Text), Len(Text) + 1)
  BY <1>1, ReaderHas, ReaderByte, Reader!CharacterLeads DEF places
<1>5. Len(Text) \in Reader!Quotes(Text) BY <1>1 DEF Reader!Quotes
<1>6. places[Len(Text)] = {} BY <1>4, <1>5, Zenon DEF Reader!Leads
<1> QED BY <1>1, <1>3, <1>4, <1>5, <1>6

(* There is no other way through the text.                                 *)
LEMMA OnlyWay ==
  ASSUME of \in Seq(Byte), NEW chars, Reads(Opened(of), Len(of) + 2, chars),
         NEW j, NEW c \in Seq(Reader!CharacterType),
         Reader!Parse(places, 2, j, c), places[j] = {}
  PROVE  j = Len(Text) /\ c = chars
<1>1. /\ chars \in Seq(Reader!CharacterType)
      /\ Reader!Parse(places, 2, Len(Text), chars)
      /\ Reader!Leads(places, Reader!Quotes(Text), Len(Text) + 1)
      /\ Len(Text) + 1 \in Nat /\ 2 \in 1..(Len(Text) + 1)
      /\ places[Len(Text)] = {}
  BY QuotedEnd
<1> HIDE DEF Text, places
<1> DEFINE n == Len(Text) + 1
           ends == Reader!Quotes(Text)
           S == Reader!CharacterType
           e == Len(Text)
<1>2. /\ n \in Nat /\ Reader!Leads(places, ends, n) /\ 2 \in 1..n
      /\ chars \in Seq(S) /\ c \in Seq(S) /\ Reader!Parse(places, 2, j, c)
      /\ Reader!Parse(places, 2, e, chars) /\ places[j] = {} /\ places[e] = {}
  BY <1>1
<1> HIDE DEF n, ends, S, e
<1>3. j = e /\ c = chars BY <1>2, ReaderHas, Reader!ParseUnique, ZenonT(120)
<1> QED BY <1>3 DEF e

(***************************************************************************)
(* The invariant of the whole.                                             *)
(***************************************************************************)
(* There is one string in the text: it starts after the first byte.        *)
OneString ==
  /\ reading = "value" => start \in {1, Len(Text) + 1}
  /\ reading \in Reader!Reading => start = 2
  /\ reading = "error" /\ escStart # "null" => start = 2

CInv ==
  /\ RInv
  /\ result # "none" => pc = "done" /\ (result = "str" <=> IsUtf8(of))
  /\ result # "str" => Reader!Fresh
  /\ result = "str" => Reader!MInv /\ OneString

(* What was read when the string was dumped whole.                         *)
LEMMA DumpedWhole ==
  ASSUME CInv, result = "str"
  PROVE  Whole(forced, str, of)
<1>1. /\ of \in Seq(Byte) /\ str \in Seq(Byte) /\ IsUtf8(of)
      /\ Standing(forced, str, of, io) /\ io = Len(str) + 1
  BY DEF CInv, RInv, IInv, TypeOK, AtEnd
<1> QED BY <1>1, StandsAtEnd, ZenonT(60)

(* A quote that ends the string is the last byte.                          *)
LEMMA QuoteIsLast ==
  ASSUME CInv, AtQuote
  PROVE  /\ pos = Len(Text)
         /\ out = IF enc.forceASCII THEN Paired(Decoded(str)) ELSE Decoded(str)
<1>1. reading = "char" /\ Reader!Oct = 34
  BY DEF AtQuote, Scanner!Oct, Scanner!At, Reader!Oct, Reader!At
<1>2. result = "str" BY <1>1 DEF CInv, Reader!Fresh
<1>3. /\ Reader!MInv /\ of \in Seq(Byte) /\ start = 2
  BY <1>1, <1>2 DEF CInv, RInv, OneString, Reader!Reading
<1>4. Whole(forced, str, of) BY <1>2, DumpedWhole
<1>5. PICK chars : /\ Reads(Opened(of), Len(of) + 2, chars)
                   /\ Matches(forced, Decoded(str), chars)
  BY <1>4, Zenon DEF Whole
<1>6. Reader!First = pos /\ reading \in Reader!Reading
  BY <1>1 DEF Reader!First, Reader!Reading
<1>7. PICK c \in Seq(Reader!CharacterType) : Reader!HasRead(c, pos)
  BY <1>3, <1>6, Zenon DEF Reader!MInv, Reader!Meaning
<1>8. Reader!Parse(places, 2, pos, c) /\ out = Reader!Points(c)
  BY <1>3, <1>7, Zenon DEF Reader!HasRead, places
<1>9. places[pos] = {}
  <2>1. Reader!Leads(places, Reader!Quotes(Text), Len(Text) + 1)
    BY <1>3, <1>5, QuotedEnd
  <2>2. Text \in Seq(Byte) BY <1>3, TextIs
  <2>3. pos \in Nat \ {0} /\ Len(Text) \in Nat
    BY <1>3, <2>2 DEF Reader!MInv, Reader!IInv, Reader!TypeOK
  <2>4. pos <= Len(Text) /\ Text[pos] = 34 BY <1>1 DEF Reader!Oct, Reader!At
  <2>5. pos \in Reader!Quotes(Text) BY <2>3, <2>4 DEF Reader!Quotes
  <2> QED BY <2>1, <2>5, Zenon DEF Reader!Leads
<1>10. pos = Len(Text) /\ c = chars BY <1>3, <1>5, <1>8, <1>9, OnlyWay
<1>11. CASE enc.forceASCII
  <2>1. forced BY <1>11 DEF forced
  <2>2. out = Reader!Points(Units(Decoded(str)))
    BY <1>5, <1>8, <1>10, <2>1, Zenon DEF Matches
  <2>3. Paired(Decoded(str)) = Points(Units(Decoded(str)))
    BY Zenon DEF Paired, Units, Reader!Unit
  <2> QED BY <1>10, <1>11, <2>2, <2>3, SamePoints
<1>12. CASE ~enc.forceASCII
  <2>1. ~forced BY <1>12 DEF forced
  <2>2. out = Decoded(str) BY <1>5, <1>8, <1>10, <2>1, Zenon DEF Matches
  <2> QED BY <1>10, <1>12, <2>2
<1> QED BY <1>11, <1>12

(* The scanner refuses nothing but for want of memory.                     *)
LEMMA NeverRefused ==
  ASSUME CInv, reading = "error" PROVE escStart = "null"
<1> SUFFICES ASSUME escStart # "null" PROVE FALSE OBVIOUS
<1>1. result = "str" BY DEF CInv, Reader!Fresh
<1>2. /\ Reader!MInv /\ of \in Seq(Byte) /\ start = 2 /\ Len(Text) \in Nat
  BY <1>1 DEF CInv, RInv, OneString
<1>3. Whole(forced, str, of) BY <1>1, DumpedWhole
<1>4. PICK chars : Reads(Opened(of), Len(of) + 2, chars)
  BY <1>3, Zenon DEF Whole
<1>5. PICK j \in 1..(Len(Text) + 1), c \in Seq(Reader!CharacterType) :
        /\ Reader!Parse(places, 2, j, c)
        /\ places[j] = {} /\ j \notin Reader!Quotes(Text)
  <2>1. Reader!BeginsInText BY <1>2, TextIs DEF Reader!BeginsInText
  <2> QED BY <1>2, <2>1, Zenon DEF Reader!MInv, Reader!Meaningless, places
<1>6. j = Len(Text) BY <1>2, <1>4, <1>5, OnlyWay
<1>7. Len(Text) \in Reader!Quotes(Text) BY <1>2, <1>4, QuotedEnd
<1> QED BY <1>5, <1>6, <1>7

(* The start of the one string.                                            *)
LEMMA BeginsOnce ==
  ASSUME CInv, result = "str", NEW quote \in 1..Len(Text), Reader!BeginAt(quote)
  PROVE  quote = 1 /\ start' = 2
<1>1. of \in Seq(Byte) /\ OneString BY DEF CInv, RInv
<1>2. Len(Text) \in Nat /\ Text[1] = 34 BY <1>1, TextIs
<1>3. /\ reading = "value" /\ quote >= start /\ start' = quote + 1
      /\ \A i \in start..(quote - 1) : Text[i] # 34
  BY DEF Reader!BeginAt, Reader!Quote
<1>4. start \in {1, Len(Text) + 1} BY <1>1, <1>3 DEF OneString
<1> HIDE DEF Text
<1>5. start = 1 BY <1>2, <1>3, <1>4
<1>6. quote = 1
  <2>1. CASE quote > 1
    <3>1. 1 \in start..(quote - 1) BY <1>5, <2>1
    <3> QED BY <1>2, <1>3, <3>1
  <2> QED BY <2>1
<1> QED BY <1>3, <1>6

(* There is no second string.                                              *)
LEMMA OneStringStep ==
  ASSUME CInv, result = "str", Reader!Next, UNCHANGED <<vars, result>>
  PROVE  OneString'
<1>0. OneString BY DEF CInv
<1>1. Text' = Text BY DEF vars, Text
<1>2. CASE Reader!BeginString \/ Reader!BeginReserve
  <2>1. PICK quote \in 1..Len(Text) : Reader!BeginAt(quote) /\ Reader!Scan(quote)
    BY <1>2 DEF Reader!BeginString, Reader!BeginReserve
  <2>2. start' = 2 BY <2>1, BeginsOnce
  <2>3. reading' = "char" BY <2>1 DEF Reader!Scan
  <2> QED BY <2>2, <2>3 DEF OneString
<1>3. CASE Reader!BeginNoMemory
  <2>1. reading' = "error" /\ escStart' = "null"
    BY <1>3 DEF Reader!BeginNoMemory
  <2> QED BY <2>1 DEF OneString, Reader!Reading
<1>9. ~Reader!BeginBehind
  <2>1. Len(Text) \in Nat BY TextIs DEF CInv, RInv
  <2>2. (Len(Text) + 1)..Len(Text) = {} BY <2>1
  <2> QED BY <2>2 DEF Reader!BeginBehind
<1>10. CASE Reader!Overflow
  <2>1. reading' = "overflow" BY <1>10 DEF Reader!Overflow
  <2> QED BY <2>1 DEF OneString, Reader!Reading
<1>4. CASE Reader!EndString
  <2>1. reading' = "value" /\ start' = pos + 1 BY <1>4 DEF Reader!EndString
  <2>2. AtQuote
    BY <1>4 DEF Reader!EndString, AtQuote, Reader!Quote, Scanner!Oct, Scanner!At,
                Reader!Oct, Reader!At
  <2>3. pos = Len(Text) BY <2>2, QuoteIsLast
  <2>4. start' = Len(Text') + 1 BY <1>1, <2>1, <2>3
  <2> QED BY <2>1, <2>4 DEF OneString, Reader!Reading
<1>5. CASE \/ Reader!BadByte \/ Reader!BadContinuation \/ Reader!BadEscape
           \/ Reader!BadDigit
  <2>1. reading \in Reader!Reading /\ Reader!Refuse
    BY <1>5 DEF Reader!BadByte, Reader!BadContinuation, Reader!BadEscape,
                Reader!BadDigit, Reader!Reading
  <2>2. reading' = "error" /\ start' = start
    BY <2>1 DEF Reader!Refuse, Reader!input
  <2> QED BY <1>0, <2>1, <2>2 DEF OneString, Reader!Reading
<1>6. CASE Reader!Finish
  <2>1. reading' = "done" BY <1>6 DEF Reader!Finish
  <2> QED BY <2>1 DEF OneString, Reader!Reading
<1>7. CASE Reader!Stopped
  <2>1. reading \in {"done", "overflow"} /\ reading' = reading
    BY <1>7 DEF Reader!Stopped, Reader!vars
  <2> QED BY <2>1 DEF OneString, Reader!Reading
<1>8. CASE \/ Reader!LiteralByte \/ Reader!LeadByte \/ Reader!EscapeByte
           \/ Reader!ContinuationByte \/ Reader!LastContinuationByte
           \/ Reader!EscapedLetter \/ Reader!BeginUnicode
           \/ Reader!UnicodeDigit \/ Reader!LastUnicodeDigit
  <2>1. /\ reading \in Reader!Reading /\ reading' \in Reader!Reading
        /\ start' = start
    BY <1>8 DEF Reader!LiteralByte, Reader!LeadByte, Reader!EscapeByte,
                Reader!ContinuationByte, Reader!LastContinuationByte,
                Reader!EscapedLetter, Reader!BeginUnicode, Reader!UnicodeDigit,
                Reader!LastUnicodeDigit, Reader!Reading, Reader!input
  <2> QED BY <1>0, <2>1 DEF OneString, Reader!Reading
<1> QED BY <1>2, <1>3, <1>4, <1>5, <1>6, <1>7, <1>8, <1>9, <1>10, Zenon
        DEF Reader!Next

(* The invariant holds at the start.                                       *)
LEMMA InitCInv == RoundTripInit => CInv
<1> SUFFICES ASSUME RoundTripInit PROVE CInv OBVIOUS
<1>1. RInv BY InitRInv DEF RoundTripInit
<1>2. result = "none" /\ Reader!Fresh BY SameFresh DEF RoundTripInit
<1> QED BY <1>1, <1>2 DEF CInv

(* A step of the escaper keeps it.                                         *)
LEMMA DumpKeeps == ASSUME CInv, Dump PROVE CInv'
<1>1. pc = "escape" /\ Next /\ UNCHANGED <<result, scanning>> BY DEF Dump
<1>2. RInv' BY <1>1, StepRInv DEF CInv
<1>3. result = "none" /\ result' = "none" /\ Reader!Fresh
  <2>1. result = "none" BY <1>1 DEF CInv
  <2> QED BY <1>1, <2>1 DEF CInv
<1>4. Reader!Fresh' BY <1>1, <1>3, Zenon DEF Reader!Fresh, scanning
<1> QED BY <1>2, <1>3, <1>4 DEF CInv

(* So does the decoding of what it wrote.                                  *)
LEMMA DecodeKeeps == ASSUME CInv, Decode PROVE CInv'
<1>1. /\ pc = "done" /\ result = "none" /\ UNCHANGED <<vars, scanning>>
      /\ result' = IF IsUtf8(of) THEN "str" ELSE "raised"
  BY DEF Decode
<1>2. RInv' BY <1>1, StepRInv DEF CInv
<1>3. pc' = pc /\ of' = of /\ Text' = Text BY <1>1 DEF vars, Text
<1>4. Reader!Fresh /\ Text \in Seq(Byte)
  <2>1. of \in Seq(Byte) BY DEF CInv, RInv
  <2> QED BY <1>1, <2>1, TextIs DEF CInv
<1>5. Reader!Fresh' BY <1>1, <1>4, Zenon DEF Reader!Fresh, scanning
<1>6. Reader!MInv BY <1>4, ReaderHas, ReaderByte, Reader!FreshMInv
<1>7. Reader!MInv'
  <2>1. UNCHANGED Reader!vars
    BY <1>1, <1>3 DEF scanning, Reader!vars, Reader!input, Reader!locals
  <2> QED BY <1>6, <2>1, ReaderHas, Reader!StepMInv
<1>8. OneString'
  <2>1. reading' = "value" /\ start' = 1 BY <1>5, Zenon DEF Reader!Fresh
  <2> QED BY <2>1 DEF OneString, Reader!Reading
<1>9. result' # "none" => pc' = "done" /\ (result' = "str" <=> IsUtf8(of'))
  BY <1>1, <1>3
<1> QED BY <1>2, <1>5, <1>7, <1>8, <1>9 DEF CInv

(* A step of the scanner.                                                  *)
LEMMA LoadKeeps == ASSUME CInv, Load PROVE CInv'
<1>1. result = "str" /\ UNCHANGED <<vars, result>> /\ Scanner!Next
  BY DEF Load
<1>2. Reader!Next BY <1>1, SameNext
<1>3. RInv' BY <1>1, StepRInv DEF CInv
<1>4. Reader!MInv' BY <1>1, <1>2, ReaderHas, Reader!StepMInv DEF CInv
<1>5. OneString' BY <1>1, <1>2, OneStringStep
<1>6. pc' = pc /\ of' = of /\ result' = result BY <1>1 DEF vars
<1> QED BY <1>1, <1>3, <1>4, <1>5, <1>6 DEF CInv

(* And no step at all.                                                     *)
LEMMA StillKeeps == ASSUME CInv, UNCHANGED roundTripVars PROVE CInv'
<1>1. UNCHANGED <<vars, result, scanning>> BY DEF roundTripVars
<1>2. RInv' BY <1>1, StepRInv DEF CInv
<1>3. pc' = pc /\ of' = of /\ Text' = Text BY <1>1 DEF vars, Text
<1>4. Reader!Fresh => Reader!Fresh' BY <1>1, Zenon DEF Reader!Fresh, scanning
<1>5. Reader!MInv => Reader!MInv'
  <2>1. UNCHANGED Reader!vars
    BY <1>1, <1>3 DEF scanning, Reader!vars, Reader!input, Reader!locals
  <2> QED BY <2>1, ReaderHas, Reader!StepMInv
<1>6. OneString => OneString'
  BY <1>1, <1>3 DEF scanning, OneString, Reader!Reading
<1> QED BY <1>1, <1>2, <1>3, <1>4, <1>5, <1>6 DEF CInv

(* It holds of dumps and loads in every state.                             *)
LEMMA RoundTripInvariance == RoundTripSpec => []CInv
<1>1. CInv /\ [RoundTripNext]_roundTripVars => CInv'
  BY DumpKeeps, DecodeKeeps, LoadKeeps, StillKeeps, Zenon DEF RoundTripNext, Raised
<1> QED BY <1>1, InitCInv, PTL DEF RoundTripSpec

(* What the invariant says of UTF-8.                                       *)
LEMMA CInvAccepts == CInv => AcceptsUtf8
<1> SUFFICES ASSUME CInv PROVE AcceptsUtf8 OBVIOUS
<1>1. pc = "refused" => ~IsUtf8(str) BY DEF CInv, RInv
<1>2. ASSUME pc = "done"
      PROVE  Whole(forced, str, of) \/ (~IsUtf8(str) /\ ~IsUtf8(of))
  <2>1. /\ of \in Seq(Byte) /\ str \in Seq(Byte)
        /\ Standing(forced, str, of, io) /\ io = Len(str) + 1
    BY <1>2 DEF CInv, RInv, IInv, TypeOK, AtEnd
  <2> QED BY <2>1, StandsAtEnd, ZenonT(60)
<1>3. ASSUME pc = "done" PROVE IsUtf8(of) <=> IsUtf8(str)
  BY <1>2, <1>3, Zenon DEF Whole
<1>4. pc = "done" /\ result # "none" => (result = "str" <=> IsUtf8(str))
  BY <1>3 DEF CInv
<1>5. ASSUME pc = "done", IsUtf8(str) PROVE AsciiOutput
  <2>1. Whole(forced, str, of) BY <1>2, <1>5
  <2>2. forced => \A k \in 1..Len(of) : Ascii(of[k])
    BY <2>1, Zenon DEF Whole
  <2>3. DOMAIN of = 1..Len(of) BY DEF CInv, RInv
  <2> QED BY <2>2, <2>3 DEF AsciiOutput, forced, Ascii
<1> QED BY <1>1, <1>4, <1>5 DEF AcceptsUtf8

(* dumps accepts the strings that are UTF-8, and no others, and writes     *)
(* ASCII when it was asked to.                                             *)
THEOREM DumpsUtf8 == RoundTripSpec => []AcceptsUtf8
BY RoundTripInvariance, CInvAccepts, PTL

(* What it wrote is loaded as what was dumped, with surrogates paired when *)
(* they were written as escapes, to the last byte and without refusal.     *)
THEOREM LoadsDumped == RoundTripSpec => []RoundTripsPaired
<1>1. CInv => RoundTripsPaired
  BY QuoteIsLast, NeverRefused DEF RoundTripsPaired
<1> QED BY <1>1, RoundTripInvariance, PTL
==============================================================================
