-------------------------- MODULE StringScannerProofs --------------------------
(***************************************************************************)
(* For every text, whatever stands behind it, and every size of the buffer *)
(* on the stack: the scanner of strings stops at the null, writes within   *)
(* its buffer as long as the string does not run on behind the text, passes*)
(* only code points on, and frees the one block it allocates.              *)
(*                                                                         *)
(* The buffer is large enough because a string has at most as many code    *)
(* points as bytes were read (Written), and what is left of the text fits  *)
(* (Sized).  A low surrogate is joined with a high one because              *)
(* lastHighSurrogate is never beyond the character being read, and, when it*)
(* is exactly there, the code point written last is that surrogate         *)
(* (HighIsLast).                                                           *)
(*                                                                         *)
(* And it reads what the text means, refusing only what has no meaning.    *)
(* What Items defines is the one way there is from a place of the text, one*)
(* item at a time, to where it ends: Parse says that a list of items is the*)
(* way from one place to another, two ways from a place to an end are equal*)
(* (ParseUnique), and there is one (ParseExists).  What a sequence of UTF-8*)
(* and a character are is put byte by byte (SequenceForm, CharacterForm),  *)
(* and what Points says of a list is put from what it says of the list     *)
(* without its last character or two.  Then it is an invariant that the    *)
(* characters read so far are a way to where the character being read      *)
(* began, that their code points are in out, that a last character that may*)
(* still be joined is where lastHighSurrogate says (HasRead), and that ch  *)
(* and ucs hold the digits and the bits of the bytes after that place      *)
(* (Partial).                                                              *)
(***************************************************************************)
EXTENDS StringScanner, SequenceTheorems, WellFoundedInduction, TLAPS

Written == pc \in Reading => start <= pos /\ Len(out) <= pos - start

Sized ==
  escHeap \/ pc \in Reading => capacity >= end + 1 - start

HeapHasBlock == escHeap => escStart # "null"

(* What the locals hold in the loops over digits and continuation bytes.   *)
Counting ==
  /\ pc = "hex" => left \in 1..4
  /\ pc = "cont" => size \in 2..4 /\ left \in 1..(size - 1)

(* The bits of a sequence of two or three bytes stay below the limits that *)
(* only a sequence of four is checked against.                             *)
BitsBound ==
  pc = "cont" => /\ size = 2 => ucs < 32
                 /\ size = 3 => ucs < (IF left = 2 THEN 16 ELSE 1024)

(* Where the character being read began, or past it.                       *)
Begun == IF pc = "char" THEN pos
         ELSE IF pc = "hex" THEN pos - 6 + left ELSE pos - 1

HighIsLast ==
  pc \in Reading =>
    /\ high <= Begun
    /\ high = Begun /\ pc # "cont" => out # <<>> /\ LastUnit \in HighSurrogate

IInv == /\ TypeOK /\ StopsAtNull /\ FitsBuffer /\ OnlyCodePoints
        /\ OneBlockFreed /\ Written /\ Sized /\ HeapHasBlock
        /\ Counting /\ BitsBound /\ HighIsLast

(* What At gives is a byte, and only the bytes of the text are not null.   *)
LEMMA OctInText ==
  ASSUME TypeOK
  PROVE  /\ Oct \in Byte /\ Oct \in 0..255
         /\ Oct # 0 => pos <= Len(text)
<1>1. 0 \in Byte BY DEF Byte
<1>2. CASE pos <= Len(text)
  <2>1. pos \in 1..Len(text) BY <1>2 DEF TypeOK
  <2>2. text[pos] \in Byte BY <2>1 DEF TypeOK
  <2> QED BY <1>2, <2>2 DEF Oct, At, Byte
<1>3. CASE ~(pos <= Len(text)) BY <1>1, <1>3 DEF Oct, At, Byte
<1> QED BY <1>2, <1>3

(* The value of a hexadecimal digit.                                       *)
LEMMA HexValueType ==
  ASSUME NEW c \in HexDigit PROVE HexValue(c) \in 0..15
BY DEF HexDigit, Digit, LowerHex, UpperHex, HexValue

(* x % n, for the n the scanner uses.                                      *)
LEMMA Remainder ==
  ASSUME NEW x \in Nat, NEW n \in Nat \ {0}
  PROVE  x % n \in Nat /\ x % n < n
OBVIOUS

(* Large literals are kept out of intervals the provers look into.         *)
LEMMA UpTo ==
  ASSUME NEW n \in Nat, NEW x \in Nat, x <= n PROVE x \in 0..n
OBVIOUS

(* The limits are natural numbers.                                         *)
LEMMA Limits ==
  MaxUnit \in Nat /\ MaxCodePoint \in Nat
BY SMT DEF MaxUnit, MaxCodePoint

(* A digit more keeps the unit within sixteen bits.                        *)
LEMMA ShiftedType ==
  ASSUME TypeOK, Oct \in HexDigit PROVE Shifted \in 0..MaxUnit
<1>1. HexValue(Oct) \in 0..15 BY HexValueType
<1>a. ch \in 0..MaxUnit BY DEF TypeOK
<1>2. ch * 16 + HexValue(Oct) \in Nat BY <1>1, <1>a, Limits
<1>3. Shifted \in Nat /\ Shifted < MaxUnit + 1
  BY <1>2, Limits, Remainder DEF Shifted
<1> QED BY <1>3, Limits, UpTo

(* The characters that are code points for being small, or units.          *)
LEMMA SmallCodePoint ==
  ASSUME NEW x \in Nat, x <= 65535 PROVE x \in CodePoint
<1>1. x <= MaxCodePoint BY SMT DEF MaxCodePoint
<1> QED BY <1>1, Limits, UpTo DEF CodePoint

(* The character of a letter escape.                                       *)
LEMMA EscapedType ==
  ASSUME NEW c \in EscapeLetter PROVE Escaped(c) \in CodePoint
<1>1. Escaped(c) \in 8..92 BY DEF EscapeLetter, Escaped
<1> QED BY <1>1, SmallCodePoint

(* The bits a lead byte contributes.                                       *)
LEMMA LeadBitsType ==
  ASSUME NEW length \in 2..4, Oct \in 0..255
  PROVE  /\ LeadBits(length) \in Nat
         /\ length = 2 => LeadBits(length) < 32
         /\ length = 3 => LeadBits(length) < 16
<1>1. Oct \in Nat OBVIOUS
<1>2. CASE length = 2 BY <1>1, <1>2, Remainder DEF LeadBits
<1>3. CASE length = 3 BY <1>1, <1>3, Remainder DEF LeadBits
<1>4. CASE length = 4 BY <1>1, <1>4, Remainder DEF LeadBits
<1> QED BY <1>2, <1>3, <1>4

(* A further byte appends six bits.                                        *)
LEMMA BitsType ==
  ASSUME TypeOK, Oct \in 0..255
  PROVE  Bits \in Nat /\ Bits <= ucs * 64 + 63
<1>1. Oct % 64 \in Nat /\ Oct % 64 < 64 BY Remainder
<1>2. ucs \in Nat BY DEF TypeOK
<1> QED BY <1>1, <1>2 DEF Bits

(* What Write leaves of a sequence of code points.                         *)
LEMMA WriteType ==
  ASSUME TypeOK, OnlyCodePoints, NEW c \in CodePoint, Write(c)
  PROVE  /\ out' \in Seq(Int) /\ Len(out') = Len(out) + 1
         /\ out'[Len(out')] = c /\ out' # <<>>
         /\ OnlyCodePoints'
<1>1. out \in Seq(Int) /\ c \in Int
  BY Limits DEF TypeOK, CodePoint
<1>2. out' = Append(out, c) BY DEF Write
<1>3. \A i \in DOMAIN out' : out'[i] = IF i = Len(out) + 1 THEN c ELSE out[i]
  BY <1>1, <1>2
<1>4. \A i \in DOMAIN out' : i = Len(out) + 1 \/ i \in DOMAIN out
  BY <1>1, <1>2
<1> QED BY <1>1, <1>2, <1>3, <1>4 DEF OnlyCodePoints

(* A surrogate pair joins to a code point.                                 *)
LEMMA JoinedType ==
  ASSUME NEW unit \in LowSurrogate, LastUnit \in HighSurrogate
  PROVE  Joined(unit) \in CodePoint
<1>1. unit \in Int /\ unit >= 56320 /\ unit <= 57343 BY DEF LowSurrogate
<1>2. LastUnit \in Int /\ LastUnit >= 55296 /\ LastUnit <= 56319 BY DEF HighSurrogate
<1>3. Joined(unit) \in Nat /\ Joined(unit) <= MaxCodePoint
  BY <1>1, <1>2, SMT DEF Joined, MaxCodePoint
<1> QED BY <1>3, Limits, UpTo DEF CodePoint

(* The invariant holds at the start.                                       *)
LEMMA FreshIInv ==
  ASSUME text \in Seq(Byte), end \in 0..Len(text), Fresh PROVE IInv
<1>1. 0 \in 0..MaxUnit BY Limits
<1>3. TypeOK
  <2>1. out \in Seq(Int) /\ capacity \in Nat BY StackAssumption DEF Fresh
  <2>2. ch \in 0..MaxUnit /\ text \in Seq(Byte) /\ end \in 0..Len(text)
    BY <1>1 DEF Fresh
  <2>3. /\ pc = "value" /\ start = 1 /\ pos = 1
        /\ ucs = 0 /\ size = 0 /\ left = 0 /\ high = 0
        /\ escStart = "stack" /\ escHeap = FALSE /\ blocks = 0
    BY DEF Fresh
  <2>4. left \in 0..4 /\ size \in {0, 2, 3, 4} BY <2>3
  <2>5. escHeap \in BOOLEAN BY <2>3
  <2>6. start \in Nat \ {0} /\ pos \in Nat \ {0} /\ ucs \in Nat /\ high \in Nat
    BY <2>3
  <2>7. escStart \in {"stack", "heap", "null"} /\ blocks \in Int BY <2>3
  <2>8. pc \in Reading \cup {"value", "error", "overflow", "done"} BY <2>3
  <2> QED BY <2>1, <2>2, <2>4, <2>5, <2>6, <2>7, <2>8 DEF TypeOK
<1>4. FitsBuffer /\ OnlyCodePoints
  BY StackAssumption DEF Fresh, FitsBuffer, OnlyCodePoints
<1>5. /\ StopsAtNull /\ OneBlockFreed /\ Written /\ Sized
      /\ HeapHasBlock /\ Counting /\ BitsBound /\ HighIsLast
  BY DEF Fresh, StopsAtNull, OneBlockFreed, Written, Sized, HeapHasBlock,
         Counting, BitsBound, HighIsLast, Reading
<1> QED BY <1>3, <1>4, <1>5 DEF IInv

(* And in the initial states.                                              *)
LEMMA InitIInv == Init => IInv
<1>1. Init => text \in Seq(Byte) /\ end \in 0..Len(text) /\ Fresh
  BY TextsAssumption, BehindAssumption DEF Init
<1> QED BY <1>1, FreshIInv

(* What the start of a string establishes.                                 *)
LEMMA BeginKeeps ==
  ASSUME IInv, BeginString \/ BeginReserve \/ BeginNoMemory \/ BeginBehind
  PROVE  IInv'
<1> USE DEF BeginAt, TooSmall, Remaining, Reading
<1> USE DEF IInv, TypeOK, Written, Sized, HeapHasBlock, OneBlockFreed
<1>6. 0 \in 0..MaxUnit BY Limits
<1>7. Len(text) \in Nat BY DEF Byte
<1>1. CASE BeginBehind
  <2>1. PICK quote \in (end + 1)..Len(text) :
          /\ BeginAt(quote) /\ pc' = "error"
          /\ UNCHANGED <<text, end, pos, capacity, escStart, escHeap, blocks,
                        locals>>
    BY <1>1 DEF BeginBehind
  <2> QED
    BY <2>1, <1>7
       DEF locals, StopsAtNull, FitsBuffer, OnlyCodePoints, Counting, BitsBound,
           HighIsLast
<1>2. ASSUME NEW quote \in 1..end, BeginAt(quote),
             \/ /\ ~TooSmall(quote) /\ Scan(quote)
                /\ UNCHANGED <<capacity, escStart, escHeap, blocks>>
             \/ TooSmall(quote) /\ Reserve(quote) /\ Scan(quote)
             \/ /\ TooSmall(quote)
                /\ escStart' = "null" /\ pc' = "error"
                /\ UNCHANGED <<text, end, pos, capacity, escHeap, blocks, locals>>
      PROVE  IInv'
  <2>1. TooSmall(quote) => ~escHeap BY <1>2
  <2>2. quote \in 1..Len(text) BY <1>7
  <2>3. CASE Scan(quote) /\ ~TooSmall(quote)
              /\ UNCHANGED <<capacity, escStart, escHeap, blocks>>
    BY <1>2, <2>2, <2>3, <1>6, <1>7
       DEF Scan, StopsAtNull, FitsBuffer, OnlyCodePoints, Counting, BitsBound,
           HighIsLast, Begun
  <2>4. CASE Scan(quote) /\ TooSmall(quote) /\ Reserve(quote)
    BY <1>2, <2>1, <2>2, <2>4, <1>6, <1>7
       DEF Scan, Reserve, StopsAtNull, FitsBuffer, OnlyCodePoints, Counting,
           BitsBound, HighIsLast, Begun
  <2>5. CASE /\ TooSmall(quote) /\ escStart' = "null" /\ pc' = "error"
             /\ UNCHANGED <<text, end, pos, capacity, escHeap, blocks, locals>>
    BY <1>2, <2>1, <2>2, <2>5
       DEF locals, StopsAtNull, FitsBuffer, OnlyCodePoints, Counting, BitsBound,
           HighIsLast
  <2> QED BY <1>2, <2>3, <2>4, <2>5
<1>3. CASE BeginString BY <1>2, <1>3 DEF BeginString
<1>4. CASE BeginReserve BY <1>2, <1>4 DEF BeginReserve
<1>5. CASE BeginNoMemory BY <1>2, <1>5 DEF BeginNoMemory
<1> QED BY <1>1, <1>3, <1>4, <1>5

(* A step that looks at a byte and goes on with the next.                  *)
Advance == Oct # 0 /\ pc \in Reading /\ pc' \in Reading /\ pos' = pos + 1

(* A byte read and a character written keep what the room is about.        *)
LEMMA AdvanceKeeps ==
  ASSUME IInv, Advance, UNCHANGED input, Len(out') <= Len(out) + 1,
         Len(out') \in Nat
  PROVE  /\ StopsAtNull' /\ FitsBuffer' /\ OneBlockFreed' /\ Written'
         /\ Sized' /\ HeapHasBlock'
BY OctInText
   DEF IInv, TypeOK, Advance, input, StopsAtNull, FitsBuffer, OneBlockFreed,
       Written, Sized, HeapHasBlock, Reading

(* A step that writes one code point and starts the next character.        *)
LEMMA WriteKeeps ==
  ASSUME IInv, Oct # 0, pc \in Reading, pc' = "char", pos' = pos + 1,
         UNCHANGED <<input, size, high>>, left' \in 0..4,
         ch' \in 0..MaxUnit, ucs' \in Nat,
         NEW c \in CodePoint, Write(c)
  PROVE  IInv'
<1>1. /\ out' \in Seq(Int) /\ Len(out') = Len(out) + 1
      /\ OnlyCodePoints'
  BY WriteType DEF IInv
<1>2. Len(out) \in Nat BY DEF IInv, TypeOK
<1>3. /\ StopsAtNull' /\ FitsBuffer' /\ OneBlockFreed' /\ Written'
      /\ Sized' /\ HeapHasBlock'
  BY <1>1, <1>2, AdvanceKeeps DEF Advance, Reading
<1>4. TypeOK' BY <1>1 DEF IInv, TypeOK, input, Reading
<1>5. Counting' /\ BitsBound' BY DEF Counting, BitsBound
<1>6. HighIsLast'
  <2>1. high < pos'
    BY DEF IInv, TypeOK, HighIsLast, Begun, Counting, Reading
  <2> QED BY <2>1, <1>4 DEF HighIsLast, Begun, Reading, TypeOK
<1> QED BY <1>1, <1>3, <1>4, <1>5, <1>6 DEF IInv

(* A step within a character that writes nothing.                          *)
LEMMA WithinKeeps ==
  ASSUME IInv, Oct # 0, pc \in Reading, pc' \in {"cont", "escape", "hex"},
         pos' = pos + 1, UNCHANGED <<input, out, high>>,
         ch' \in 0..MaxUnit, ucs' \in Nat, size' \in {0, 2, 3, 4},
         left' \in 0..4,
         Counting', BitsBound', Begun' >= Begun,
         Begun' = Begun => pc # "cont"
  PROVE  IInv'
<1>1. Len(out) \in Nat BY DEF IInv, TypeOK
<1>2. /\ StopsAtNull' /\ FitsBuffer' /\ OneBlockFreed' /\ Written'
      /\ Sized' /\ HeapHasBlock'
  BY <1>1, AdvanceKeeps DEF Advance, Reading
<1>3. TypeOK' BY DEF IInv, TypeOK, input, Reading
<1>4. OnlyCodePoints' BY DEF IInv, OnlyCodePoints
<1>5. HighIsLast'
  <2>1. Begun \in Int /\ Begun' \in Int
    BY <1>3 DEF IInv, TypeOK, Begun
  <2> QED BY <2>1 DEF IInv, TypeOK, HighIsLast, LastUnit, Reading
<1> QED BY <1>2, <1>3, <1>4, <1>5 DEF IInv

(* A write finds no room only behind the text: as many code points as the  *)
(* buffer holds need at least as many bytes.                               *)
LEMMA OverflowKeeps ==
  ASSUME IInv, Overflow
  PROVE  IInv'
<1>1. /\ pc \in Reading /\ Oct # 0 /\ Len(out) >= capacity /\ pc' = "overflow"
      /\ Len(out) \in Nat
  <2>1. Len(out) \in Nat /\ capacity \in Nat BY DEF IInv, TypeOK
  <2>2. Len(out) >= capacity /\ pc' = "overflow"
    BY <2>1 DEF Overflow, Room
  <2>3. 0 \notin Literal \cup Continuation \cup EscapeLetter \cup HexDigit
    BY DEF Literal, Continuation, EscapeLetter, HexDigit, Digit, LowerHex,
           UpperHex
  <2>4. /\ pc \in Reading
        /\ Oct \in Literal \cup Continuation \cup EscapeLetter \cup HexDigit
    BY DEF Overflow, Writes, Reading
  <2> QED BY <2>1, <2>2, <2>3, <2>4
<1>2. pos <= Len(text) BY <1>1, OctInText DEF IInv
<1>3. end < pos BY <1>1 DEF IInv, TypeOK, Written, Sized
<1> QED
  BY <1>1, <1>2, <1>3
     DEF Overflow, IInv, TypeOK, StopsAtNull, FitsBuffer, OnlyCodePoints,
         OneBlockFreed, Written, Sized, HeapHasBlock, Counting, BitsBound,
         HighIsLast, Reading, locals, input

(* A step to a value, an error or the end.                                 *)
LEMMA LeaveKeeps ==
  ASSUME IInv, EndString \/ (pc \in Reading /\ Refuse) \/ Finish
  PROVE  IInv'
<1> USE DEF IInv, TypeOK, StopsAtNull, FitsBuffer, OnlyCodePoints,
            OneBlockFreed, Written, Sized, HeapHasBlock, Counting, BitsBound,
            HighIsLast, Reading, locals, input
<1>1. CASE EndString BY <1>1 DEF EndString
<1>2. CASE pc \in Reading /\ Refuse BY <1>2 DEF Refuse
<1>3. CASE Finish BY <1>3 DEF Finish, Freed
<1> QED BY <1>1, <1>2, <1>3

(* A byte copied as it is keeps the invariant.                             *)
LEMMA LiteralKeeps == ASSUME IInv, LiteralByte PROVE IInv'
<1>1. Oct # 0 /\ Oct \in CodePoint
  BY SmallCodePoint DEF LiteralByte, Literal
<1> QED BY <1>1, WriteKeeps
        DEF LiteralByte, Reading, IInv, TypeOK

(* So does a letter escape.                                                *)
LEMMA EscapedLetterKeeps == ASSUME IInv, EscapedLetter PROVE IInv'
<1>1. Oct # 0 /\ Escaped(Oct) \in CodePoint
  BY EscapedType DEF EscapedLetter, EscapeLetter
<1> QED BY <1>1, WriteKeeps
        DEF EscapedLetter, Reading, IInv, TypeOK

(* A sequence of two or three bytes cannot hold a value beyond the limit.  *)
LEMMA LastContinuationKeeps ==
  ASSUME IInv, LastContinuationByte PROVE IInv'
<1>1. Oct # 0 /\ Oct \in 0..255 /\ TypeOK
  BY OctInText DEF IInv, LastContinuationByte, Continuation
<1>2. Bits \in Nat /\ Bits <= ucs * 64 + 63 BY <1>1, BitsType
<1>3. Bits \in CodePoint
  <2>1. CASE size = 4
    BY <1>2, <2>1, Limits, UpTo DEF LastContinuationByte, InRange, CodePoint
  <2>2. CASE size \in {2, 3}
    <3>1. ucs \in Nat /\ ucs < 1024
      BY <2>2 DEF IInv, BitsBound, LastContinuationByte, TypeOK
    <3>2. Bits <= 65535 BY <1>2, <3>1
    <3> QED BY <1>2, <3>2, SmallCodePoint
  <2> QED BY <2>1, <2>2 DEF IInv, Counting, LastContinuationByte
<1> QED BY <1>1, <1>3, WriteKeeps
        DEF LastContinuationByte, Reading, IInv, TypeOK

(* So does the lead byte of a sequence.                                    *)
LEMMA LeadKeeps == ASSUME IInv, LeadByte PROVE IInv'
<1>1. PICK length \in 2..4 :
        /\ Oct \in Lead[length]
        /\ ucs' = LeadBits(length) /\ size' = length /\ left' = length - 1
  BY DEF LeadByte, Lead
<1>2. Oct \in 0..255 /\ TypeOK BY OctInText DEF IInv
<1>3. Oct # 0 BY <1>1 DEF Lead
<1>4. /\ LeadBits(length) \in Nat
      /\ length = 2 => LeadBits(length) < 32
      /\ length = 3 => LeadBits(length) < 16
  BY <1>2, LeadBitsType
<1>5. pc = "char" /\ pc' = "cont" /\ pos' = pos + 1
      /\ UNCHANGED <<input, out, ch, high>>
  BY DEF LeadByte
<1>6. Counting' /\ BitsBound' BY <1>1, <1>4, <1>5 DEF Counting, BitsBound
<1>7. Begun' = Begun BY <1>2, <1>5 DEF Begun, TypeOK
<1>8. size' \in {0, 2, 3, 4} /\ left' \in 0..4 /\ ucs' \in Nat
  BY <1>1, <1>4
<1>9. ch' \in 0..MaxUnit BY <1>2, <1>5 DEF TypeOK
<1>10. Begun \in Int BY <1>2, <1>5 DEF Begun, TypeOK
<1> QED BY <1>3, <1>5, <1>6, <1>7, <1>8, <1>9, <1>10, WithinKeeps DEF Reading

(* So does a continuation byte.                                            *)
LEMMA ContinuationKeeps == ASSUME IInv, ContinuationByte PROVE IInv'
<1>1. Oct # 0 /\ Oct \in 0..255 /\ TypeOK
  BY OctInText DEF IInv, ContinuationByte, Continuation
<1>2. Bits \in Nat /\ Bits <= ucs * 64 + 63 BY <1>1, BitsType
<1>3. Counting /\ BitsBound /\ pc = "cont" /\ left > 1
  BY DEF IInv, ContinuationByte
<1>4. Counting' /\ left' \in 0..4
  BY <1>3 DEF Counting, ContinuationByte
<1>5. BitsBound'
  BY <1>1, <1>2, <1>3 DEF BitsBound, Counting, ContinuationByte, TypeOK
<1>6. Begun' = Begun + 1 /\ Begun \in Int
  BY <1>1, <1>3 DEF Begun, ContinuationByte, TypeOK
<1>7. ch' \in 0..MaxUnit BY <1>1 DEF TypeOK, ContinuationByte
<1> QED BY <1>1, <1>2, <1>3, <1>4, <1>5, <1>6, <1>7, WithinKeeps
        DEF ContinuationByte, Reading, TypeOK

(* So does the start of an escape.                                         *)
LEMMA EscapeKeeps == ASSUME IInv, EscapeByte \/ BeginUnicode PROVE IInv'
<1>1. Oct # 0 /\ TypeOK
  BY DEF IInv, EscapeByte, Backslash, BeginUnicode, LetterU
<1>2. pc' \in {"escape", "hex"} /\ pc \in {"char", "escape"}
      /\ pos' = pos + 1 /\ UNCHANGED <<input, out, ch, ucs, size, high>>
  BY DEF EscapeByte, BeginUnicode, locals
<1>3. Counting' /\ left' \in 0..4
  BY <1>1 DEF EscapeByte, BeginUnicode, Counting, locals, TypeOK
<1>4. BitsBound' BY <1>2 DEF BitsBound
<1>5. Begun' = Begun /\ Begun \in Int
  BY <1>1 DEF Begun, EscapeByte, BeginUnicode, TypeOK
<1>6. ch' \in 0..MaxUnit /\ ucs' \in Nat /\ size' \in {0, 2, 3, 4}
  BY <1>1, <1>2 DEF TypeOK
<1> QED BY <1>1, <1>2, <1>3, <1>4, <1>5, <1>6, WithinKeeps DEF Reading

(* So does a digit of a \u escape.                                         *)
LEMMA DigitKeeps == ASSUME IInv, UnicodeDigit PROVE IInv'
<1>1. Oct # 0 /\ TypeOK /\ Shifted \in 0..MaxUnit
  BY ShiftedType
     DEF IInv, UnicodeDigit, HexDigit, Digit, LowerHex, UpperHex
<1>2. pc = "hex" /\ pc' = "hex" /\ pos' = pos + 1 /\ ch' = Shifted
      /\ left' = left - 1 /\ UNCHANGED <<input, out, ucs, size, high>>
  BY DEF UnicodeDigit
<1>3. Counting' /\ left' \in 0..4
  BY <1>1, <1>2 DEF UnicodeDigit, Counting, TypeOK
<1>4. BitsBound' BY <1>2 DEF BitsBound
<1>5. Begun' = Begun /\ Begun \in Int BY <1>1, <1>2 DEF Begun, TypeOK
<1>6. ucs' \in Nat /\ size' \in {0, 2, 3, 4} BY <1>1, <1>2 DEF TypeOK
<1> QED BY <1>1, <1>2, <1>3, <1>4, <1>5, <1>6, WithinKeeps DEF Reading

(* The last digit: the only step that overwrites a code point, and the one *)
(* that moves lastHighSurrogate.                                           *)
LEMMA LastDigitKeeps == ASSUME IInv, LastUnicodeDigit PROVE IInv'
<1>1. Oct # 0 /\ TypeOK /\ Shifted \in 0..MaxUnit
  BY ShiftedType
     DEF IInv, LastUnicodeDigit, HexDigit, Digit, LowerHex, UpperHex
<1>2. pc = "hex" /\ left = 1 /\ pc' = "char" /\ pos' = pos + 1
      /\ ch' = Shifted /\ left' = 0 /\ UNCHANGED <<input, ucs, size>>
      /\ WriteUnit(Shifted)
      /\ high' = IF Shifted \in HighSurrogate THEN pos + 1 ELSE high
  BY DEF LastUnicodeDigit
<1>3. Shifted \in CodePoint
  <2>1. Shifted \in Nat /\ Shifted <= MaxUnit BY <1>1, Limits
  <2>2. MaxUnit = 65535 BY SMT DEF MaxUnit
  <2> QED BY <2>1, <2>2, SmallCodePoint
<1>4. out \in Seq(Int) /\ Len(out) \in Nat /\ pos \in Nat BY <1>1 DEF TypeOK
<1>5. /\ high <= pos - 5
      /\ high = pos - 5 => out # <<>> /\ LastUnit \in HighSurrogate
  BY <1>1, <1>2 DEF IInv, HighIsLast, Begun, Reading, TypeOK
<1>6. /\ out' \in Seq(Int) /\ OnlyCodePoints'
      /\ Len(out') \in Nat /\ Len(out') <= Len(out) + 1
      /\ Shifted \in HighSurrogate => out' # <<>> /\ LastUnit' = Shifted
  <2>1. CASE Shifted \in LowSurrogate /\ FollowsHigh
    <3>1. out # <<>> /\ LastUnit \in HighSurrogate
      BY <1>1, <1>5, <2>1 DEF FollowsHigh, TypeOK
    <3>2. Joined(Shifted) \in CodePoint BY <2>1, <3>1, JoinedType
    <3>3. out' = [out EXCEPT ![Len(out)] = Joined(Shifted)]
      BY <1>2, <2>1 DEF WriteUnit, JoinsLast
    <3>4. Joined(Shifted) \in Int BY <3>2, Limits DEF CodePoint
    <3>5. Shifted \notin HighSurrogate
      <4>1. Shifted \in LowSurrogate => Shifted > 56319 BY DEF LowSurrogate
      <4>2. Shifted \in HighSurrogate => Shifted <= 56319
        BY DEF HighSurrogate
      <4>3. Shifted \in Int BY <2>1 DEF LowSurrogate
      <4> QED BY <2>1, <4>1, <4>2, <4>3
    <3>6. out' \in Seq(Int) /\ Len(out') = Len(out)
      BY <1>4, <3>1, <3>3, <3>4
    <3>7. \A i \in DOMAIN out' :
            i \in DOMAIN out /\ out'[i] \in {out[i], Joined(Shifted)}
      BY <1>4, <3>1, <3>3
    <3>8. OnlyCodePoints' BY <3>2, <3>7 DEF IInv, OnlyCodePoints
    <3> QED BY <1>4, <3>5, <3>6, <3>8
  <2>2. CASE ~(Shifted \in LowSurrogate /\ FollowsHigh)
    <3>1. Write(Shifted) BY <1>2, <2>2 DEF WriteUnit, JoinsLast
    <3> QED BY <1>1, <1>3, <1>4, <3>1, WriteType DEF IInv, LastUnit
  <2> QED BY <2>1, <2>2
<1>7. /\ StopsAtNull' /\ FitsBuffer' /\ OneBlockFreed' /\ Written'
      /\ Sized' /\ HeapHasBlock'
  BY <1>1, <1>2, <1>6, AdvanceKeeps DEF Advance, Reading
<1>8. high' \in Nat BY <1>1, <1>2 DEF TypeOK
<1>9. TypeOK' BY <1>1, <1>2, <1>6, <1>8 DEF TypeOK, input, Reading
<1>10. Counting' /\ BitsBound' BY <1>2 DEF Counting, BitsBound
<1>11. HighIsLast'
  <2>1. pc' \in Reading /\ Begun' = pos + 1 BY <1>2 DEF Reading, Begun
  <2>2. CASE Shifted \in HighSurrogate
    BY <1>2, <1>4, <1>6, <2>1, <2>2 DEF HighIsLast
  <2>3. CASE Shifted \notin HighSurrogate
    <3>1. high' = high BY <1>2, <2>3
    <3>2. high \in Int BY <1>1 DEF TypeOK
    <3>3. high < pos + 1 BY <1>4, <1>5, <3>2
    <3> QED BY <1>4, <2>1, <3>1, <3>2, <3>3 DEF HighIsLast
  <2> QED BY <2>2, <2>3
<1> QED BY <1>6, <1>7, <1>9, <1>10, <1>11 DEF IInv

(* Every step keeps the invariant.                                         *)
LEMMA StepIInv == IInv /\ [Next]_vars => IInv'
<1> SUFFICES ASSUME IInv, [Next]_vars PROVE IInv'
  OBVIOUS
<1>1. CASE BeginString \/ BeginReserve \/ BeginNoMemory \/ BeginBehind
  BY <1>1, BeginKeeps
<1>2. CASE LiteralByte BY <1>2, LiteralKeeps
<1>3. CASE LeadByte BY <1>3, LeadKeeps
<1>4. CASE EscapeByte \/ BeginUnicode BY <1>4, EscapeKeeps
<1>5. CASE EndString \/ Finish BY <1>5, LeaveKeeps
<1>6. CASE BadByte \/ BadContinuation \/ BadEscape \/ BadDigit
  BY <1>6, LeaveKeeps
     DEF BadByte, BadContinuation, BadEscape, BadDigit, Reading
<1>7. CASE ContinuationByte BY <1>7, ContinuationKeeps
<1>8. CASE LastContinuationByte BY <1>8, LastContinuationKeeps
<1>9. CASE EscapedLetter BY <1>9, EscapedLetterKeeps
<1>10. CASE UnicodeDigit BY <1>10, DigitKeeps
<1>11. CASE LastUnicodeDigit BY <1>11, LastDigitKeeps
<1>13. CASE Overflow BY <1>13, OverflowKeeps
<1>12. CASE UNCHANGED vars
  BY <1>12 DEF vars, input, locals, IInv, TypeOK, StopsAtNull, FitsBuffer,
               OnlyCodePoints, OneBlockFreed, Written, Sized, HeapHasBlock,
               Counting, BitsBound, HighIsLast, Begun, LastUnit
<1> QED BY <1>1, <1>2, <1>3, <1>4, <1>5, <1>6, <1>7, <1>8, <1>9, <1>10,
           <1>11, <1>12, <1>13 DEF Next, Stopped

(* The conjunction of all that holds of the scanner in every state.        *)
THEOREM Invariance == Spec => []IInv
BY InitIInv, StepIInv, PTL DEF Spec

(* Every variable of the scanner of strings has its type.                  *)
THEOREM TypeCorrect == Spec => []TypeOK
<1>1. IInv => TypeOK BY DEF IInv
<1> QED BY <1>1, Invariance, PTL

(* decode_string looks for room once, before the first character, and as   *)
(* long as the string does not run on behind the text it never writes      *)
(* beyond the buffer, on the stack or allocated.                           *)
THEOREM NeverOverflows == Spec => []FitsBuffer
<1>1. IInv => FitsBuffer BY DEF IInv
<1> QED BY <1>1, Invariance, PTL

(* decode_string has no look at ds->end: it stops at the null byte, which  *)
(* is right behind a str, bytes or bytearray, and wherever the memory has  *)
(* one behind any other buffer.                                            *)
THEOREM StopsAtTheNull == Spec => []StopsAtNull
<1>1. IInv => StopsAtNull BY DEF IInv
<1> QED BY <1>1, Invariance, PTL

(* newString is never passed what is not a code point: the arithmetic of a *)
(* pair of escaped surrogates is only done on such a pair.                 *)
THEOREM PassesCodePoints == Spec => []OnlyCodePoints
<1>1. IInv => OnlyCodePoints BY DEF IInv
<1> QED BY <1>1, Invariance, PTL

(* escStart, escHeap and the free of JSON_DecodeObject agree on one block, *)
(* whatever strings follow one another and wherever the text is refused.   *)
THEOREM FreesItsBlock == Spec => []OneBlockFreed
<1>1. IInv => OneBlockFreed BY DEF IInv
<1> QED BY <1>1, Invariance, PTL

(* Induction over the natural numbers, as sets.                            *)
LEMMA Induction ==
  ASSUME NEW S, \A n \in Nat : (\A m \in 0..(n - 1) : m \in S) => n \in S
  PROVE  Nat \subseteq S
<1> DEFINE T == Nat \ S
<1> SUFFICES ASSUME T # {} PROVE FALSE
  OBVIOUS
<1>1. PICK x \in T : \A y \in T : ~(<<y, x>> \in OpToRel(<, Nat))
  BY NatLessThanWellFounded, WFMin, Zenon
<1>2. ASSUME NEW m \in 0..(x - 1) PROVE m \in S
  <2>1. m \in Nat /\ x \in Nat /\ m < x
    OBVIOUS
  <2>2. <<m, x>> \in OpToRel(<, Nat)
    BY <2>1, Zenon DEF OpToRel
  <2> QED BY <1>1, <2>1, <2>2
<1> QED BY <1>2

(***************************************************************************)
(* Items, and the ways through them.                                       *)
(***************************************************************************)
(* Items lead on to later places, at most one from each and none from an   *)
(* end.                                                                    *)
Leads(at, ends, n) ==
  /\ DOMAIN at = 1..n
  /\ \A i \in 1..n : \A t \in at[i] :
       t.length \in Nat /\ t.length > 0 /\ i + t.length <= n
  /\ \A i \in 1..n : \A t, u \in at[i] : t = u
  /\ \A i \in ends : at[i] = {}

(* What Items says of a place, given what it says of later ones.           *)
ItemsAt(at, ends, none, items, i) ==
  IF i \in ends THEN <<>>
  ELSE IF at[i] = {} THEN <<none>>
  ELSE LET t == CHOOSE t \in at[i] : TRUE
       IN <<t.item>> \o items[i + t.length]

AreItems(f, at, ends, none, n) ==
  f = [i \in 1..n |-> ItemsAt(at, ends, none, f, i)]

(* The recursive definition is sound.                                      *)
LEMMA ItemsExist ==
  ASSUME NEW n \in Nat, NEW at, NEW ends, NEW none, Leads(at, ends, n)
  PROVE  \E f : AreItems(f, at, ends, none, n)
<1> DEFINE R(f, i) == ItemsAt(at, ends, none, f, i)
           S == {k \in Nat : k <= n =>
                   \E f : f = [i \in (n - k + 1)..n |-> R(f, i)]}
<1>1. ASSUME NEW f, NEW g, NEW i \in 1..n,
             \A j \in (i + 1)..n : f[j] = g[j]
      PROVE  R(f, i) = R(g, i)
  <2>1. CASE i \in ends \/ at[i] = {} BY <2>1 DEF ItemsAt
  <2>2. CASE ~(i \in ends \/ at[i] = {})
    <3> DEFINE t == CHOOSE t \in at[i] : TRUE
    <3>1. t \in at[i] BY <2>2
    <3>2. i + t.length \in (i + 1)..n BY <3>1 DEF Leads
    <3>3. f[i + t.length] = g[i + t.length] BY <1>1, <3>2
    <3> QED BY <2>2, <3>3, Zenon DEF ItemsAt
  <2> QED BY <2>1, <2>2
<1> HIDE DEF R
<1>2. ASSUME NEW k \in Nat, \A j \in 0..(k - 1) : j \in S
      PROVE  k \in S
  <2> SUFFICES ASSUME k <= n
               PROVE  \E f : f = [i \in (n - k + 1)..n |-> R(f, i)]
    OBVIOUS
  <2>1. CASE k = 0
    <3> DEFINE f == [i \in (n + 1)..n |-> 0]
    <3>1. (n - k + 1)..n = {} /\ (n + 1)..n = {} BY <2>1
    <3>2. f = [i \in {} |-> R(f, i)] BY <3>1
    <3> HIDE DEF f
    <3> QED BY <3>1, <3>2
  <2>2. CASE k > 0
    <3>0. k - 1 \in 0..(k - 1) /\ k - 1 <= n BY <2>2
    <3>1. k - 1 \in S BY <1>2, <3>0, Zenon
    <3>2. PICK h : h = [i \in (n - (k - 1) + 1)..n |-> R(h, i)]
      BY <3>0, <3>1, Zenon
    <3> DEFINE m == n - k + 1
               g == [i \in m..n |-> IF i = m THEN R(h, m) ELSE h[i]]
    <3>3. n - (k - 1) + 1 = m + 1 /\ m \in 1..n BY <2>2
    <3>4. g = [i \in m..n |-> g[i]] /\ g[m] = R(h, m)
      BY <3>3
    <3>5. \A i \in (m + 1)..n : i \in m..n /\ i # m /\ g[i] = h[i]
      BY <3>3
    <3>6. \A i \in (m + 1)..n : h[i] = R(h, i)
      BY <3>2, <3>3
    <3> HIDE DEF g, m
    <3>7. ASSUME NEW i \in m..n PROVE g[i] = R(g, i)
      <4>1. i \in 1..n /\ \A j \in (i + 1)..n : g[j] = h[j]
        BY <3>3, <3>5
      <4>2. R(g, i) = R(h, i) BY <4>1, <1>1
      <4>3. CASE i = m BY <4>2, <4>3, <3>4
      <4>4. CASE i # m
        <5>1. i \in (m + 1)..n BY <3>3, <4>4
        <5> QED BY <5>1, <4>2, <3>5, <3>6
      <4> QED BY <4>3, <4>4
    <3>8. g = [i \in m..n |-> R(g, i)] BY <3>4, <3>7
    <3> QED BY <3>8 DEF m
  <2> QED BY <2>1, <2>2
<1> HIDE DEF S
<1>3. Nat \subseteq S BY <1>2, Induction
<1>4. n \in S BY <1>3
<1>5. \E f : f = [i \in (n - n + 1)..n |-> R(f, i)] BY <1>4 DEF S
<1>6. n - n + 1 = 1 OBVIOUS
<1> QED BY <1>5, <1>6 DEF R, AreItems

(* What Items says.                                                        *)
LEMMA ItemsAre ==
  ASSUME NEW n \in Nat, NEW at, NEW ends, NEW none, Leads(at, ends, n),
         NEW i \in 1..n
  PROVE  Items(at, ends, none)[i]
           = ItemsAt(at, ends, none, Items(at, ends, none), i)
<1> DEFINE I == Items(at, ends, none)
<1>1. PICK f : AreItems(f, at, ends, none, n) BY ItemsExist
<1>2. f = [j \in DOMAIN at |-> ItemsAt(at, ends, none, f, j)]
  <2>1. DOMAIN at = 1..n BY ZenonT(60) DEF Leads
  <2> QED BY <1>1, <2>1, Zenon DEF AreItems
<1>3. I = [j \in DOMAIN at |-> ItemsAt(at, ends, none, I, j)]
  BY <1>2 DEF Items, ItemsAt
<1> QED BY <1>3 DEF Leads

ItemFirst(at, items, n) ==
  \A i \in 1..n : \A t \in at[i] : items[i] = <<t.item>> \o items[i + t.length]

LEMMA ItemsLead ==
  ASSUME NEW n \in Nat, NEW at, NEW ends, NEW none, Leads(at, ends, n)
  PROVE  ItemFirst(at, Items(at, ends, none), n)
<1> DEFINE I == Items(at, ends, none)
<1>1. \A i \in 1..n : I[i] = ItemsAt(at, ends, none, I, i) BY ItemsAre
<1> HIDE DEF I
<1>2. ASSUME NEW i \in 1..n, NEW t \in at[i]
      PROVE  I[i] = <<t.item>> \o I[i + t.length]
  <2>1. i \notin ends /\ at[i] # {} BY <1>2 DEF Leads
  <2>2. (CHOOSE u \in at[i] : TRUE) = t BY <1>2 DEF Leads
  <2>3. I[i] = ItemsAt(at, ends, none, I, i) BY <1>1
  <2> QED BY <2>1, <2>2, <2>3 DEF ItemsAt
<1>3. \A i \in 1..n : \A t \in at[i] : I[i] = <<t.item>> \o I[i + t.length]
  BY <1>2, Zenon
<1>4. ItemFirst(at, I, n) BY <1>3, Zenon DEF ItemFirst
<1> QED BY <1>4, Zenon DEF I

LEMMA ItemsEnd ==
  ASSUME NEW n \in Nat, NEW at, NEW ends, NEW none, Leads(at, ends, n),
         NEW i \in 1..n
  PROVE  /\ i \in ends => Items(at, ends, none)[i] = <<>>
         /\ i \notin ends /\ at[i] = {} => Items(at, ends, none)[i] = <<none>>
<1> DEFINE I == Items(at, ends, none)
<1>1. I[i] = ItemsAt(at, ends, none, I, i) BY ItemsAre
<1> HIDE DEF I
<1>2. /\ i \in ends => I[i] = <<>>
      /\ i \notin ends /\ at[i] = {} => I[i] = <<none>>
  BY <1>1 DEF ItemsAt
<1> QED BY <1>2, Zenon DEF I

(* The places b of a way through the items.                                *)
Way(at, b, items) ==
  /\ b \in Seq(Nat) /\ Len(b) = Len(items) + 1
  /\ \A k \in 1..Len(items) :
       b[k] \in DOMAIN at
         /\ \E t \in at[b[k]] : b[k + 1] = b[k] + t.length /\ items[k] = t.item

(* The items from place i to place j.                                      *)
Parse(at, i, j, items) ==
  \E b : Way(at, b, items) /\ b[1] = i /\ b[Len(b)] = j

Typed(at, S) == \A i \in DOMAIN at : \A t \in at[i] : t.item \in S

(* What Items gives is a sequence.                                         *)
LEMMA ItemsType ==
  ASSUME NEW n \in Nat, NEW at, NEW ends, NEW S, NEW none \in S,
         Leads(at, ends, n), Typed(at, S), NEW i \in 1..n
  PROVE  Items(at, ends, none)[i] \in Seq(S)
<1> DEFINE I == Items(at, ends, none)
<1>1. \A m \in 1..n : /\ m \in ends => I[m] = <<>>
                      /\ m \notin ends /\ at[m] = {} => I[m] = <<none>>
  BY ItemsEnd
<1>a. ItemFirst(at, I, n) BY ItemsLead, Zenon
<1>2. \A m \in 1..n : \A t \in at[m] : I[m] = <<t.item>> \o I[m + t.length]
  BY <1>a, Zenon DEF ItemFirst
<1> HIDE DEF I
<1> DEFINE K == {k \in Nat : k < n => I[n - k] \in Seq(S)}
<1>3. ASSUME NEW k \in Nat, \A j \in 0..(k - 1) : j \in K
      PROVE  k \in K
  <2> SUFFICES ASSUME k < n PROVE I[n - k] \in Seq(S)
    OBVIOUS
  <2>1. PICK m \in 1..n : m = n - k OBVIOUS
  <2>2. CASE m \in ends \/ at[m] = {}
    <3>1. <<>> \in Seq(S) OBVIOUS
    <3>4. <<none>> \in Seq(S) OBVIOUS
    <3>2. m \in ends => I[m] = <<>> BY <1>1
    <3>3. m \notin ends => I[m] = <<none>> BY <2>2, <1>1, Zenon
    <3>5. I[m] \in Seq(S) BY <3>1, <3>2, <3>3, <3>4, Zenon
    <3> QED BY <2>1, <3>5
  <2>3. CASE ~(m \in ends \/ at[m] = {})
    <3>1. PICK t \in at[m] : TRUE BY <2>3
    <3>2. t.length \in Nat /\ t.length > 0 /\ m + t.length <= n /\ t.item \in S
      BY <2>1 DEF Leads, Typed
    <3>3. k - t.length \in 0..(k - 1) /\ k - t.length < n
          /\ n - (k - t.length) = m + t.length
      BY <2>1, <3>2
    <3>4. I[m + t.length] \in Seq(S) BY <1>3, <3>3
    <3>5. I[m] = <<t.item>> \o I[m + t.length] BY <3>1, <1>2
    <3> QED BY <2>1, <3>2, <3>4, <3>5
  <2> QED BY <2>2, <2>3
<1> HIDE DEF K
<1>4. Nat \subseteq K BY <1>3, Induction
<1>5. n - i \in K /\ n - i < n /\ n - (n - i) = i BY <1>4
<1>6. I[i] \in Seq(S) BY <1>5 DEF K
<1> QED BY <1>6 DEF I

(* A way of no item.                                                       *)
LEMMA ParseNone ==
  ASSUME NEW at, NEW i \in Nat
  PROVE  Parse(at, i, i, <<>>)
<1> DEFINE b == <<i>>
<1>1. b \in Seq(Nat) /\ Len(b) = 1 /\ b[1] = i OBVIOUS
<1>2. Len(<<>>) = 0 OBVIOUS
<1> HIDE DEF b
<1>3. Way(at, b, <<>>) BY <1>1, <1>2 DEF Way
<1> QED BY <1>1, <1>3 DEF Parse

(* An item more.                                                           *)
LEMMA WayAppend ==
  ASSUME NEW S, NEW at, NEW b, NEW items \in Seq(S), Way(at, b, items),
         NEW j, j = b[Len(b)], j \in DOMAIN at,
         NEW t \in at[j], t.length \in Nat, t.item \in S
  PROVE  /\ Way(at, Append(b, j + t.length), Append(items, t.item))
         /\ Append(b, j + t.length)[1] = b[1]
         /\ Append(b, j + t.length)[Len(b) + 1] = j + t.length
<1> DEFINE c == Append(b, j + t.length)
           its == Append(items, t.item)
<1>1. b \in Seq(Nat) /\ Len(b) = Len(items) + 1 /\ Len(items) \in Nat
  BY DEF Way
<1>2. j \in Nat BY <1>1
<1>3. /\ c \in Seq(Nat) /\ Len(c) = Len(b) + 1
      /\ \A k \in 1..Len(b) : c[k] = b[k]
      /\ c[Len(b) + 1] = j + t.length
  BY <1>1, <1>2
<1>4. /\ its \in Seq(S) /\ Len(its) = Len(items) + 1
      /\ \A k \in 1..Len(items) : its[k] = items[k]
      /\ its[Len(items) + 1] = t.item
  OBVIOUS
<1> HIDE DEF c, its
<1>5. ASSUME NEW k \in 1..Len(its)
      PROVE  c[k] \in DOMAIN at
               /\ \E u \in at[c[k]] : c[k + 1] = c[k] + u.length /\ its[k] = u.item
  <2>1. CASE k <= Len(items)
    <3>1. k \in 1..Len(items) /\ k \in 1..Len(b) /\ k + 1 \in 1..Len(b)
      BY <1>1, <2>1
    <3>2. c[k] = b[k] /\ c[k + 1] = b[k + 1] /\ its[k] = items[k]
      BY <3>1, <1>3, <1>4
    <3> QED BY <3>1, <3>2 DEF Way
  <2>2. CASE k = Len(items) + 1
    <3>1. k = Len(b) /\ k \in 1..Len(b) BY <1>1, <2>2
    <3>2. c[k] = j /\ c[k + 1] = j + t.length /\ its[k] = t.item
      BY <3>1, <1>3, <1>4, <2>2
    <3> QED BY <3>2
  <2> QED BY <2>1, <2>2, <1>1, <1>4
<1>6. Way(at, c, its) BY <1>1, <1>3, <1>4, <1>5 DEF Way
<1>7. c[1] = b[1] BY <1>1, <1>3
<1> QED BY <1>6, <1>7, <1>3 DEF c, its

(* So for the items between two places.                                    *)
LEMMA ParseAppend ==
  ASSUME NEW S, NEW at, NEW items \in Seq(S), NEW i, NEW j, j \in DOMAIN at,
         Parse(at, i, j, items),
         NEW t \in at[j], t.length \in Nat, t.item \in S
  PROVE  Parse(at, i, j + t.length, Append(items, t.item))
<1>1. PICK b : Way(at, b, items) /\ b[1] = i /\ b[Len(b)] = j BY DEF Parse
<1> DEFINE c == Append(b, j + t.length)
<1>2. Way(at, c, Append(items, t.item)) /\ c[1] = i /\ c[Len(b) + 1] = j + t.length
  BY <1>1, WayAppend
<1>3. Len(c) = Len(b) + 1 BY <1>1 DEF Way
<1> QED BY <1>2, <1>3 DEF Parse

(* A way never leaves the places there are.                                *)
LEMMA WayRange ==
  ASSUME NEW n \in Nat, NEW at, NEW ends, Leads(at, ends, n),
         NEW S, NEW items \in Seq(S),
         NEW b, Way(at, b, items), b[1] \in 1..n
  PROVE  /\ Len(b) \in Nat /\ Len(b) = Len(items) + 1
         /\ \A k \in 1..Len(b) : b[k] \in 1..n
         /\ \A k \in 1..Len(items) : b[k] < b[k + 1]
<1>1. b \in Seq(Nat) /\ Len(b) = Len(items) + 1 /\ Len(items) \in Nat
      /\ DOMAIN at = 1..n
  BY DEF Way, Leads
<1>2. ASSUME NEW k \in 1..Len(items)
      PROVE  b[k] \in 1..n /\ b[k] < b[k + 1] /\ b[k + 1] \in 1..n
  <2>1. PICK t \in at[b[k]] : b[k + 1] = b[k] + t.length BY DEF Way
  <2>2. b[k] \in 1..n BY <1>1 DEF Way
  <2>3. t.length \in Nat /\ t.length > 0 /\ b[k] + t.length <= n
    BY <2>2 DEF Leads
  <2> QED BY <2>1, <2>2, <2>3
<1>3. ASSUME NEW k \in 1..Len(b) PROVE b[k] \in 1..n
  <2>1. CASE k = 1 BY <2>1
  <2>2. CASE k > 1
    <3>1. k - 1 \in 1..Len(items) /\ (k - 1) + 1 = k BY <1>1, <2>2
    <3> QED BY <3>1, <1>2
  <2> QED BY <2>1, <2>2
<1> QED BY <1>1, <1>2, <1>3

(* So for the place it leads to.                                           *)
LEMMA ParseRange ==
  ASSUME NEW n \in Nat, NEW at, NEW ends, Leads(at, ends, n),
         NEW S, NEW items \in Seq(S),
         NEW i \in 1..n, NEW j, Parse(at, i, j, items)
  PROVE  j \in 1..n
<1>1. PICK b : Way(at, b, items) /\ b[1] = i /\ b[Len(b)] = j BY DEF Parse
<1>2. Len(b) \in 1..Len(b) BY <1>1, WayRange
<1> QED BY <1>1, <1>2, WayRange

(* The items of a way are the first of Items.                              *)
LEMMA ParseItems ==
  ASSUME NEW n \in Nat, NEW at, NEW ends, NEW S, NEW none \in S,
         Leads(at, ends, n), Typed(at, S),
         NEW items \in Seq(S), NEW i \in 1..n, NEW j,
         Parse(at, i, j, items)
  PROVE  Items(at, ends, none)[i] = items \o Items(at, ends, none)[j]
<1> DEFINE I == Items(at, ends, none)
<1>0. \A k \in 1..n : I[k] \in Seq(S) BY ItemsType
<1>1. PICK b : Way(at, b, items) /\ b[1] = i /\ b[Len(b)] = j BY DEF Parse
<1>2. /\ Len(b) \in Nat /\ Len(b) = Len(items) + 1
      /\ \A k \in 1..Len(b) : b[k] \in 1..n
  BY <1>1, WayRange
<1>a. ItemFirst(at, I, n) BY ItemsLead, Zenon
<1>3. \A k \in 1..n : \A t \in at[k] : I[k] = <<t.item>> \o I[k + t.length]
  BY <1>a, Zenon DEF ItemFirst
<1> HIDE DEF I
<1> DEFINE K == {k \in Nat : k <= Len(items) =>
                   I[i] = SubSeq(items, 1, k) \o I[b[k + 1]]}
<1>4. ASSUME NEW k \in Nat, \A m \in 0..(k - 1) : m \in K
      PROVE  k \in K
  <2> SUFFICES ASSUME k <= Len(items)
               PROVE  I[i] = SubSeq(items, 1, k) \o I[b[k + 1]]
    OBVIOUS
  <2>1. CASE k = 0
    <3>1. SubSeq(items, 1, 0) = <<>> OBVIOUS
    <3>2. I[i] = <<>> \o I[i] BY <1>0
    <3>3. b[k + 1] = i BY <2>1, <1>1
    <3> QED BY <2>1, <3>1, <3>2, <3>3
  <2>2. CASE k > 0
    <3>1. k - 1 \in 0..(k - 1) /\ k - 1 <= Len(items) /\ (k - 1) + 1 = k
          /\ k \in 1..Len(items) /\ k \in 1..Len(b) /\ k + 1 \in 1..Len(b)
      BY <1>2, <2>2
    <3>2. I[i] = SubSeq(items, 1, k - 1) \o I[b[k]] BY <3>1, <1>4
    <3>3. PICK t \in at[b[k]] : b[k + 1] = b[k] + t.length /\ items[k] = t.item
      BY <3>1, <1>1 DEF Way
    <3>4. I[b[k]] = <<items[k]>> \o I[b[k + 1]] BY <3>1, <3>3, <1>2, <1>3
    <3>5. I[b[k + 1]] \in Seq(S) /\ items[k] \in S BY <3>1, <1>0, <1>2
    <3> DEFINE p == SubSeq(items, 1, k - 1)
    <3>6. p \in Seq(S) /\ <<items[k]>> \in Seq(S) BY <3>1, <3>5
    <3>7. SubSeq(items, 1, k) = p \o <<items[k]>>
      <4>1. Len(p) = k - 1 /\ \A m \in 1..(k - 1) : p[m] = items[m] BY <3>1
      <4>2. SubSeq(items, 1, k) \in Seq(S) /\ Len(SubSeq(items, 1, k)) = k
            /\ \A m \in 1..k : SubSeq(items, 1, k)[m] = items[m]
        BY <3>1
      <4>3. p \o <<items[k]>> \in Seq(S) /\ Len(p \o <<items[k]>>) = k
            /\ \A m \in 1..k : (p \o <<items[k]>>)[m] = items[m]
        BY <4>1, <3>6, <3>1
      <4> HIDE DEF p
      <4> QED BY <4>2, <4>3, SeqEqual
    <3> HIDE DEF p
    <3>8. \A x \in Seq(S) : p \o (<<items[k]>> \o x) = (p \o <<items[k]>>) \o x
      BY <3>6, ConcatAssociative, SMTT(60)
    <3>9. p \o (<<items[k]>> \o I[b[k + 1]]) = (p \o <<items[k]>>) \o I[b[k + 1]]
      BY <3>5, <3>8
    <3>10. I[i] = p \o (<<items[k]>> \o I[b[k + 1]]) BY <3>2, <3>4 DEF p
    <3> QED BY <3>7, <3>9, <3>10, Zenon
  <2>3. k = 0 \/ k > 0 OBVIOUS
  <2> QED BY <2>1, <2>2, <2>3, Zenon
<1> HIDE DEF K
<1>5. Nat \subseteq K BY <1>4, Induction
<1>6. I[i] = SubSeq(items, 1, Len(items)) \o I[b[Len(items) + 1]]
  <2>1. Len(items) \in K /\ Len(items) <= Len(items) BY <1>5
  <2> QED BY <2>1, Zenon DEF K
<1>7. SubSeq(items, 1, Len(items)) = items OBVIOUS
<1> QED BY <1>1, <1>2, <1>6, <1>7 DEF I

(* A way that ends where nothing leads on is the only one that does.       *)
LEMMA ParseUnique ==
  ASSUME NEW n \in Nat, NEW at, NEW ends, NEW S,
         Leads(at, ends, n), NEW i \in 1..n, NEW j, NEW e,
         NEW a \in Seq(S), NEW c \in Seq(S),
         Parse(at, i, j, a), Parse(at, i, e, c), at[j] = {}, at[e] = {}
  PROVE  j = e /\ a = c
<1>1. PICK b : Way(at, b, a) /\ b[1] = i /\ b[Len(b)] = j BY DEF Parse
<1>2. PICK d : Way(at, d, c) /\ d[1] = i /\ d[Len(d)] = e BY DEF Parse
<1>3. /\ Len(b) \in Nat /\ Len(b) = Len(a) + 1 /\ Len(a) \in Nat
      /\ \A k \in 1..Len(b) : b[k] \in 1..n
  BY <1>1, WayRange
<1>4. /\ Len(d) \in Nat /\ Len(d) = Len(c) + 1 /\ Len(c) \in Nat
      /\ \A k \in 1..Len(d) : d[k] \in 1..n
  BY <1>2, WayRange
<1> DEFINE K == {k \in Nat : k <= Len(a) =>
                   k <= Len(c) /\ b[k + 1] = d[k + 1]
                   /\ (k > 0 => a[k] = c[k])}
<1>5. ASSUME NEW k \in Nat, \A m \in 0..(k - 1) : m \in K
      PROVE  k \in K
  <2> SUFFICES ASSUME k <= Len(a)
               PROVE  k <= Len(c) /\ b[k + 1] = d[k + 1]
                      /\ (k > 0 => a[k] = c[k])
    OBVIOUS
  <2>1. CASE k = 0 BY <2>1, <1>1, <1>2, <1>4
  <2>2. CASE k > 0
    <3>1. k - 1 \in 0..(k - 1) /\ k - 1 <= Len(a) /\ (k - 1) + 1 = k
          /\ k \in 1..Len(a) /\ k \in 1..Len(b)
      BY <1>3, <2>2
    <3>2. k - 1 <= Len(c) /\ b[k] = d[k] BY <3>1, <1>5
    <3>3. PICK t \in at[b[k]] : b[k + 1] = b[k] + t.length /\ a[k] = t.item
      BY <3>1, <1>1 DEF Way
    <3>4. k <= Len(c)
      <4> SUFFICES ASSUME k > Len(c) PROVE FALSE BY <1>4
      <4>1. k = Len(d) BY <3>2, <1>4
      <4>2. at[b[k]] = {} BY <4>1, <3>2, <1>2
      <4> QED BY <4>2, <3>3
    <3>5. k \in 1..Len(c) BY <3>1, <3>4
    <3>6. PICK u \in at[d[k]] : d[k + 1] = d[k] + u.length /\ c[k] = u.item
      BY <3>5, <1>2 DEF Way
    <3>7. t = u BY <3>1, <3>2, <3>3, <3>6, <1>3 DEF Leads
    <3> QED BY <3>2, <3>3, <3>4, <3>6, <3>7
  <2> QED BY <2>1, <2>2
<1> HIDE DEF K
<1>6. Nat \subseteq K BY <1>5, Induction
<1>7. ASSUME NEW k \in 0..Len(a)
      PROVE  k <= Len(c) /\ b[k + 1] = d[k + 1] /\ (k > 0 => a[k] = c[k])
  <2>1. k \in K BY <1>6
  <2> QED BY <2>1 DEF K
<1>8. Len(a) <= Len(c) /\ j = d[Len(a) + 1] BY <1>1, <1>3, <1>7
<1>9. Len(a) = Len(c)
  <2> SUFFICES ASSUME Len(a) + 1 \in 1..Len(c) PROVE FALSE
    BY <1>3, <1>4, <1>8
  <2>1. PICK u \in at[d[Len(a) + 1]] : TRUE BY <1>2 DEF Way
  <2> QED BY <2>1, <1>8
<1>10. j = e BY <1>2, <1>4, <1>8, <1>9
<1>11. a = c
  <2>1. \A k \in 1..Len(a) : a[k] = c[k] BY <1>7, <1>3
  <2> QED BY <2>1, <1>9, SeqEqual
<1> QED BY <1>10, <1>11

(* There is one from every place.                                          *)
LEMMA ParseExists ==
  ASSUME NEW n \in Nat, NEW at, NEW ends, NEW S,
         Leads(at, ends, n), Typed(at, S), NEW i \in 1..n
  PROVE  \E j \in 1..n : \E items \in Seq(S) :
           Parse(at, i, j, items) /\ at[j] = {}
<1> DEFINE K == {k \in Nat : \E j \in 1..n : \E items \in Seq(S) :
                   Parse(at, i, j, items) /\ (at[j] = {} \/ j >= i + k)}
<1>1. ASSUME NEW k \in Nat, \A m \in 0..(k - 1) : m \in K
      PROVE  k \in K
  <2>1. CASE k = 0
    <3>1. Parse(at, i, i, <<>>) /\ <<>> \in Seq(S) BY ParseNone
    <3>2. i >= i + k BY <2>1
    <3> QED BY <3>1, <3>2
  <2>2. CASE k > 0
    <3>1. k - 1 \in 0..(k - 1) BY <2>2
    <3>2. k - 1 \in K BY <3>1, <1>1
    <3>3. PICK j \in 1..n, items \in Seq(S) :
            Parse(at, i, j, items) /\ (at[j] = {} \/ j >= i + (k - 1))
      BY <3>2
    <3>4. CASE at[j] = {} BY <3>3, <3>4
    <3>5. CASE at[j] # {}
      <4>1. PICK t \in at[j] : TRUE BY <3>5
      <4>2. t.length \in Nat /\ t.length > 0 /\ j + t.length <= n
        BY DEF Leads
      <4>3. t.item \in S /\ j \in DOMAIN at BY DEF Typed, Leads
      <4>4. Parse(at, i, j + t.length, Append(items, t.item))
        BY <3>3, <4>2, <4>3, ParseAppend
      <4>5. j + t.length \in 1..n /\ j + t.length >= i + k
        BY <3>3, <3>5, <4>2
      <4>6. Append(items, t.item) \in Seq(S) BY <4>3
      <4> QED BY <4>4, <4>5, <4>6
    <3> QED BY <3>4, <3>5
  <2> QED BY <2>1, <2>2
<1> HIDE DEF K
<1>2. Nat \subseteq K BY <1>1, Induction
<1>3. n \in K BY <1>2
<1> QED BY <1>3 DEF K

(***************************************************************************)
(* Sequences of UTF-8, byte by byte.                                       *)
(***************************************************************************)
(* Quotients and remainders of what is put together from six bits each.    *)
LEMMA SixBits ==
  ASSUME NEW q \in Nat, NEW r \in 0..63
  PROVE  (q * 64 + r) \div 64 = q /\ (q * 64 + r) % 64 = r
OBVIOUS

LEMMA TwelveBits ==
  ASSUME NEW q \in Nat, NEW r \in Nat, r < 4096
  PROVE  (q * 4096 + r) \div 4096 = q
OBVIOUS

LEMMA EighteenBits ==
  ASSUME NEW q \in Nat, NEW r \in Nat, r < 262144
  PROVE  (q * 262144 + r) \div 262144 = q
BY SMT

(* The bits of the bytes of a sequence.                                    *)
LEMMA LowBits ==
  /\ \A x \in 128..191 : x % 64 = x - 128
  /\ \A x \in 192..223 : x % 32 = x - 192
  /\ \A x \in 224..239 : x % 16 = x - 224
  /\ \A x \in 240..247 : x % 8 = x - 240
OBVIOUS

LEMMA TailByte ==
  ASSUME NEW c \in Nat, NEW r, c % 64 = r PROVE Tail6(c) = 128 + r
BY Zenon DEF Tail6

(* The bytes of a code point.                                              *)
LEMMA Utf8Bytes ==
  ASSUME NEW c \in Nat
  PROVE  /\ Tail6(c) \in 128..191 /\ Tail6(c) = 128 + (c % 64)
         /\ c < 128 => Utf8(c) = <<c>>
         /\ 128 <= c /\ c < 2048 => Utf8(c) = <<192 + (c \div 64), Tail6(c)>>
         /\ 2048 <= c /\ c < 65536 =>
              Utf8(c) = <<224 + (c \div 4096), Tail6(c \div 64), Tail6(c)>>
         /\ 65536 <= c =>
              Utf8(c) = <<240 + (c \div 262144), Tail6(c \div 4096),
                          Tail6(c \div 64), Tail6(c)>>
<1>0. c % 64 \in 0..63 OBVIOUS
<1>1. Tail6(c) \in 128..191 /\ Tail6(c) = 128 + (c % 64) BY <1>0 DEF Tail6
<1>2. c < 128 => Utf8(c) = <<c>> BY SMT DEF Utf8
<1>3. 128 <= c /\ c < 2048 => Utf8(c) = <<192 + (c \div 64), Tail6(c)>>
  BY SMT DEF Utf8
<1>4. 2048 <= c /\ c < 65536 =>
              Utf8(c) = <<224 + (c \div 4096), Tail6(c \div 64), Tail6(c)>>
  BY SMT DEF Utf8
<1>5. 65536 <= c =>
              Utf8(c) = <<240 + (c \div 262144), Tail6(c \div 4096),
                          Tail6(c \div 64), Tail6(c)>>
  BY SMT DEF Utf8
<1> QED BY <1>1, <1>2, <1>3, <1>4, <1>5, SMT

(* Two numbers are equal, or their parts are not.                          *)
Two(a, b) == (a % 32) * 64 + (b % 64)
Three(a, b, c) == (a % 16) * 4096 + (b % 64) * 64 + (c % 64)
Four(a, b, c, d) ==
  (a % 8) * 262144 + (b % 64) * 4096 + (c % 64) * 64 + (d % 64)

(* The bytes that are a sequence.                                          *)
IsTwo(a, b) == a \in 192..223 /\ b \in 128..191 /\ Two(a, b) >= 128
IsThree(a, b, c) ==
  /\ a \in 224..239 /\ b \in 128..191 /\ c \in 128..191
  /\ Three(a, b, c) >= 2048
IsFour(a, b, c, d) ==
  /\ a \in 240..244 /\ b \in 128..191 /\ c \in 128..191 /\ d \in 128..191
  /\ Four(a, b, c, d) >= 65536 /\ Four(a, b, c, d) <= MaxPoint

(* The length of the sequence of a code point.                             *)
LEMMA Utf8Length ==
  ASSUME NEW c \in Nat
  PROVE  /\ c < 128 => Len(Utf8(c)) = 1
         /\ 128 <= c /\ c < 2048 => Len(Utf8(c)) = 2
         /\ 2048 <= c /\ c < 65536 => Len(Utf8(c)) = 3
         /\ 65536 <= c => Len(Utf8(c)) = 4
         /\ Len(Utf8(c)) \in 1..4
<1>1. c < 128 => Len(Utf8(c)) = 1 BY Utf8Bytes, SMT
<1>2. 128 <= c /\ c < 2048 => Len(Utf8(c)) = 2 BY Utf8Bytes, SMT
<1>3. 2048 <= c /\ c < 65536 => Len(Utf8(c)) = 3 BY Utf8Bytes, SMT
<1>4. 65536 <= c => Len(Utf8(c)) = 4 BY Utf8Bytes, SMT
<1>5. c < 128 \/ (128 <= c /\ c < 2048) \/ (2048 <= c /\ c < 65536) \/ 65536 <= c
  BY SMT
<1>6. Len(Utf8(c)) \in 1..4 BY <1>1, <1>2, <1>3, <1>4, <1>5, SMT
<1> QED BY <1>1, <1>2, <1>3, <1>4, <1>6, SMT

(* One byte.                                                               *)
LEMMA OneByte ==
  ASSUME NEW a \in 0..255
  PROVE  Guess(<<a>>) = a /\ (IsSequence(<<a>>) <=> a < 128)
<1>1. Guess(<<a>>) = a BY DEF Guess
<1>2. a <= MaxPoint BY SMT DEF MaxPoint
<1>3. IsSequence(<<a>>) <=> Utf8(a) = <<a>>
  BY <1>1, <1>2, Zenon DEF IsSequence
<1>4. a < 128 => Utf8(a) = <<a>> BY Utf8Bytes, SMT
<1>5. ~(a < 128) => Len(Utf8(a)) # 1 BY Utf8Length, SMT
<1>6. Len(<<a>>) = 1 OBVIOUS
<1>7. Utf8(a) = <<a>> <=> a < 128 BY <1>4, <1>5, <1>6, Zenon
<1> QED BY <1>1, <1>3, <1>7, Zenon

(* Two bytes.                                                              *)
LEMMA TwoBytes ==
  ASSUME NEW a \in 0..255, NEW b \in 0..255
  PROVE  /\ Guess(<<a, b>>) = Two(a, b) /\ Two(a, b) \in Nat
         /\ IsSequence(<<a, b>>) <=> IsTwo(a, b)
<1> DEFINE p == a % 32
           q == b % 64
           g == Two(a, b)
<1>1. p \in 0..31 /\ q \in 0..63 OBVIOUS
<1>2. g = p * 64 + q BY DEF Two
<1>3. 192 + p = a <=> a \in 192..223 OBVIOUS
<1>4. 128 + q = b <=> b \in 128..191 OBVIOUS
<1>5. Guess(<<a, b>>) = g BY DEF Guess, Two
<1> HIDE DEF p, q, g
<1>6. g \in Nat /\ g < 2048 BY <1>1, <1>2
<1>7. g \div 64 = p /\ g % 64 = q
  <2>1. p \in Nat BY <1>1
  <2>2. (p * 64 + q) \div 64 = p /\ (p * 64 + q) % 64 = q
    BY <2>1, <1>1, SixBits, ZenonT(60)
  <2> QED BY <2>2, <1>2
<1>8. g <= MaxPoint BY <1>6, SMT DEF MaxPoint
<1>9. IsSequence(<<a, b>>) <=> Utf8(g) = <<a, b>>
  BY <1>5, <1>8, Zenon DEF IsSequence
<1>10. g < 128 => Utf8(g) # <<a, b>>
  <2>1. g < 128 => Len(Utf8(g)) = 1 BY <1>6, Utf8Length
  <2>2. Len(<<a, b>>) = 2 OBVIOUS
  <2> QED BY <2>1, <2>2
<1>11. g >= 128 => Utf8(g) = <<192 + p, 128 + q>>
  <2>1. Tail6(g) = 128 + q BY <1>6, <1>7, Utf8Bytes
  <2>2. g >= 128 => Utf8(g) = <<192 + (g \div 64), Tail6(g)>>
    BY <1>6, Utf8Bytes, SMT
  <2> QED BY <2>1, <2>2, <1>7
<1>12. <<192 + p, 128 + q>> = <<a, b>> <=> 192 + p = a /\ 128 + q = b
  OBVIOUS
<1>13. Utf8(g) = <<a, b>> <=> a \in 192..223 /\ b \in 128..191 /\ g >= 128
  <2>1. g < 128 \/ g >= 128 BY <1>6
  <2>2. ~(g < 128 /\ g >= 128) BY <1>6
  <2>3. CASE g < 128
    <3>1. ~(g >= 128) BY <2>3, <2>2
    <3> QED BY <1>10, <2>3, <3>1, Zenon
  <2>4. CASE g >= 128
    <3>1. Utf8(g) = <<192 + p, 128 + q>> BY <2>4, <1>11, Zenon
    <3>2. Utf8(g) = <<a, b>> <=> 192 + p = a /\ 128 + q = b
      BY <3>1, <1>12, Zenon
    <3> QED BY <3>2, <2>4, <1>3, <1>4, Zenon
  <2> QED BY <2>1, <2>3, <2>4, Zenon
<1>14. IsTwo(a, b) <=> a \in 192..223 /\ b \in 128..191 /\ g >= 128
  BY Zenon DEF IsTwo, g
<1>15. IsSequence(<<a, b>>) <=> IsTwo(a, b) BY <1>9, <1>13, <1>14, Zenon
<1> QED BY <1>5, <1>6, <1>15 DEF g

(* Three bytes.                                                            *)
LEMMA ThreeBytes ==
  ASSUME NEW a \in 0..255, NEW b \in 0..255, NEW c \in 0..255
  PROVE  /\ Guess(<<a, b, c>>) = Three(a, b, c) /\ Three(a, b, c) \in Nat
         /\ IsSequence(<<a, b, c>>) <=> IsThree(a, b, c)
<1> DEFINE p == a % 16
           q == b % 64
           r == c % 64
           g == Three(a, b, c)
<1>1. p \in 0..15 /\ q \in 0..63 /\ r \in 0..63 OBVIOUS
<1>2. g = p * 4096 + q * 64 + r BY SMT DEF Three
<1>3. 224 + p = a <=> a \in 224..239 OBVIOUS
<1>4. 128 + q = b <=> b \in 128..191 OBVIOUS
<1>5. 128 + r = c <=> c \in 128..191 OBVIOUS
<1>6. Guess(<<a, b, c>>) = g BY SMT DEF Guess, Three
<1> HIDE DEF p, q, r, g
<1>7. g \in Nat /\ g < 65536 BY <1>1, <1>2, SMT
<1>8. g \div 4096 = p /\ g \div 64 \in Nat /\ (g \div 64) % 64 = q
      /\ g % 64 = r
  <2>1. g = (p * 64 + q) * 64 + r /\ p * 64 + q \in Nat BY <1>1, <1>2, SMT
  <2>2. g = p * 4096 + (q * 64 + r) /\ q * 64 + r \in Nat /\ q * 64 + r < 4096
    BY <1>1, <1>2, SMT
  <2>3. g \div 4096 = p BY <1>1, <2>2, TwelveBits, SMT
  <2>4. g \div 64 = p * 64 + q /\ g % 64 = r BY <1>1, <2>1, SixBits, SMT
  <2>5. (p * 64 + q) % 64 = q
    <3>1. p \in Nat BY <1>1
    <3> QED BY <3>1, <1>1, SixBits
  <2> QED BY <2>1, <2>3, <2>4, <2>5
<1>9. g <= MaxPoint BY <1>7, SMT DEF MaxPoint
<1>10. IsSequence(<<a, b, c>>) <=> Utf8(g) = <<a, b, c>>
  BY <1>6, <1>9, Zenon DEF IsSequence
<1>11. g < 2048 => Utf8(g) # <<a, b, c>>
  <2>1. g < 2048 => Len(Utf8(g)) # 3 BY <1>7, Utf8Length, SMT
  <2>2. Len(<<a, b, c>>) = 3 OBVIOUS
  <2> QED BY <2>1, <2>2
<1>12. g >= 2048 => Utf8(g) = <<224 + p, 128 + q, 128 + r>>
  <2>1. Tail6(g \div 64) = 128 + q /\ Tail6(g) = 128 + r
    BY <1>7, <1>8, TailByte, SMT
  <2>2. g >= 2048 =>
          Utf8(g) = <<224 + (g \div 4096), Tail6(g \div 64), Tail6(g)>>
    BY <1>7, Utf8Bytes, SMT
  <2> QED BY <2>1, <2>2, <1>8
<1>13. <<224 + p, 128 + q, 128 + r>> = <<a, b, c>>
         <=> 224 + p = a /\ 128 + q = b /\ 128 + r = c
  OBVIOUS
<1>14. Utf8(g) = <<a, b, c>> <=>
         a \in 224..239 /\ b \in 128..191 /\ c \in 128..191 /\ g >= 2048
  <2>1. ~(g < 2048) <=> g >= 2048 BY <1>7
  <2>2. CASE g < 2048 BY <2>1, <2>2, <1>11
  <2>3. CASE g >= 2048
    <3>1. Utf8(g) = <<a, b, c>> <=> 224 + p = a /\ 128 + q = b /\ 128 + r = c
      BY <2>3, <1>12, <1>13
    <3> QED BY <2>3, <3>1, <1>3, <1>4, <1>5
  <2> QED BY <2>1, <2>2, <2>3
<1>15. IsThree(a, b, c) <=>
         a \in 224..239 /\ b \in 128..191 /\ c \in 128..191 /\ g >= 2048
  BY Zenon DEF IsThree, g
<1>16. IsSequence(<<a, b, c>>) <=> IsThree(a, b, c)
  BY <1>10, <1>14, <1>15, SMT
<1> QED BY <1>6, <1>7, <1>16 DEF g

(* Four bytes.                                                             *)
LEMMA FourBytes ==
  ASSUME NEW a \in 0..255, NEW b \in 0..255, NEW c \in 0..255, NEW d \in 0..255
  PROVE  /\ Guess(<<a, b, c, d>>) = Four(a, b, c, d) /\ Four(a, b, c, d) \in Nat
         /\ IsSequence(<<a, b, c, d>>) <=> IsFour(a, b, c, d)
<1> DEFINE p == a % 8
           q == b % 64
           r == c % 64
           s == d % 64
           g == Four(a, b, c, d)
<1>1. p \in 0..7 /\ q \in 0..63 /\ r \in 0..63 /\ s \in 0..63 OBVIOUS
<1>2. g = p * 262144 + q * 4096 + r * 64 + s BY SMT DEF Four
<1>3. 240 + p = a <=> a \in 240..247 OBVIOUS
<1>4. 128 + q = b <=> b \in 128..191 OBVIOUS
<1>5. 128 + r = c <=> c \in 128..191 OBVIOUS
<1>6. 128 + s = d <=> d \in 128..191 OBVIOUS
<1>7. Guess(<<a, b, c, d>>) = g BY SMT DEF Guess, Four
<1>19. a \in 240..247 /\ p <= 4 <=> a \in 240..244 OBVIOUS
<1> HIDE DEF p, q, r, s, g
<1>8. g \in Nat /\ (g <= MaxPoint => p <= 4) BY <1>1, <1>2, SMT DEF MaxPoint
<1>9. /\ g \div 262144 = p
      /\ (g \div 4096) % 64 = q /\ g \div 4096 \in Nat
      /\ (g \div 64) % 64 = r /\ g \div 64 \in Nat
      /\ g % 64 = s
  <2>1. g = ((p * 64 + q) * 64 + r) * 64 + s /\ (p * 64 + q) * 64 + r \in Nat
    BY <1>1, <1>2, SMT
  <2>2. g = (p * 64 + q) * 4096 + (r * 64 + s) /\ r * 64 + s \in Nat
        /\ r * 64 + s < 4096 /\ p * 64 + q \in Nat
    BY <1>1, <1>2, SMT
  <2>3. g = p * 262144 + (q * 4096 + r * 64 + s)
        /\ q * 4096 + r * 64 + s \in Nat /\ q * 4096 + r * 64 + s < 262144
    BY <1>1, <1>2, SMT
  <2>4. g \div 262144 = p BY <1>1, <2>3, EighteenBits, SMT
  <2>5. g \div 4096 = p * 64 + q BY <1>1, <2>2, TwelveBits, SMT
  <2>6. g \div 64 = (p * 64 + q) * 64 + r /\ g % 64 = s
    <3> DEFINE t == (p * 64 + q) * 64 + r
    <3>1. t \in Nat /\ g = t * 64 + s BY <2>1
    <3> HIDE DEF t
    <3>2. (t * 64 + s) \div 64 = t /\ (t * 64 + s) % 64 = s
      BY <3>1, <1>1, SixBits, ZenonT(60)
    <3> QED BY <3>1, <3>2 DEF t
  <2>7. (p * 64 + q) % 64 = q /\ ((p * 64 + q) * 64 + r) % 64 = r
    BY <1>1, <2>2, SixBits, SMTT(60)
  <2> QED BY <2>1, <2>2, <2>4, <2>5, <2>6, <2>7
<1>10. IsSequence(<<a, b, c, d>>) <=> g <= MaxPoint /\ Utf8(g) = <<a, b, c, d>>
  BY <1>7, Zenon DEF IsSequence
<1>11. g < 65536 => Utf8(g) # <<a, b, c, d>>
  <2>1. g < 65536 => Len(Utf8(g)) # 4 BY <1>8, Utf8Length, SMT
  <2>2. Len(<<a, b, c, d>>) = 4 OBVIOUS
  <2> QED BY <2>1, <2>2, SMT
<1>12. g >= 65536 => Utf8(g) = <<240 + p, 128 + q, 128 + r, 128 + s>>
  <2>1. /\ Tail6(g \div 4096) = 128 + q
        /\ Tail6(g \div 64) = 128 + r /\ Tail6(g) = 128 + s
    BY <1>8, <1>9, TailByte, SMT
  <2>2. g >= 65536 =>
          Utf8(g) = <<240 + (g \div 262144), Tail6(g \div 4096),
                      Tail6(g \div 64), Tail6(g)>>
    BY <1>8, Utf8Bytes, SMT
  <2> QED BY <2>1, <2>2, <1>9, SMT
<1>13. <<240 + p, 128 + q, 128 + r, 128 + s>> = <<a, b, c, d>>
         <=> 240 + p = a /\ 128 + q = b /\ 128 + r = c /\ 128 + s = d
  OBVIOUS
<1>14. g \in Nat => (g < 65536 \/ g >= 65536) /\ ~(g < 65536 /\ g >= 65536)
  BY SMT
<1>15. Utf8(g) = <<a, b, c, d>> <=>
         /\ a \in 240..247 /\ b \in 128..191 /\ c \in 128..191 /\ d \in 128..191
         /\ g >= 65536
  BY <1>3, <1>4, <1>5, <1>6, <1>8, <1>11, <1>12, <1>13, <1>14, SMT
<1>16. IsFour(a, b, c, d) <=>
         /\ a \in 240..244 /\ b \in 128..191 /\ c \in 128..191 /\ d \in 128..191
         /\ g >= 65536 /\ g <= MaxPoint
  BY SMT DEF IsFour, g
<1>17. IsSequence(<<a, b, c, d>>) <=> IsFour(a, b, c, d)
  BY <1>8, <1>10, <1>15, <1>16, <1>19, SMT
<1> QED BY <1>7, <1>8, <1>17, Zenon DEF g

(* None is longer.                                                         *)
LEMMA MoreBytes ==
  ASSUME NEW x \in Seq(Byte), Len(x) > 4 PROVE ~IsSequence(x)
<1>0. \A k \in 1..Len(x) : x[k] \in 0..255 BY ElementOfSeq DEF Byte
<1>1. 1 \in 1..Len(x) /\ 2 \in 1..Len(x) /\ 3 \in 1..Len(x) /\ 4 \in 1..Len(x)
  OBVIOUS
<1>2. x[1] \in 0..255 /\ x[2] \in 0..255 /\ x[3] \in 0..255 /\ x[4] \in 0..255
  BY <1>0, <1>1, Zenon
<1>3. Guess(x) = Four(x[1], x[2], x[3], x[4]) BY SMT DEF Guess, Four
<1>4. Four(x[1], x[2], x[3], x[4]) \in Nat BY <1>2, FourBytes, Zenon
<1>5. Guess(x) \in Nat BY <1>3, <1>4, Zenon
<1> DEFINE g == Guess(x)
<1> HIDE DEF g
<1>6. Len(Utf8(g)) \in 1..4 BY <1>5, Utf8Length DEF g
<1>7. Len(x) \notin 1..4
  <2>1. Len(x) > 4 BY Zenon
  <2>2. Len(x) \in Nat BY LenProperties, Zenon
  <2>3. \A n \in Nat : n > 4 => n \notin 1..4 OBVIOUS
  <2> QED BY <2>1, <2>2, <2>3, Zenon
<1>8. Utf8(g) # x BY <1>6, <1>7, Zenon
<1> QED BY <1>8, Zenon DEF IsSequence, g

(***************************************************************************)
(* The places of a text where a sequence, or a character, begins.          *)
(***************************************************************************)
(* A text ends with a null byte.                                           *)
ByteAt(s, i) == IF i <= Len(s) THEN s[i] ELSE 0

(* n bytes from place i on are the sequence of code point p.               *)
SequenceForm(s, i, n, p) ==
  \/ n = 1 /\ i <= Len(s) /\ ByteAt(s, i) < 128 /\ p = ByteAt(s, i)
  \/ /\ n = 2 /\ IsTwo(ByteAt(s, i), ByteAt(s, i + 1))
     /\ p = Two(ByteAt(s, i), ByteAt(s, i + 1))
  \/ /\ n = 3 /\ IsThree(ByteAt(s, i), ByteAt(s, i + 1), ByteAt(s, i + 2))
     /\ p = Three(ByteAt(s, i), ByteAt(s, i + 1), ByteAt(s, i + 2))
  \/ /\ n = 4
     /\ IsFour(ByteAt(s, i), ByteAt(s, i + 1), ByteAt(s, i + 2), ByteAt(s, i + 3))
     /\ p = Four(ByteAt(s, i), ByteAt(s, i + 1), ByteAt(s, i + 2),
                 ByteAt(s, i + 3))

LEMMA ByteAtType ==
  ASSUME NEW s \in Seq(Byte), NEW i \in Nat \ {0}
  PROVE  /\ ByteAt(s, i) \in 0..255
         /\ ByteAt(s, i) # 0 => i <= Len(s)
         /\ i <= Len(s) => ByteAt(s, i) = s[i]
<1>1. CASE i <= Len(s)
  <2>1. i \in 1..Len(s) BY <1>1
  <2>2. s[i] \in Byte BY <2>1
  <2> QED BY <1>1, <2>2 DEF ByteAt, Byte
<1>2. CASE ~(i <= Len(s)) BY <1>2 DEF ByteAt
<1> QED BY <1>1, <1>2

(* The slices of a text.                                                   *)
LEMMA SliceProps ==
  ASSUME NEW s \in Seq(Byte), NEW i \in Nat \ {0}, NEW n \in 1..6,
         i + n - 1 <= Len(s)
  PROVE  /\ Slice(s, i, n) \in Seq(Byte) /\ Len(Slice(s, i, n)) = n
         /\ \A k \in 1..n : Slice(s, i, n)[k] = ByteAt(s, i + k - 1)
<1>1. i \in 1..Len(s) /\ i + n - 1 \in 1..Len(s) OBVIOUS
<1>2. \A k \in 1..n : ByteAt(s, i + k - 1) = s[i + k - 1] BY DEF ByteAt
<1>3. Slice(s, i, n) = [k \in 1..n |-> s[i + k - 1]]
  BY <1>1 DEF Slice
<1>4. \A k \in 1..n : s[i + k - 1] \in Byte
  <2>1. \A k \in 1..n : i + k - 1 \in 1..Len(s) BY <1>1
  <2> QED BY <2>1, ElementOfSeq
<1>5. Slice(s, i, n) \in Seq(Byte) BY <1>3, <1>4
<1>6. \A k \in 1..n : Slice(s, i, n)[k] = ByteAt(s, i + k - 1)
  BY <1>2, <1>3
<1>7. Len(Slice(s, i, n)) = n BY <1>3
<1> QED BY <1>5, <1>6, <1>7, Zenon

LEMMA Slices ==
  ASSUME NEW s \in Seq(Byte), NEW i \in Nat \ {0}
  PROVE  /\ i <= Len(s) => Slice(s, i, 1) = <<ByteAt(s, i)>>
         /\ i + 1 <= Len(s) => Slice(s, i, 2) = <<ByteAt(s, i), ByteAt(s, i + 1)>>
         /\ i + 2 <= Len(s) =>
              Slice(s, i, 3)
                = <<ByteAt(s, i), ByteAt(s, i + 1), ByteAt(s, i + 2)>>
         /\ i + 3 <= Len(s) =>
              Slice(s, i, 4) = <<ByteAt(s, i), ByteAt(s, i + 1),
                                 ByteAt(s, i + 2), ByteAt(s, i + 3)>>
<1>0. i + 1 - 1 = i /\ i + 2 - 1 = i + 1 /\ i + 3 - 1 = i + 2 /\ i + 4 - 1 = i + 3
  OBVIOUS
<1>1. ASSUME i <= Len(s) PROVE Slice(s, i, 1) = <<ByteAt(s, i)>>
  <2>1. i + 1 - 1 <= Len(s) /\ 1 \in 1..6 BY <1>1
  <2>2. /\ Slice(s, i, 1) \in Seq(Byte) /\ Len(Slice(s, i, 1)) = 1
        /\ \A k \in 1..1 : Slice(s, i, 1)[k] = ByteAt(s, i + k - 1)
    BY <2>1, SliceProps
  <2>3. Slice(s, i, 1)[1] = ByteAt(s, i) BY <2>2, <1>0
  <2> QED BY <2>2, <2>3
<1>2. ASSUME i + 1 <= Len(s)
      PROVE  Slice(s, i, 2) = <<ByteAt(s, i), ByteAt(s, i + 1)>>
  <2>1. i + 2 - 1 <= Len(s) /\ 2 \in 1..6 BY <1>2
  <2>2. /\ Slice(s, i, 2) \in Seq(Byte) /\ Len(Slice(s, i, 2)) = 2
        /\ \A k \in 1..2 : Slice(s, i, 2)[k] = ByteAt(s, i + k - 1)
    BY <2>1, SliceProps
  <2>3. Slice(s, i, 2)[1] = ByteAt(s, i) /\ Slice(s, i, 2)[2] = ByteAt(s, i + 1)
    BY <2>2, <1>0
  <2> QED BY <2>2, <2>3
<1>3. ASSUME i + 2 <= Len(s)
      PROVE  Slice(s, i, 3)
               = <<ByteAt(s, i), ByteAt(s, i + 1), ByteAt(s, i + 2)>>
  <2>1. i + 3 - 1 <= Len(s) /\ 3 \in 1..6 BY <1>3
  <2>2. /\ Slice(s, i, 3) \in Seq(Byte) /\ Len(Slice(s, i, 3)) = 3
        /\ \A k \in 1..3 : Slice(s, i, 3)[k] = ByteAt(s, i + k - 1)
    BY <2>1, SliceProps
  <2>3. Slice(s, i, 3)[1] = ByteAt(s, i) /\ Slice(s, i, 3)[2] = ByteAt(s, i + 1)
        /\ Slice(s, i, 3)[3] = ByteAt(s, i + 2)
    BY <2>2, <1>0
  <2> QED BY <2>2, <2>3
<1>4. ASSUME i + 3 <= Len(s)
      PROVE  Slice(s, i, 4) = <<ByteAt(s, i), ByteAt(s, i + 1),
                                ByteAt(s, i + 2), ByteAt(s, i + 3)>>
  <2>1. i + 4 - 1 <= Len(s) /\ 4 \in 1..6 BY <1>4
  <2>2. /\ Slice(s, i, 4) \in Seq(Byte) /\ Len(Slice(s, i, 4)) = 4
        /\ \A k \in 1..4 : Slice(s, i, 4)[k] = ByteAt(s, i + k - 1)
    BY <2>1, SliceProps
  <2>3. Slice(s, i, 4)[1] = ByteAt(s, i) /\ Slice(s, i, 4)[2] = ByteAt(s, i + 1)
        /\ Slice(s, i, 4)[3] = ByteAt(s, i + 2)
        /\ Slice(s, i, 4)[4] = ByteAt(s, i + 3)
    BY <2>2, <1>0
  <2> QED BY <2>2, <2>3
<1> QED BY <1>1, <1>2, <1>3, <1>4

(* The forms are the slices that are sequences.                            *)
LEMMA SequenceForms ==
  ASSUME NEW s \in Seq(Byte), NEW i \in Nat \ {0}, NEW n \in 1..6, NEW p
  PROVE  SequenceForm(s, i, n, p) <=>
           /\ i + n - 1 <= Len(s)
           /\ IsSequence(Slice(s, i, n)) /\ p = Guess(Slice(s, i, n))
<1> DEFINE a == ByteAt(s, i)
           b == ByteAt(s, i + 1)
           c == ByteAt(s, i + 2)
           d == ByteAt(s, i + 3)
<1>0. /\ i \in Nat \ {0} /\ i + 1 \in Nat \ {0} /\ i + 2 \in Nat \ {0}
      /\ i + 3 \in Nat \ {0} /\ Len(s) \in Nat
  OBVIOUS
<1>1. /\ a \in 0..255 /\ b \in 0..255 /\ c \in 0..255 /\ d \in 0..255
  BY <1>0, ByteAtType
<1>2. /\ b # 0 => i + 1 <= Len(s)
      /\ c # 0 => i + 2 <= Len(s)
      /\ d # 0 => i + 3 <= Len(s)
  BY <1>0, ByteAtType
<1>3. /\ i <= Len(s) => Slice(s, i, 1) = <<a>>
      /\ i + 1 <= Len(s) => Slice(s, i, 2) = <<a, b>>
      /\ i + 2 <= Len(s) => Slice(s, i, 3) = <<a, b, c>>
      /\ i + 3 <= Len(s) => Slice(s, i, 4) = <<a, b, c, d>>
  BY Slices
<1>4. SequenceForm(s, i, n, p) <=>
        \/ n = 1 /\ i <= Len(s) /\ a < 128 /\ p = a
        \/ n = 2 /\ IsTwo(a, b) /\ p = Two(a, b)
        \/ n = 3 /\ IsThree(a, b, c) /\ p = Three(a, b, c)
        \/ n = 4 /\ IsFour(a, b, c, d) /\ p = Four(a, b, c, d)
  BY Zenon DEF SequenceForm
<1> HIDE DEF a, b, c, d
<1>5. /\ IsTwo(a, b) => b # 0
      /\ IsThree(a, b, c) => c # 0
      /\ IsFour(a, b, c, d) => d # 0
  <2>1. IsTwo(a, b) => b # 0 BY SMT DEF IsTwo
  <2>2. IsThree(a, b, c) => c # 0 BY SMT DEF IsThree
  <2>3. IsFour(a, b, c, d) => d # 0
    <3>1. IsFour(a, b, c, d) => d \in 128..191 BY SMT DEF IsFour
    <3>2. \A x \in 128..191 : x # 0 OBVIOUS
    <3> QED BY <3>1, <3>2, Zenon
  <2> QED BY <2>1, <2>2, <2>3, Zenon
<1>6. CASE n = 1
  <2>1. i + n - 1 <= Len(s) <=> i <= Len(s) BY <1>0, <1>6
  <2>2. SequenceForm(s, i, n, p) <=> i <= Len(s) /\ a < 128 /\ p = a
    BY <1>4, <1>6
  <2>3. Guess(<<a>>) = a /\ (IsSequence(<<a>>) <=> a < 128) BY <1>1, OneByte
  <2> QED BY <2>1, <2>2, <2>3, <1>3, <1>6, Zenon
<1>7. CASE n = 2
  <2>1. i + n - 1 <= Len(s) <=> i + 1 <= Len(s) BY <1>0, <1>7
  <2>2. SequenceForm(s, i, n, p) <=> IsTwo(a, b) /\ p = Two(a, b)
    BY <1>4, <1>7
  <2>3. Guess(<<a, b>>) = Two(a, b) /\ (IsSequence(<<a, b>>) <=> IsTwo(a, b))
    BY <1>1, TwoBytes, Zenon
  <2>4. IsTwo(a, b) => i + 1 <= Len(s) BY <1>2, <1>5, Zenon
  <2> QED BY <2>1, <2>2, <2>3, <2>4, <1>3, <1>7, Zenon
<1>8. CASE n = 3
  <2>1. i + n - 1 <= Len(s) <=> i + 2 <= Len(s) BY <1>0, <1>8
  <2>2. SequenceForm(s, i, n, p) <=> IsThree(a, b, c) /\ p = Three(a, b, c)
    BY <1>4, <1>8
  <2>3. /\ Guess(<<a, b, c>>) = Three(a, b, c)
        /\ IsSequence(<<a, b, c>>) <=> IsThree(a, b, c)
    BY <1>1, ThreeBytes, Zenon
  <2>4. IsThree(a, b, c) => i + 2 <= Len(s) BY <1>2, <1>5, Zenon
  <2> QED BY <2>1, <2>2, <2>3, <2>4, <1>3, <1>8, Zenon
<1>9. CASE n = 4
  <2>1. i + n - 1 <= Len(s) <=> i + 3 <= Len(s) BY <1>0, <1>9
  <2>2. SequenceForm(s, i, n, p) <=> IsFour(a, b, c, d) /\ p = Four(a, b, c, d)
    BY <1>4, <1>9
  <2>3. /\ Guess(<<a, b, c, d>>) = Four(a, b, c, d)
        /\ IsSequence(<<a, b, c, d>>) <=> IsFour(a, b, c, d)
    BY <1>1, FourBytes, ZenonT(60)
  <2>4. IsFour(a, b, c, d) => i + 3 <= Len(s) BY <1>2, <1>5, Zenon
  <2> QED BY <2>1, <2>2, <2>3, <2>4, <1>3, <1>9, Zenon
<1>10. CASE n \in {5, 6}
  <2>1. ~SequenceForm(s, i, n, p) BY <1>4, <1>10
  <2>2. i + n - 1 <= Len(s) =>
          Slice(s, i, n) \in Seq(Byte) /\ Len(Slice(s, i, n)) = n
    BY SliceProps, Zenon
  <2>3. n > 4 BY <1>10
  <2>4. i + n - 1 <= Len(s) => ~IsSequence(Slice(s, i, n))
    BY <2>2, <2>3, MoreBytes
  <2> QED BY <2>1, <2>4, Zenon
<1>11. n \in 1..4 \/ n \in {5, 6} OBVIOUS
<1>12. n \in 1..4 => n = 1 \/ n = 2 \/ n = 3 \/ n = 4 OBVIOUS
<1> QED BY <1>6, <1>7, <1>8, <1>9, <1>10, <1>11, <1>12, Zenon

(* What the form of a sequence says of its bytes.                          *)
LEMMA FormBytes ==
  ASSUME NEW s \in Seq(Byte), NEW i \in Nat \ {0}, NEW n, NEW p,
         SequenceForm(s, i, n, p)
  PROVE  /\ n \in 1..4 /\ p \in Nat /\ i + n - 1 <= Len(s)
         /\ n > 1 => p >= 128
         /\ \/ n = 1 /\ ByteAt(s, i) < 128 /\ p = ByteAt(s, i)
            \/ /\ n = 2 /\ ByteAt(s, i) \in 192..223
               /\ p = Two(ByteAt(s, i), ByteAt(s, i + 1))
            \/ /\ n = 3 /\ ByteAt(s, i) \in 224..239
               /\ p = Three(ByteAt(s, i), ByteAt(s, i + 1), ByteAt(s, i + 2))
            \/ /\ n = 4 /\ ByteAt(s, i) \in 240..244
               /\ p = Four(ByteAt(s, i), ByteAt(s, i + 1), ByteAt(s, i + 2),
                           ByteAt(s, i + 3))
<1> DEFINE a == ByteAt(s, i)
           b == ByteAt(s, i + 1)
           c == ByteAt(s, i + 2)
           d == ByteAt(s, i + 3)
<1>0. /\ i \in Nat \ {0} /\ i + 1 \in Nat \ {0} /\ i + 2 \in Nat \ {0}
      /\ i + 3 \in Nat \ {0} /\ Len(s) \in Nat
  OBVIOUS
<1>1. /\ a \in 0..255 /\ b \in 0..255 /\ c \in 0..255 /\ d \in 0..255
  BY <1>0, ByteAtType
<1>2. /\ b # 0 => i + 1 <= Len(s)
      /\ c # 0 => i + 2 <= Len(s)
      /\ d # 0 => i + 3 <= Len(s)
  BY <1>0, ByteAtType
<1>3. \/ n = 1 /\ i <= Len(s) /\ a < 128 /\ p = a
      \/ n = 2 /\ IsTwo(a, b) /\ p = Two(a, b)
      \/ n = 3 /\ IsThree(a, b, c) /\ p = Three(a, b, c)
      \/ n = 4 /\ IsFour(a, b, c, d) /\ p = Four(a, b, c, d)
  BY Zenon DEF SequenceForm
<1>4. Two(a, b) \in Nat BY <1>1, TwoBytes, Zenon
<1>5. Three(a, b, c) \in Nat BY <1>1, ThreeBytes, Zenon
<1>6. Four(a, b, c, d) \in Nat BY <1>1, FourBytes, Zenon
<1> HIDE DEF a, b, c, d
<1>7. CASE n = 1 /\ i <= Len(s) /\ a < 128 /\ p = a
  <2>1. n \in 1..4 /\ p \in Nat /\ i + n - 1 <= Len(s) /\ (n > 1 => p >= 128)
    BY <1>0, <1>1, <1>7
  <2> QED BY <1>7, <2>1, Zenon DEF a
<1>8. CASE n = 2 /\ IsTwo(a, b) /\ p = Two(a, b)
  <2>1. a \in 192..223 /\ b \in 128..191 /\ p >= 128
    BY <1>8, Zenon DEF IsTwo
  <2>2. n \in 1..4 /\ p \in Nat /\ i + n - 1 <= Len(s) /\ (n > 1 => p >= 128)
    <3>1. b # 0 BY <2>1
    <3> QED BY <1>0, <1>2, <1>4, <1>8, <2>1, <3>1
  <2> QED BY <1>8, <2>1, <2>2, Zenon DEF a, b
<1>9. CASE n = 3 /\ IsThree(a, b, c) /\ p = Three(a, b, c)
  <2>1. a \in 224..239 /\ c \in 128..191 BY <1>9, SMT DEF IsThree
  <2>2. Three(a, b, c) >= 2048 BY <1>9, SMT DEF IsThree
  <2>3. n \in 1..4 /\ p \in Nat /\ i + n - 1 <= Len(s) /\ (n > 1 => p >= 128)
    <3>1. c # 0 BY <2>1
    <3>2. p >= 128 BY <1>5, <1>9, <2>2
    <3> QED BY <1>0, <1>2, <1>5, <1>9, <3>1, <3>2
  <2> QED BY <1>9, <2>1, <2>3, Zenon DEF a, b, c
<1>10. CASE n = 4 /\ IsFour(a, b, c, d) /\ p = Four(a, b, c, d)
  <2>1. a \in 240..244 /\ d \in 128..191 BY <1>10, SMT DEF IsFour
  <2>2. Four(a, b, c, d) >= 65536 BY <1>10, SMT DEF IsFour
  <2>3. n \in 1..4 /\ p \in Nat /\ i + n - 1 <= Len(s) /\ (n > 1 => p >= 128)
    <3>1. d # 0 BY <2>1
    <3>2. p >= 128 BY <1>6, <1>10, <2>2, SMT
    <3> QED BY <1>0, <1>2, <1>6, <1>10, <3>1, <3>2
  <2> QED BY <1>10, <2>1, <2>3, Zenon DEF a, b, c, d
<1> QED BY <1>3, <1>7, <1>8, <1>9, <1>10, Zenon

(* At most one sequence begins at a place.                                 *)
LEMMA FormUnique ==
  ASSUME NEW s \in Seq(Byte), NEW i \in Nat \ {0}, NEW n, NEW p, NEW m, NEW q,
         SequenceForm(s, i, n, p), SequenceForm(s, i, m, q)
  PROVE  n = m /\ p = q
<1> DEFINE a == ByteAt(s, i)
           two == Two(ByteAt(s, i), ByteAt(s, i + 1))
           three == Three(ByteAt(s, i), ByteAt(s, i + 1), ByteAt(s, i + 2))
           four == Four(ByteAt(s, i), ByteAt(s, i + 1), ByteAt(s, i + 2),
                        ByteAt(s, i + 3))
           F(x, y) == \/ x = 1 /\ a < 128 /\ y = a
                      \/ x = 2 /\ a \in 192..223 /\ y = two
                      \/ x = 3 /\ a \in 224..239 /\ y = three
                      \/ x = 4 /\ a \in 240..244 /\ y = four
<1>1. F(n, p) BY FormBytes, Zenon
<1>2. F(m, q) BY FormBytes, Zenon
<1>3. a \in 0..255 BY ByteAtType
<1> HIDE DEF a, two, three, four
<1>4. /\ ~(a < 128 /\ a \in 192..223) /\ ~(a < 128 /\ a \in 224..239)
      /\ ~(a < 128 /\ a \in 240..244)
      /\ ~(a \in 192..223 /\ a \in 224..239)
      /\ ~(a \in 192..223 /\ a \in 240..244)
      /\ ~(a \in 224..239 /\ a \in 240..244)
  BY <1>3
<1>5. CASE n = 1 /\ a < 128 /\ p = a
  <2>1. m = 1 /\ q = a BY <1>2, <1>4, <1>5, Zenon
  <2> QED BY <2>1, <1>5
<1>6. CASE n = 2 /\ a \in 192..223 /\ p = two
  <2>1. m = 2 /\ q = two BY <1>2, <1>4, <1>6, Zenon
  <2> QED BY <2>1, <1>6
<1>7. CASE n = 3 /\ a \in 224..239 /\ p = three
  <2>1. m = 3 /\ q = three BY <1>2, <1>4, <1>7, Zenon
  <2> QED BY <2>1, <1>7
<1>8. CASE n = 4 /\ a \in 240..244 /\ p = four
  <2>1. m = 4 /\ q = four BY <1>2, <1>4, <1>8, Zenon
  <2> QED BY <2>1, <1>8
<1> QED BY <1>1, <1>5, <1>6, <1>7, <1>8, Zenon

(* What SequenceAt says.                                                   *)
LEMMA SequenceAtIs ==
  ASSUME NEW s \in Seq(Byte), NEW i \in 1..(Len(s) + 1)
  PROVE  /\ \A t \in SequenceAt(s, i) :
              t.length \in 1..4 /\ SequenceForm(s, i, t.length, t.item)
                /\ t = [length |-> t.length, item |-> t.item]
         /\ \A n, p : SequenceForm(s, i, n, p) =>
                        [length |-> n, item |-> p] \in SequenceAt(s, i)
<1>0. i \in Nat \ {0} OBVIOUS
<1>1. ASSUME NEW t \in SequenceAt(s, i)
      PROVE  /\ t.length \in 1..4 /\ SequenceForm(s, i, t.length, t.item)
             /\ t = [length |-> t.length, item |-> t.item]
  <2>1. PICK n \in {k \in Fitting(s, i, 4) : IsSequence(Slice(s, i, k))} :
          t = [length |-> n, item |-> Guess(Slice(s, i, n))]
    BY Zenon DEF SequenceAt
  <2>2. n \in 1..4 /\ i + n - 1 <= Len(s) /\ IsSequence(Slice(s, i, n))
    BY DEF Fitting
  <2>3. n \in 1..6 BY <2>2
  <2>4. SequenceForm(s, i, n, Guess(Slice(s, i, n)))
    BY <1>0, <2>2, <2>3, SequenceForms, Zenon
  <2>5. t.length = n /\ t.item = Guess(Slice(s, i, n)) BY <2>1
  <2> QED BY <2>1, <2>2, <2>4, <2>5, Zenon
<1>2. ASSUME NEW n, NEW p, SequenceForm(s, i, n, p)
      PROVE  [length |-> n, item |-> p] \in SequenceAt(s, i)
  <2>1. n \in 1..4 BY <1>0, <1>2, FormBytes, Zenon
  <2>2. n \in 1..6 BY <2>1
  <2>3. /\ i + n - 1 <= Len(s)
        /\ IsSequence(Slice(s, i, n)) /\ p = Guess(Slice(s, i, n))
    BY <1>0, <1>2, <2>2, SequenceForms, Zenon
  <2>4. n \in {k \in Fitting(s, i, 4) : IsSequence(Slice(s, i, k))}
    BY <2>1, <2>3 DEF Fitting
  <2> QED BY <2>3, <2>4, Zenon DEF SequenceAt
<1> QED BY <1>1, <1>2, Zenon

(* The sequences of a text lead on to later ones, one from each place.     *)
SequencePlaces(s) == [i \in 1..(Len(s) + 1) |-> SequenceAt(s, i)]

LEMMA SequenceLeads ==
  ASSUME NEW s \in Seq(Byte)
  PROVE  /\ Leads(SequencePlaces(s), {Len(s) + 1}, Len(s) + 1)
         /\ Typed(SequencePlaces(s), Nat)
<1> DEFINE n == Len(s) + 1
           at == SequencePlaces(s)
<1>0. n \in Nat /\ n > 0 OBVIOUS
<1>1. DOMAIN at = 1..n /\ \A i \in 1..n : at[i] = SequenceAt(s, i)
  BY DEF SequencePlaces
<1> HIDE DEF at
<1>2. ASSUME NEW i \in 1..n, NEW t \in at[i]
      PROVE  /\ t.length \in Nat /\ t.length > 0 /\ i + t.length <= n
             /\ t.item \in Nat
  <2>1. t.length \in 1..4 /\ SequenceForm(s, i, t.length, t.item)
    BY <1>1, SequenceAtIs, Zenon
  <2>2. i \in Nat \ {0} OBVIOUS
  <2>3. t.item \in Nat /\ i + t.length - 1 <= Len(s)
    BY <2>1, <2>2, FormBytes, Zenon
  <2> QED BY <2>1, <2>3
<1>3. ASSUME NEW i \in 1..n, NEW t \in at[i], NEW u \in at[i]
      PROVE  t = u
  <2>1. /\ SequenceForm(s, i, t.length, t.item)
        /\ t = [length |-> t.length, item |-> t.item]
    BY <1>1, SequenceAtIs, Zenon
  <2>2. /\ SequenceForm(s, i, u.length, u.item)
        /\ u = [length |-> u.length, item |-> u.item]
    BY <1>1, SequenceAtIs, Zenon
  <2>3. i \in Nat \ {0} OBVIOUS
  <2>4. t.length = u.length /\ t.item = u.item
    BY <2>1, <2>2, <2>3, FormUnique, Zenon
  <2> QED BY <2>1, <2>2, <2>4, Zenon
<1>4. at[n] = {}
  <2> SUFFICES ASSUME NEW t \in at[n] PROVE FALSE OBVIOUS
  <2>1. n \in 1..n BY <1>0
  <2>2. n + t.length <= n /\ t.length > 0 /\ t.length \in Nat BY <1>2, <2>1
  <2> QED BY <1>0, <2>2
<1> HIDE DEF n
<1>5. Leads(at, {n}, n) BY <1>1, <1>2, <1>3, <1>4, Zenon DEF Leads
<1>6. Typed(at, Nat) BY <1>1, <1>2, Zenon DEF Typed
<1> QED BY <1>5, <1>6 DEF n, at

(* Decoded, in terms of the sequences up to some place.                    *)
LEMMA DecodedWhole ==
  ASSUME NEW s \in Seq(Byte), NEW d \in Seq(Int),
         Parse(SequencePlaces(s), 1, Len(s) + 1, d)
  PROVE  Decoded(s) = d
<1> DEFINE at == SequencePlaces(s)
           n == Len(s) + 1
           ends == {n}
           I == Items(at, ends, -1)
<1>1. n \in Nat /\ 1 \in 1..n /\ n \in 1..n /\ n \in ends /\ -1 \in Int OBVIOUS
<1>2. Leads(at, ends, n) /\ Typed(at, Nat) BY SequenceLeads
<1>3. Typed(at, Int) BY <1>2 DEF Typed
<1>4. Decoded(s) = I[1] BY Zenon DEF Decoded, SequencePlaces
<1>5. Parse(at, 1, n, d) OBVIOUS
<1> HIDE DEF at, ends, n
<1>6. I[1] = d \o I[n] BY <1>1, <1>2, <1>3, <1>5, ParseItems, SMTT(30)
<1>7. I[n] = <<>> BY <1>1, <1>2, ItemsEnd, Zenon
<1>8. d \o <<>> = d OBVIOUS
<1> QED BY <1>4, <1>6, <1>7, <1>8

(* A string that cannot be decoded further.                                *)
LEMMA DecodedPart ==
  ASSUME NEW s \in Seq(Byte), NEW d \in Seq(Int), NEW j \in 1..Len(s),
         Parse(SequencePlaces(s), 1, j, d), SequencePlaces(s)[j] = {}
  PROVE  Decoded(s) = Append(d, -1)
<1> DEFINE at == SequencePlaces(s)
           n == Len(s) + 1
           ends == {n}
           none == -1
           I == Items(at, ends, none)
<1>1. n \in Nat /\ 1 \in 1..n /\ j \in 1..n /\ j \notin ends /\ none \in Int
  OBVIOUS
<1>2. Leads(at, ends, n) /\ Typed(at, Nat) BY SequenceLeads
<1>3. Typed(at, Int) BY <1>2 DEF Typed
<1>4. Decoded(s) = I[1] BY Zenon DEF Decoded, SequencePlaces
<1>5. Parse(at, 1, j, d) /\ at[j] = {} OBVIOUS
<1> HIDE DEF at, ends, n, none
<1>6. I[1] = d \o I[j] BY <1>1, <1>2, <1>3, <1>5, ParseItems, SMTT(30)
<1>7. I[j] = <<none>> BY <1>1, <1>2, <1>5, ItemsEnd
<1>8. d \o <<none>> = Append(d, none) BY <1>1
<1> QED BY <1>4, <1>6, <1>7, <1>8 DEF none

Bare(p) == [point |-> p, escaped |-> FALSE]
Unit(p) == [point |-> p, escaped |-> TRUE]

(* The value of the digits of the escape at place i.                       *)
UnitAt(s, i) ==
  HexValue(ByteAt(s, i + 2)) * 4096 + HexValue(ByteAt(s, i + 3)) * 256
    + HexValue(ByteAt(s, i + 4)) * 16 + HexValue(ByteAt(s, i + 5))

HexAt(s, i) ==
  /\ ByteAt(s, i + 2) \in HexDigit /\ ByteAt(s, i + 3) \in HexDigit
  /\ ByteAt(s, i + 4) \in HexDigit /\ ByteAt(s, i + 5) \in HexDigit

(* n bytes from place i on are character c.                                *)
PlainForm(s, i, n, c) ==
  \E p : SequenceForm(s, i, n, p) /\ p \notin {0, 34, 92} /\ c = Bare(p)
LetterForm(s, i, n, c) ==
  /\ n = 2 /\ ByteAt(s, i) = 92 /\ ByteAt(s, i + 1) \in EscapeLetter
  /\ c = Bare(Escaped(ByteAt(s, i + 1)))
UnicodeForm(s, i, n, c) ==
  /\ n = 6 /\ ByteAt(s, i) = 92 /\ ByteAt(s, i + 1) = 117 /\ HexAt(s, i)
  /\ c = Unit(UnitAt(s, i))
CharacterForm(s, i, n, c) ==
  PlainForm(s, i, n, c) \/ LetterForm(s, i, n, c) \/ UnicodeForm(s, i, n, c)

(* The values of the digits are those of Hex.                              *)
LEMMA HexValues ==
  /\ DOMAIN Hex = HexDigit
  /\ \A d \in HexDigit : Hex[d] = HexValue(d)
<1>1. DOMAIN Hex = 48..57 \cup 65..70 \cup 97..102 BY DEF Hex
<1>2. HexDigit = 48..57 \cup 65..70 \cup 97..102
  BY DEF HexDigit, Digit, UpperHex, LowerHex
<1>3. ASSUME NEW d \in HexDigit PROVE Hex[d] = HexValue(d)
  <2>1. Hex[d] = IF d <= 57 THEN d - 48 ELSE IF d <= 70 THEN d - 55 ELSE d - 87
    BY <1>2 DEF Hex
  <2>2. CASE d \in 48..57 BY <2>1, <2>2 DEF HexValue, Digit
  <2>3. CASE d \in 65..70
    <3>1. d \notin 48..57 /\ d \notin 97..102 BY <2>3
    <3> QED BY <2>1, <2>3, <3>1 DEF HexValue, Digit, LowerHex
  <2>4. CASE d \in 97..102
    <3>1. d \notin 48..57 BY <2>4
    <3> QED BY <2>1, <2>4, <3>1 DEF HexValue, Digit, LowerHex
  <2> QED BY <1>2, <2>2, <2>3, <2>4
<1> QED BY <1>1, <1>2, <1>3

(* The letters after a backslash.                                          *)
LEMMA LetterEscapes ==
  ASSUME NEW a, NEW b, NEW c
  PROVE  c \in LetterEscape(<<a, b>>) <=>
           a = 92 /\ b \in EscapeLetter /\ c = Bare(Escaped(b))
<1>1. c \in LetterEscape(<<a, b>>) <=>
        \E m \in Letters : <<a, b>> = <<92, m[1]>> /\ c = Bare(m[2])
  BY Zenon DEF LetterEscape, Bare
<1>2. \A x : <<a, b>> = <<92, x>> <=> a = 92 /\ b = x OBVIOUS
<1>3. c \in LetterEscape(<<a, b>>) <=>
        a = 92 /\ \E m \in Letters : b = m[1] /\ c = Bare(m[2])
  BY <1>1, <1>2, Zenon
<1>4. ASSUME NEW m \in Letters
      PROVE  m[1] \in EscapeLetter /\ m[2] = Escaped(m[1])
  BY DEF Letters, EscapeLetter, Escaped
<1>5. ASSUME b \in EscapeLetter PROVE <<b, Escaped(b)>> \in Letters
  BY <1>5 DEF Letters, EscapeLetter, Escaped
<1>6. <<b, Escaped(b)>>[1] = b /\ <<b, Escaped(b)>>[2] = Escaped(b) OBVIOUS
<1> QED BY <1>3, <1>4, <1>5, <1>6, Zenon

(* The characters of a slice are those of the forms.                       *)
LEMMA CharacterForms ==
  ASSUME NEW s \in Seq(Byte), NEW i \in Nat \ {0}, NEW n \in 1..6, NEW c
  PROVE  CharacterForm(s, i, n, c) <=>
           i + n - 1 <= Len(s) /\ c \in Character(Slice(s, i, n))
<1> DEFINE x == Slice(s, i, n)
           fits == i + n - 1 <= Len(s)
<1>0. /\ fits => /\ x \in Seq(Byte) /\ Len(x) = n
                 /\ \A k \in 1..n : x[k] = ByteAt(s, i + k - 1)
  BY SliceProps
<1>1. PlainForm(s, i, n, c) <=> fits /\ c \in Plain(x)
  <2>1. \A p : SequenceForm(s, i, n, p) <=> fits /\ IsSequence(x) /\ p = Guess(x)
    BY SequenceForms, Zenon
  <2>2. c \in Plain(x) <=>
          IsSequence(x) /\ Guess(x) \notin {0, 34, 92} /\ c = Bare(Guess(x))
    BY Zenon DEF Plain, Bare
  <2> QED BY <2>1, <2>2, Zenon DEF PlainForm
<1>2. LetterForm(s, i, n, c) <=> fits /\ c \in LetterEscape(x)
  <2>1. CASE n = 2
    <3> DEFINE a == ByteAt(s, i)
               b == ByteAt(s, i + 1)
    <3>1. fits <=> i + 1 <= Len(s) BY <2>1
    <3>2. b # 0 => i + 1 <= Len(s) BY ByteAtType
    <3>3. i + 1 <= Len(s) => x = <<a, b>> BY <2>1, Slices
    <3>4. c \in LetterEscape(<<a, b>>) <=>
            a = 92 /\ b \in EscapeLetter /\ c = Bare(Escaped(b))
      BY LetterEscapes, Zenon
    <3>5. LetterForm(s, i, n, c) <=>
            a = 92 /\ b \in EscapeLetter /\ c = Bare(Escaped(b))
      BY <2>1, Zenon DEF LetterForm
    <3>6. 0 \notin EscapeLetter BY DEF EscapeLetter
    <3> HIDE DEF a, b, x, fits
    <3> QED BY <3>1, <3>2, <3>3, <3>4, <3>5, <3>6, Zenon
  <2>2. CASE n # 2
    <3>1. ASSUME fits, NEW m \in Letters PROVE x # <<92, m[1]>>
      <4>1. Len(x) # 2 BY <1>0, <2>2, <3>1
      <4>2. Len(<<92, m[1]>>) = 2 OBVIOUS
      <4> QED BY <4>1, <4>2, Zenon
    <3>2. fits => c \notin LetterEscape(x)
      BY <3>1, Zenon DEF LetterEscape
    <3> QED BY <2>2, <3>2, Zenon DEF LetterForm
  <2> QED BY <2>1, <2>2, Zenon
<1>3. UnicodeForm(s, i, n, c) <=> fits /\ c \in UnicodeEscape(x)
  <2>1. CASE n = 6
    <3>0. /\ i + 1 - 1 = i /\ i + 2 - 1 = i + 1 /\ i + 3 - 1 = i + 2
          /\ i + 4 - 1 = i + 3 /\ i + 5 - 1 = i + 4 /\ i + 6 - 1 = i + 5
      OBVIOUS
    <3>1. /\ ByteAt(s, i + 5) # 0 => i + 5 <= Len(s)
      BY ByteAtType
    <3>2. fits <=> i + 5 <= Len(s) BY <2>1
    <3>3. 0 \notin HexDigit BY DEF HexDigit, Digit, LowerHex, UpperHex
    <3>4. HexAt(s, i) => fits BY <3>1, <3>2, <3>3, Zenon DEF HexAt
    <3>5. ASSUME fits
          PROVE  /\ Len(x) = 6
                 /\ x[1] = ByteAt(s, i) /\ x[2] = ByteAt(s, i + 1)
                 /\ x[3] = ByteAt(s, i + 2) /\ x[4] = ByteAt(s, i + 3)
                 /\ x[5] = ByteAt(s, i + 4) /\ x[6] = ByteAt(s, i + 5)
      BY <1>0, <2>1, <3>0, <3>5
    <3> HIDE DEF x, fits
    <3>6. ASSUME fits
          PROVE  (\A k \in 3..6 : x[k] \in DOMAIN Hex) <=> HexAt(s, i)
      <4>1. \A k \in 3..6 : k = 3 \/ k = 4 \/ k = 5 \/ k = 6 OBVIOUS
      <4>2. 3 \in 3..6 /\ 4 \in 3..6 /\ 5 \in 3..6 /\ 6 \in 3..6 OBVIOUS
      <4>3. (\A k \in 3..6 : x[k] \in HexDigit) <=>
              x[3] \in HexDigit /\ x[4] \in HexDigit /\ x[5] \in HexDigit
                /\ x[6] \in HexDigit
        BY <4>1, <4>2, Zenon
      <4>4. DOMAIN Hex = HexDigit BY HexValues
      <4> QED BY <3>5, <3>6, <4>3, <4>4, Zenon DEF HexAt
    <3>7. ASSUME fits, HexAt(s, i)
          PROVE  Hex[x[3]] * 4096 + Hex[x[4]] * 256 + Hex[x[5]] * 16 + Hex[x[6]]
                   = UnitAt(s, i)
      <4>1. /\ Hex[x[3]] = HexValue(ByteAt(s, i + 2))
            /\ Hex[x[4]] = HexValue(ByteAt(s, i + 3))
            /\ Hex[x[5]] = HexValue(ByteAt(s, i + 4))
            /\ Hex[x[6]] = HexValue(ByteAt(s, i + 5))
        BY <3>5, <3>7, HexValues, Zenon DEF HexAt
      <4> QED BY <4>1, SMT DEF UnitAt
    <3> DEFINE u == Hex[x[3]] * 4096 + Hex[x[4]] * 256 + Hex[x[5]] * 16
                      + Hex[x[6]]
    <3>8. c \in UnicodeEscape(x) <=>
            /\ Len(x) = 6 /\ x[1] = 92 /\ x[2] = 117
            /\ \A k \in 3..6 : x[k] \in DOMAIN Hex
            /\ c = Unit(u)
      BY SMT DEF UnicodeEscape, Unit
    <3>9. fits /\ HexAt(s, i) => u = UnitAt(s, i) BY <3>7
    <3> HIDE DEF u
    <3> QED BY <2>1, <3>4, <3>5, <3>6, <3>8, <3>9, Zenon DEF UnicodeForm
  <2>2. CASE n # 6
    <3>1. fits => Len(x) # 6 BY <1>0, <2>2
    <3>2. fits => c \notin UnicodeEscape(x) BY <3>1, SMT DEF UnicodeEscape
    <3> QED BY <2>2, <3>2, Zenon DEF UnicodeForm
  <2> QED BY <2>1, <2>2, Zenon
<1> HIDE DEF x, fits
<1>4. CharacterForm(s, i, n, c) <=> fits /\ c \in Character(x)
  BY <1>1, <1>2, <1>3, Zenon DEF CharacterForm, Character
<1> QED BY <1>4 DEF x, fits

CharacterType == [point : Int, escaped : BOOLEAN]

LEMMA UnitAtType ==
  ASSUME NEW s, NEW i, HexAt(s, i)
  PROVE  UnitAt(s, i) \in Nat /\ UnitAt(s, i) <= MaxUnit
<1> DEFINE a == HexValue(ByteAt(s, i + 2))
           b == HexValue(ByteAt(s, i + 3))
           c == HexValue(ByteAt(s, i + 4))
           d == HexValue(ByteAt(s, i + 5))
<1>1. a \in 0..15 /\ b \in 0..15 /\ c \in 0..15 /\ d \in 0..15
  BY HexValueType, Zenon DEF HexAt
<1>2. UnitAt(s, i) = a * 4096 + b * 256 + c * 16 + d BY SMT DEF UnitAt
<1> HIDE DEF a, b, c, d
<1> QED BY <1>1, <1>2, SMT DEF MaxUnit

LEMMA FormFirst ==
  ASSUME NEW s \in Seq(Byte), NEW i \in Nat \ {0}, NEW n, NEW p,
         SequenceForm(s, i, n, p)
  PROVE  ByteAt(s, i) = p \/ ByteAt(s, i) \in 192..244
<1>2. \/ n = 1 /\ ByteAt(s, i) < 128 /\ p = ByteAt(s, i)
      \/ /\ n = 2 /\ ByteAt(s, i) \in 192..223
         /\ p = Two(ByteAt(s, i), ByteAt(s, i + 1))
      \/ /\ n = 3 /\ ByteAt(s, i) \in 224..239
         /\ p = Three(ByteAt(s, i), ByteAt(s, i + 1), ByteAt(s, i + 2))
      \/ /\ n = 4 /\ ByteAt(s, i) \in 240..244
         /\ p = Four(ByteAt(s, i), ByteAt(s, i + 1), ByteAt(s, i + 2),
                     ByteAt(s, i + 3))
  BY FormBytes, Zenon
<1>3. ByteAt(s, i) = p \/ ByteAt(s, i) \in 192..223
      \/ ByteAt(s, i) \in 224..239 \/ ByteAt(s, i) \in 240..244
  BY <1>2, Zenon
<1>4. ByteAt(s, i) \in 192..223 => ByteAt(s, i) \in 192..244 OBVIOUS
<1>5. ByteAt(s, i) \in 224..239 => ByteAt(s, i) \in 192..244 OBVIOUS
<1>6. ByteAt(s, i) \in 240..244 => ByteAt(s, i) \in 192..244 OBVIOUS
<1> QED BY <1>3, <1>4, <1>5, <1>6

(* What the form of a character says of its bytes.                         *)
LEMMA CharacterBytes ==
  ASSUME NEW s \in Seq(Byte), NEW i \in Nat \ {0}, NEW n, NEW c,
         CharacterForm(s, i, n, c)
  PROVE  /\ n \in 1..6 /\ c \in CharacterType /\ i + n - 1 <= Len(s)
         /\ ByteAt(s, i) \notin {0, 34}
         /\ PlainForm(s, i, n, c) => ByteAt(s, i) # 92
<1>1. CASE PlainForm(s, i, n, c)
  <2>1. PICK p : SequenceForm(s, i, n, p) /\ p \notin {0, 34, 92} /\ c = Bare(p)
    BY <1>1, Zenon DEF PlainForm
  <2>2. n \in 1..4 /\ p \in Nat /\ i + n - 1 <= Len(s)
    BY <2>1, FormBytes, Zenon
  <2>3. c \in CharacterType BY <2>1, <2>2 DEF Bare, CharacterType
  <2>4. ByteAt(s, i) = p \/ ByteAt(s, i) \in 192..244
    BY <2>1, FormFirst, Zenon
  <2>5. \A x \in 192..244 : x \notin {0, 34, 92} OBVIOUS
  <2>6. ByteAt(s, i) \notin {0, 34, 92} BY <2>1, <2>4, <2>5, Zenon
  <2>7. n \in 1..6 BY <2>2
  <2> QED BY <2>2, <2>3, <2>6, <2>7, Zenon
<1>2. CASE LetterForm(s, i, n, c)
  <2>1. n = 2 /\ ByteAt(s, i) = 92 /\ ByteAt(s, i + 1) \in EscapeLetter
        /\ c = Bare(Escaped(ByteAt(s, i + 1)))
    BY <1>2 DEF LetterForm
  <2>2. Escaped(ByteAt(s, i + 1)) \in Int
    BY <2>1 DEF EscapeLetter, Escaped
  <2>3. c \in CharacterType BY <2>1, <2>2 DEF Bare, CharacterType
  <2>4. ByteAt(s, i + 1) # 0 BY <2>1 DEF EscapeLetter
  <2>5. i + n - 1 <= Len(s) BY <2>1, <2>4, ByteAtType
  <2>6. ~PlainForm(s, i, n, c)
    <3> SUFFICES ASSUME PlainForm(s, i, n, c) PROVE FALSE OBVIOUS
    <3>1. PICK p : SequenceForm(s, i, n, p) BY DEF PlainForm
    <3>2. PICK q : SequenceForm(s, i, n, q) /\ q \notin {0, 34, 92}
      BY DEF PlainForm
    <3>3. ByteAt(s, i) = q \/ ByteAt(s, i) \in 192..244
      BY <3>2, FormFirst, Zenon
    <3>4. 92 \notin 192..244 OBVIOUS
    <3> QED BY <2>1, <3>2, <3>3, <3>4, Zenon
  <2> QED BY <2>1, <2>3, <2>5, <2>6
<1>3. CASE UnicodeForm(s, i, n, c)
  <2>1. n = 6 /\ ByteAt(s, i) = 92 /\ HexAt(s, i) /\ c = Unit(UnitAt(s, i))
    BY <1>3 DEF UnicodeForm
  <2>2. UnitAt(s, i) \in Nat BY <2>1, UnitAtType
  <2>3. c \in CharacterType BY <2>1, <2>2 DEF Unit, CharacterType
  <2>a. 0 \notin HexDigit BY DEF HexDigit, Digit, LowerHex, UpperHex
  <2>b. ByteAt(s, i + 5) \in HexDigit BY <2>1, Zenon DEF HexAt
  <2>4. ByteAt(s, i + 5) # 0 BY <2>a, <2>b, Zenon
  <2>5. i + n - 1 <= Len(s) BY <2>1, <2>4, ByteAtType
  <2>6. ~PlainForm(s, i, n, c)
    <3> SUFFICES ASSUME PlainForm(s, i, n, c) PROVE FALSE OBVIOUS
    <3>1. PICK p : SequenceForm(s, i, n, p) BY DEF PlainForm
    <3>2. n \in 1..4 BY <3>1, FormBytes, Zenon
    <3> QED BY <2>1, <3>2
  <2> QED BY <2>1, <2>3, <2>5, <2>6
<1> QED BY <1>1, <1>2, <1>3, Zenon DEF CharacterForm

(* At most one character begins at a place.                                *)
LEMMA CharacterUnique ==
  ASSUME NEW s \in Seq(Byte), NEW i \in Nat \ {0}, NEW n, NEW c, NEW m, NEW d,
         CharacterForm(s, i, n, c), CharacterForm(s, i, m, d)
  PROVE  n = m /\ c = d
<1>1. CASE PlainForm(s, i, n, c)
  <2>1. ByteAt(s, i) # 92 BY <1>1, CharacterBytes
  <2>2. PlainForm(s, i, m, d)
    BY <2>1, Zenon DEF CharacterForm, LetterForm, UnicodeForm
  <2>3. PICK p : SequenceForm(s, i, n, p) /\ c = Bare(p)
    BY <1>1, Zenon DEF PlainForm
  <2>4. PICK q : SequenceForm(s, i, m, q) /\ d = Bare(q)
    BY <2>2, Zenon DEF PlainForm
  <2>5. n = m /\ p = q BY <2>3, <2>4, FormUnique, Zenon
  <2> QED BY <2>3, <2>4, <2>5, Zenon
<1>2. CASE ~PlainForm(s, i, n, c)
  <2>1. ByteAt(s, i) = 92
    BY <1>2, Zenon DEF CharacterForm, LetterForm, UnicodeForm
  <2>2. ~PlainForm(s, i, m, d) BY <2>1, CharacterBytes
  <2>3. LetterForm(s, i, n, c) \/ UnicodeForm(s, i, n, c)
    BY <1>2, Zenon DEF CharacterForm
  <2>4. LetterForm(s, i, m, d) \/ UnicodeForm(s, i, m, d)
    BY <2>2, Zenon DEF CharacterForm
  <2>5. 117 \notin EscapeLetter BY DEF EscapeLetter
  <2> QED BY <2>3, <2>4, <2>5, Zenon DEF LetterForm, UnicodeForm
<1> QED BY <1>1, <1>2

(* What CharacterAt says.                                                  *)
LEMMA CharacterAtIs ==
  ASSUME NEW s \in Seq(Byte), NEW i \in 1..(Len(s) + 1)
  PROVE  /\ \A t \in CharacterAt(s, i) :
              CharacterForm(s, i, t.length, t.item)
                /\ t = [length |-> t.length, item |-> t.item]
         /\ \A n, c : CharacterForm(s, i, n, c) =>
                        [length |-> n, item |-> c] \in CharacterAt(s, i)
<1>0. i \in Nat \ {0} OBVIOUS
<1>1. ASSUME NEW t \in CharacterAt(s, i)
      PROVE  /\ CharacterForm(s, i, t.length, t.item)
             /\ t = [length |-> t.length, item |-> t.item]
  <2>1. PICK n \in Fitting(s, i, 6) :
          \E c \in Character(Slice(s, i, n)) : t = [length |-> n, item |-> c]
    BY Zenon DEF CharacterAt
  <2>2. PICK c \in Character(Slice(s, i, n)) : t = [length |-> n, item |-> c]
    BY <2>1
  <2>3. n \in 1..6 /\ i + n - 1 <= Len(s) BY DEF Fitting
  <2>4. CharacterForm(s, i, n, c) BY <1>0, <2>3, CharacterForms, Zenon
  <2>5. t.length = n /\ t.item = c BY <2>2
  <2> QED BY <2>2, <2>4, <2>5, Zenon
<1>2. ASSUME NEW n, NEW c, CharacterForm(s, i, n, c)
      PROVE  [length |-> n, item |-> c] \in CharacterAt(s, i)
  <2>1. n \in 1..6 BY <1>0, <1>2, CharacterBytes, Zenon
  <2>2. i + n - 1 <= Len(s) /\ c \in Character(Slice(s, i, n))
    BY <1>0, <1>2, <2>1, CharacterForms, Zenon
  <2>3. n \in Fitting(s, i, 6) BY <2>1, <2>2 DEF Fitting
  <2> DEFINE S(k) == {[length |-> k, item |-> e] : e \in Character(Slice(s, i, k))}
  <2>4. [length |-> n, item |-> c] \in S(n) BY <2>2
  <2>5. CharacterAt(s, i) = UNION {S(k) : k \in Fitting(s, i, 6)}
    BY Zenon DEF CharacterAt
  <2> HIDE DEF S
  <2> QED BY <2>3, <2>4, <2>5
<1> QED BY <1>1, <1>2, Zenon

(* The characters of a text lead on to later places, one from each, and    *)
(* none from a quote.                                                      *)
CharacterPlaces(s) == [i \in 1..(Len(s) + 1) |-> CharacterAt(s, i)]
Quotes(s) == {i \in 1..Len(s) : s[i] = 34}

LEMMA CharacterLeads ==
  ASSUME NEW s \in Seq(Byte)
  PROVE  /\ Leads(CharacterPlaces(s), Quotes(s), Len(s) + 1)
         /\ Typed(CharacterPlaces(s), CharacterType)
<1> DEFINE n == Len(s) + 1
           at == CharacterPlaces(s)
<1>0. n \in Nat /\ n > 0 OBVIOUS
<1>1. DOMAIN at = 1..n /\ \A i \in 1..n : at[i] = CharacterAt(s, i)
  BY DEF CharacterPlaces
<1> HIDE DEF at
<1>2. ASSUME NEW i \in 1..n, NEW t \in at[i]
      PROVE  /\ t.length \in Nat /\ t.length > 0 /\ i + t.length <= n
             /\ t.item \in CharacterType
  <2>1. CharacterForm(s, i, t.length, t.item)
    BY <1>1, CharacterAtIs, Zenon
  <2>2. i \in Nat \ {0} OBVIOUS
  <2>3. t.length \in 1..6 /\ t.item \in CharacterType
        /\ i + t.length - 1 <= Len(s)
    BY <2>1, <2>2, CharacterBytes, Zenon
  <2> QED BY <2>3
<1>3. ASSUME NEW i \in 1..n, NEW t \in at[i], NEW u \in at[i]
      PROVE  t = u
  <2>1. /\ CharacterForm(s, i, t.length, t.item)
        /\ t = [length |-> t.length, item |-> t.item]
    BY <1>1, CharacterAtIs, Zenon
  <2>2. /\ CharacterForm(s, i, u.length, u.item)
        /\ u = [length |-> u.length, item |-> u.item]
    BY <1>1, CharacterAtIs, Zenon
  <2>3. i \in Nat \ {0} OBVIOUS
  <2>4. t.length = u.length /\ t.item = u.item
    BY <2>1, <2>2, <2>3, CharacterUnique, Zenon
  <2> QED BY <2>1, <2>2, <2>4, Zenon
<1>4. ASSUME NEW i \in Quotes(s) PROVE at[i] = {}
  <2> SUFFICES ASSUME NEW t \in at[i] PROVE FALSE OBVIOUS
  <2>1. i \in 1..Len(s) /\ s[i] = 34 BY DEF Quotes
  <2>2. i \in 1..n /\ i \in Nat \ {0} BY <2>1
  <2>3. CharacterForm(s, i, t.length, t.item)
    BY <1>1, <2>2, CharacterAtIs, Zenon
  <2>4. ByteAt(s, i) # 34 BY <2>2, <2>3, CharacterBytes, Zenon
  <2>5. ByteAt(s, i) = 34 BY <2>1 DEF ByteAt
  <2> QED BY <2>4, <2>5
<1> HIDE DEF n
<1>5. Leads(at, Quotes(s), n) BY <1>1, <1>2, <1>3, <1>4, Zenon DEF Leads
<1>6. Typed(at, CharacterType) BY <1>1, <1>2, Zenon DEF Typed
<1> QED BY <1>5, <1>6 DEF n, at

(***************************************************************************)
(* The code points of characters.                                          *)
(***************************************************************************)
JoinedPoint(a, b) == 65536 + (a.point % 1024) * 1024 + (b.point % 1024)

(* What Points says of n characters, given what it says of fewer.          *)
PointsAt(chars, f, n) ==
  IF n = 0 THEN <<>>
  ELSE IF n > 1 /\ Joins(chars[n - 1], chars[n])
    THEN Append(f[n - 2], JoinedPoint(chars[n - 1], chars[n]))
  ELSE Append(f[n - 1], chars[n].point)

ArePoints(f, chars, n) == f = [k \in 0..n |-> PointsAt(chars, f, k)]

LEMMA PointsAtSame ==
  ASSUME NEW n \in Nat, NEW chars, NEW f, NEW g,
         \A m \in 0..(n - 1) : f[m] = g[m]
  PROVE  PointsAt(chars, f, n) = PointsAt(chars, g, n)
<1>1. CASE n = 0 BY <1>1 DEF PointsAt
<1>2. CASE n > 0
  <2>1. n - 1 \in 0..(n - 1) /\ (n > 1 => n - 2 \in 0..(n - 1)) BY <1>2
  <2>2. f[n - 1] = g[n - 1] /\ (n > 1 => f[n - 2] = g[n - 2]) BY <2>1
  <2> QED BY <2>2, <1>2, Zenon DEF PointsAt
<1> QED BY <1>1, <1>2

(* The recursive definition is sound.                                      *)
LEMMA PointsExist ==
  ASSUME NEW n \in Nat, NEW chars
  PROVE  \E f : ArePoints(f, chars, n)
<1> DEFINE K == {k \in Nat : \E f : ArePoints(f, chars, k)}
<1>1. ASSUME NEW k \in Nat, \A m \in 0..(k - 1) : m \in K
      PROVE  k \in K
  <2>1. PICK h : k > 0 => ArePoints(h, chars, k - 1)
    <3>1. k > 0 => k - 1 \in 0..(k - 1) OBVIOUS
    <3>2. k > 0 => k - 1 \in K BY <1>1, <3>1
    <3> QED BY <3>2
  <2> DEFINE g == [m \in 0..k |-> IF m = k THEN PointsAt(chars, h, k) ELSE h[m]]
  <2>2. g = [m \in 0..k |-> g[m]] /\ g[k] = PointsAt(chars, h, k) OBVIOUS
  <2>3. \A m \in 0..(k - 1) : g[m] = h[m]
    <3>1. \A m \in 0..(k - 1) : m \in 0..k /\ m # k OBVIOUS
    <3> QED BY <3>1, Zenon
  <2>4. \A m \in 0..(k - 1) : h[m] = PointsAt(chars, h, m)
    BY <2>1 DEF ArePoints
  <2> HIDE DEF g
  <2>5. ASSUME NEW m \in 0..k PROVE g[m] = PointsAt(chars, g, m)
    <3>1. m \in Nat /\ \A j \in 0..(m - 1) : g[j] = h[j] BY <2>3
    <3>2. PointsAt(chars, g, m) = PointsAt(chars, h, m) BY <3>1, PointsAtSame
    <3>3. m = k \/ m \in 0..(k - 1) OBVIOUS
    <3> QED BY <2>2, <2>3, <2>4, <3>2, <3>3, Zenon
  <2>6. ArePoints(g, chars, k) BY <2>2, <2>5 DEF ArePoints
  <2> QED BY <2>6
<1> HIDE DEF K
<1>2. Nat \subseteq K BY <1>1, Induction
<1>3. n \in K BY <1>2
<1> QED BY <1>3 DEF K

LEMMA PointsFunction ==
  ASSUME NEW S, NEW chars \in Seq(S)
  PROVE  \E f : ArePoints(f, chars, Len(chars)) /\ Points(chars) = f[Len(chars)]
<1> DEFINE n == Len(chars)
           p == CHOOSE f : ArePoints(f, chars, n)
<1>1. n \in Nat OBVIOUS
<1>2. ArePoints(p, chars, n) BY <1>1, PointsExist
<1>3. Points(chars) = p[n]
  BY SMT DEF Points, ArePoints, PointsAt, JoinedPoint
<1> HIDE DEF p
<1> QED BY <1>2, <1>3

(* Characters that begin alike have points that begin alike.               *)
LEMMA PointsPrefix ==
  ASSUME NEW a \in Nat, NEW b \in Nat, NEW x, NEW y, NEW f, NEW g,
         ArePoints(f, x, a), ArePoints(g, y, b),
         NEW m \in Nat, m <= a, m <= b, \A k \in 1..m : x[k] = y[k]
  PROVE  f[m] = g[m]
<1> DEFINE K == {k \in Nat : k <= m => f[k] = g[k]}
<1>1. ASSUME NEW k \in Nat, \A j \in 0..(k - 1) : j \in K
      PROVE  k \in K
  <2> SUFFICES ASSUME k <= m PROVE f[k] = g[k] OBVIOUS
  <2>1. k \in 0..a /\ k \in 0..b OBVIOUS
  <2>2. f[k] = PointsAt(x, f, k) BY <2>1 DEF ArePoints
  <2>3. g[k] = PointsAt(y, g, k) BY <2>1 DEF ArePoints
  <2>4. \A j \in 0..(k - 1) : f[j] = g[j] BY <1>1
  <2>5. PointsAt(x, f, k) = PointsAt(x, g, k) BY <2>4, PointsAtSame
  <2>6. PointsAt(x, g, k) = PointsAt(y, g, k)
    <3>1. CASE k = 0 BY <3>1 DEF PointsAt
    <3>2. CASE k > 0
      <4>1. k \in 1..m /\ (k > 1 => k - 1 \in 1..m) BY <3>2
      <4>2. x[k] = y[k] /\ (k > 1 => x[k - 1] = y[k - 1]) BY <4>1
      <4> QED BY <4>2, <3>2, Zenon DEF PointsAt
    <3> QED BY <3>1, <3>2
  <2> QED BY <2>2, <2>3, <2>5, <2>6
<1> HIDE DEF K
<1>2. Nat \subseteq K BY <1>1, Induction
<1>3. m \in K /\ m <= m BY <1>2
<1> QED BY <1>3 DEF K

(* The characters end with an escaped high surrogate.                      *)
EndsHigh(chars) ==
  /\ Len(chars) > 0
  /\ chars[Len(chars)].escaped /\ chars[Len(chars)].point \in Highs

LEMMA NoPoints == Points(<<>>) = <<>>
<1>1. <<>> \in Seq({}) /\ Len(<<>>) = 0 OBVIOUS
<1>2. PICK f : ArePoints(f, <<>>, 0) /\ Points(<<>>) = f[0]
  BY <1>1, PointsFunction
<1> QED BY <1>2 DEF ArePoints, PointsAt

(* A character more, when it does not join with the last one.              *)
LEMMA PointsMore ==
  ASSUME NEW chars \in Seq(CharacterType), NEW c \in CharacterType
  PROVE  /\ ~(EndsHigh(chars) /\ c.escaped /\ c.point \in Lows) =>
              Points(Append(chars, c)) = Append(Points(chars), c.point)
         /\ EndsHigh(chars) /\ c.escaped /\ c.point \in Lows =>
              Points(Append(chars, c))
                = Append(Points(SubSeq(chars, 1, Len(chars) - 1)),
                         JoinedPoint(chars[Len(chars)], c))
<1> DEFINE n == Len(chars)
           more == Append(chars, c)
<1>0. n \in Nat OBVIOUS
<1>1. /\ more \in Seq(CharacterType) /\ Len(more) = n + 1 /\ more[n + 1] = c
      /\ \A k \in 1..n : more[k] = chars[k]
  OBVIOUS
<1>2. PICK f : ArePoints(f, chars, n) /\ Points(chars) = f[n]
  BY PointsFunction
<1> HIDE DEF more
<1>3. PICK g : ArePoints(g, more, n + 1) /\ Points(more) = g[n + 1]
  <2>1. \E h : ArePoints(h, more, Len(more)) /\ Points(more) = h[Len(more)]
    BY <1>1, PointsFunction
  <2> QED BY <2>1, <1>1, Zenon
<1> HIDE DEF n
<1>4. f[n] = g[n]
  <2>1. n + 1 \in Nat /\ n <= n /\ n <= n + 1 BY <1>0
  <2>2. \A k \in 1..n : chars[k] = more[k] BY <1>1
  <2> QED BY <2>1, <2>2, <1>0, <1>2, <1>3, PointsPrefix
<1>5. g[n + 1] = PointsAt(more, g, n + 1)
  <2>1. n + 1 \in 0..(n + 1) BY <1>0
  <2> QED BY <2>1, <1>3 DEF ArePoints
<1>6. n + 1 # 0 /\ (n + 1 > 1 <=> n > 0) /\ n + 1 - 1 = n /\ n + 1 - 2 = n - 1
  BY <1>0
<1>7. n > 0 => more[n] = chars[n] BY <1>0, <1>1
<1>8. n > 0 /\ Joins(more[n], c) <=> EndsHigh(chars) /\ c.escaped /\ c.point \in Lows
  BY <1>7, Zenon DEF Joins, EndsHigh, n
<1>9. g[n + 1] = IF EndsHigh(chars) /\ c.escaped /\ c.point \in Lows
                   THEN Append(g[n - 1], JoinedPoint(more[n], c))
                   ELSE Append(g[n], c.point)
  <2>1. PICK k \in Nat : k = n + 1 BY <1>0
  <2>3. k # 0 /\ k - 1 = n /\ k - 2 = n - 1 /\ (k > 1 <=> n > 0) BY <1>0, <2>1
  <2>4. k # 0 BY <2>3
  <2>5. PointsAt(more, g, k) = IF k > 1 /\ Joins(more[k - 1], more[k])
              THEN Append(g[k - 2], JoinedPoint(more[k - 1], more[k]))
              ELSE Append(g[k - 1], more[k].point)
    BY <2>4, Zenon DEF PointsAt
  <2>6. more[k] = c BY <1>1, <2>1
  <2>2. PointsAt(more, g, n + 1)
          = IF n > 0 /\ Joins(more[n], c)
              THEN Append(g[n - 1], JoinedPoint(more[n], c))
              ELSE Append(g[n], c.point)
    <3>1. PointsAt(more, g, k) = IF n > 0 /\ Joins(more[n], c)
              THEN Append(g[n - 1], JoinedPoint(more[n], c))
              ELSE Append(g[n], c.point)
      BY <2>3, <2>5, <2>6
    <3> QED BY <3>1, <2>1
  <2> QED BY <2>2, <1>5, <1>8, Zenon
<1>10. ASSUME EndsHigh(chars)
       PROVE  g[n - 1] = Points(SubSeq(chars, 1, n - 1)) /\ more[n] = chars[n]
  <2>1. n > 0 BY <1>10 DEF EndsHigh, n
  <2> DEFINE fewer == SubSeq(chars, 1, n - 1)
  <2>2. /\ fewer \in Seq(CharacterType) /\ Len(fewer) = n - 1
        /\ \A k \in 1..(n - 1) : fewer[k] = chars[k]
    <3>1. n - 1 <= Len(chars) /\ n - 1 \in Nat /\ n - 1 >= 0 BY <1>0, <2>1 DEF n
    <3>2. \A k \in 1..(n - 1) : k \in 1..Len(chars) BY <1>0 DEF n
    <3>3. \A k \in 1..(n - 1) : chars[k] \in CharacterType
      BY <3>2, ElementOfSeq
    <3>4. fewer = [k \in 1..(n - 1) |-> chars[k]] BY <3>1
    <3>5. fewer \in Seq(CharacterType) BY <3>1, <3>3, <3>4
    <3>6. Len(fewer) = n - 1 BY <3>1, <3>4
    <3> HIDE DEF fewer
    <3> QED BY <3>4, <3>5, <3>6
  <2> HIDE DEF fewer
  <2>3. PICK h : ArePoints(h, fewer, n - 1) /\ Points(fewer) = h[n - 1]
    <3>1. \E h : ArePoints(h, fewer, Len(fewer)) /\ Points(fewer) = h[Len(fewer)]
      BY <2>2, PointsFunction
    <3> QED BY <3>1, <2>2, Zenon
  <2>4. n - 1 \in Nat /\ n + 1 \in Nat /\ n - 1 <= n - 1 /\ n - 1 <= n + 1
    BY <1>0, <2>1
  <2>5. \A k \in 1..(n - 1) : fewer[k] = more[k]
    <3>1. \A k \in 1..(n - 1) : k \in 1..n BY <1>0
    <3> QED BY <3>1, <2>2, <1>1
  <2>6. h[n - 1] = g[n - 1] BY <2>3, <2>4, <2>5, <1>3, PointsPrefix
  <2> QED BY <2>1, <2>3, <2>6, <1>7 DEF fewer
<1> QED BY <1>2, <1>3, <1>4, <1>9, <1>10, Zenon DEF n, more

LEMMA PointsType ==
  ASSUME NEW chars \in Seq(CharacterType)
  PROVE  Points(chars) \in Seq(Int)
<1> DEFINE n == Len(chars)
<1>1. PICK f : ArePoints(f, chars, n) /\ Points(chars) = f[n]
  BY PointsFunction
<1>2. n \in Nat OBVIOUS
<1> DEFINE K == {k \in Nat : k <= n => f[k] \in Seq(Int)}
<1>3. ASSUME NEW k \in Nat, \A j \in 0..(k - 1) : j \in K
      PROVE  k \in K
  <2> SUFFICES ASSUME k <= n PROVE f[k] \in Seq(Int) OBVIOUS
  <2>1. k \in 0..n OBVIOUS
  <2>2. f[k] = PointsAt(chars, f, k) BY <2>1, <1>1 DEF ArePoints
  <2>3. CASE k = 0
    <3>1. f[k] = <<>> BY <2>2, <2>3 DEF PointsAt
    <3> QED BY <3>1
  <2>4. CASE k > 0
    <3>1. k - 1 \in 0..(k - 1) /\ k - 1 <= n /\ k \in 1..n
          /\ (k > 1 => k - 2 \in 0..(k - 1) /\ k - 2 <= n /\ k - 1 \in 1..n)
      BY <2>4
    <3>2. f[k - 1] \in Seq(Int) /\ (k > 1 => f[k - 2] \in Seq(Int))
      BY <3>1, <1>3
    <3>3. chars[k] \in CharacterType /\ (k > 1 => chars[k - 1] \in CharacterType)
      BY <3>1, ElementOfSeq
    <3>4. chars[k].point \in Int /\ (k > 1 => chars[k - 1].point \in Int)
      BY <3>3 DEF CharacterType
    <3>5. k > 1 => JoinedPoint(chars[k - 1], chars[k]) \in Int
      BY <3>4, SMT DEF JoinedPoint
    <3>6. f[k] = IF k > 1 /\ Joins(chars[k - 1], chars[k])
                   THEN Append(f[k - 2], JoinedPoint(chars[k - 1], chars[k]))
                   ELSE Append(f[k - 1], chars[k].point)
      BY <2>2, <2>4 DEF PointsAt
    <3>7. k > 1 => Append(f[k - 2], JoinedPoint(chars[k - 1], chars[k])) \in Seq(Int)
      BY <3>2, <3>5
    <3>8. Append(f[k - 1], chars[k].point) \in Seq(Int) BY <3>2, <3>4
    <3> QED BY <3>6, <3>7, <3>8, Zenon
  <2> QED BY <2>3, <2>4
<1> HIDE DEF K
<1>4. Nat \subseteq K BY <1>3, Induction
<1>5. n \in K /\ n <= n BY <1>4
<1>6. f[n] \in Seq(Int) BY <1>5 DEF K
<1> QED BY <1>1, <1>6

(* A high surrogate is written as it is, and waits for a low one.          *)
LEMMA PointsJoin ==
  ASSUME NEW chars \in Seq(CharacterType), EndsHigh(chars)
  PROVE  /\ Points(chars) # <<>>
         /\ Points(chars)[Len(Points(chars))] = chars[Len(chars)].point
         /\ \A c \in CharacterType : c.escaped /\ c.point \in Lows =>
              Points(Append(chars, c))
                = [Points(chars) EXCEPT ![Len(Points(chars))]
                     = JoinedPoint(chars[Len(chars)], c)]
<1> DEFINE n == Len(chars)
           z == chars[n]
           fewer == SubSeq(chars, 1, n - 1)
           p == Points(fewer)
<1>1. n \in Nat /\ n > 0 /\ n \in 1..n /\ n - 1 \in Nat BY DEF EndsHigh
<1>2. z \in CharacterType BY <1>1, ElementOfSeq
<1>3. fewer \in Seq(CharacterType)
  <2>1. \A k \in 1..(n - 1) : k \in 1..Len(chars) BY <1>1
  <2>2. \A k \in 1..(n - 1) : chars[k] \in CharacterType
    BY <2>1, ElementOfSeq
  <2>3. fewer = [k \in 1..(n - 1) |-> chars[k]] BY <1>1
  <2>4. fewer \in Seq(CharacterType) BY <1>1, <2>2, <2>3
  <2> QED BY <2>4
<1>14. /\ Len(fewer) = n - 1
       /\ \A k \in 1..(n - 1) : fewer[k] = chars[k]
  <2>1. n - 1 <= Len(chars) BY <1>1
  <2>2. fewer = [k \in 1..(n - 1) |-> chars[k]] BY <1>1, <2>1
  <2> HIDE DEF fewer, n
  <2>3. Len(fewer) = n - 1 BY <1>1, <2>2
  <2> QED BY <2>2, <2>3
<1>4. chars = Append(fewer, z)
  <2>1. /\ Len(fewer) = n - 1
        /\ \A k \in 1..(n - 1) : fewer[k] = chars[k]
    BY <1>14
  <2> HIDE DEF fewer
  <2>2. /\ Append(fewer, z) \in Seq(CharacterType) /\ Len(Append(fewer, z)) = n
        /\ Append(fewer, z)[n] = z
        /\ \A k \in 1..(n - 1) : Append(fewer, z)[k] = fewer[k]
    BY <1>1, <1>2, <1>3, <2>1
  <2>3. \A k \in 1..n : Append(fewer, z)[k] = chars[k]
    <3>1. \A k \in 1..n : k = n \/ k \in 1..(n - 1) BY <1>1
    <3> QED BY <2>1, <2>2, <3>1
  <2> QED BY <2>2, <2>3, SeqEqual
<1>5. z.point \in Highs /\ z.point \notin Lows
  <2>1. z.point \in Highs BY Zenon DEF EndsHigh
  <2>2. \A h \in Highs : h \notin Lows
    <3>1. \A h \in Highs : h \in Int /\ h <= 56319 BY SMT DEF Highs
    <3>2. \A h \in Lows : h \in Int /\ h >= 56320 BY SMT DEF Lows
    <3>3. \A h \in Int : ~(h <= 56319 /\ h >= 56320) BY SMT
    <3> QED BY <3>1, <3>2, <3>3, SMT
  <2> HIDE DEF z
  <2> QED BY <2>1, <2>2, Zenon
<1>6. Points(chars) = Append(p, z.point)
  <2> HIDE DEF fewer, z
  <2>1. Points(Append(fewer, z)) = Append(Points(fewer), z.point)
    BY <1>2, <1>3, <1>5, PointsMore, Zenon
  <2> QED BY <2>1, <1>4
<1>7. p \in Seq(Int) BY <1>3, PointsType
<1>8. z.point \in Int BY <1>2 DEF CharacterType
<1> HIDE DEF p, z
<1>9. /\ Points(chars) # <<>> /\ Len(Points(chars)) = Len(p) + 1
      /\ Points(chars)[Len(Points(chars))] = z.point
      /\ \A y \in Int : [Points(chars) EXCEPT ![Len(Points(chars))] = y]
                          = Append(p, y)
  <2>1. Points(chars) \in Seq(Int) /\ Points(chars) # <<>>
        /\ Len(Points(chars)) = Len(p) + 1
        /\ Points(chars)[Len(p) + 1] = z.point
        /\ \A k \in 1..Len(p) : Points(chars)[k] = p[k]
    BY <1>6, <1>7, <1>8
  <2>2. ASSUME NEW y \in Int
        PROVE  [Points(chars) EXCEPT ![Len(Points(chars))] = y] = Append(p, y)
    <3> DEFINE e == [Points(chars) EXCEPT ![Len(Points(chars))] = y]
               q == Append(p, y)
    <3>1. /\ e \in Seq(Int) /\ Len(e) = Len(p) + 1
          /\ e[Len(p) + 1] = y
          /\ \A k \in 1..Len(p) : e[k] = p[k]
      BY <2>1
    <3>2. /\ q \in Seq(Int) /\ Len(q) = Len(p) + 1
          /\ q[Len(p) + 1] = y
          /\ \A k \in 1..Len(p) : q[k] = p[k]
      BY <1>7
    <3>3. Len(p) \in Nat BY <1>7
    <3> HIDE DEF e, q
    <3>4. \A k \in 1..Len(e) : e[k] = q[k]
      <4>1. \A k \in 1..Len(e) : k = Len(p) + 1 \/ k \in 1..Len(p)
        BY <3>1, <3>3
      <4> QED BY <4>1, <3>1, <3>2
    <3>5. e = q BY <3>1, <3>2, <3>4, SeqEqual
    <3> QED BY <3>5 DEF e, q
  <2> QED BY <2>1, <2>2
<1>10. ASSUME NEW c \in CharacterType, c.escaped /\ c.point \in Lows
       PROVE  Points(Append(chars, c)) = Append(p, JoinedPoint(z, c))
  BY <1>10, PointsMore, Zenon DEF p, z
<1>11. \A c \in CharacterType : JoinedPoint(z, c) \in Int
  <2>1. \A c \in CharacterType : c.point \in Int BY DEF CharacterType
  <2> QED BY <1>8, <2>1, SMT DEF JoinedPoint
<1>12. ASSUME NEW c \in CharacterType, c.escaped /\ c.point \in Lows
       PROVE  Points(Append(chars, c))
                = [Points(chars) EXCEPT ![Len(Points(chars))]
                     = JoinedPoint(z, c)]
  BY <1>9, <1>10, <1>11, <1>12, Zenon
<1> QED BY <1>9, <1>12, Zenon DEF z

LEMMA EndsHighMore ==
  ASSUME NEW chars \in Seq(CharacterType), NEW c \in CharacterType
  PROVE  EndsHigh(Append(chars, c)) <=> c.escaped /\ c.point \in Highs
<1>1. Len(Append(chars, c)) = Len(chars) + 1 /\ Len(chars) \in Nat
      /\ Append(chars, c)[Len(chars) + 1] = c
  OBVIOUS
<1>2. Len(Append(chars, c)) > 0 BY <1>1
<1>3. Append(chars, c)[Len(Append(chars, c))] = c BY <1>1
<1> QED BY <1>2, <1>3, Zenon DEF EndsHigh

(***************************************************************************)
(* What a byte says of the character that begins there.                    *)
(***************************************************************************)
LEMMA LeadForms ==
  ASSUME NEW s \in Seq(Byte), NEW i \in Nat \ {0}, NEW n, NEW c,
         CharacterForm(s, i, n, c)
  PROVE  /\ ByteAt(s, i) \notin {0} \cup 128..191 \cup 245..255
         /\ ByteAt(s, i) \in 192..223 => IsTwo(ByteAt(s, i), ByteAt(s, i + 1))
         /\ ByteAt(s, i) \in 224..239 =>
              IsThree(ByteAt(s, i), ByteAt(s, i + 1), ByteAt(s, i + 2))
         /\ ByteAt(s, i) \in 240..244 =>
              IsFour(ByteAt(s, i), ByteAt(s, i + 1), ByteAt(s, i + 2),
                     ByteAt(s, i + 3))
         /\ ByteAt(s, i) = 92 /\ ByteAt(s, i + 1) # 117 =>
              ByteAt(s, i + 1) \in EscapeLetter
         /\ ByteAt(s, i) = 92 /\ ByteAt(s, i + 1) = 117 => HexAt(s, i)
<1> DEFINE a == ByteAt(s, i)
           b == ByteAt(s, i + 1)
           d == ByteAt(s, i + 2)
           e == ByteAt(s, i + 3)
<1>1. CASE PlainForm(s, i, n, c)
  <2>1. PICK p : SequenceForm(s, i, n, p) /\ p \notin {0, 34, 92}
    BY <1>1, Zenon DEF PlainForm
  <2>2. \/ a < 128 /\ p = a
        \/ IsTwo(a, b)
        \/ IsThree(a, b, d)
        \/ IsFour(a, b, d, e)
    BY <2>1, Zenon DEF SequenceForm
  <2>3. a # 92
    <3>1. a = p \/ a \in 192..244 BY <2>1, FormFirst, Zenon
    <3>2. p # 92 BY <2>1
    <3>3. \A x \in 192..244 : x # 92 OBVIOUS
    <3>4. a \in 192..244 => a # 92 BY <3>3, Zenon
    <3> QED BY <3>1, <3>2, <3>4, Zenon
  <2>4. a \in 0..255 BY ByteAtType
  <2>5. IsTwo(a, b) => a \in 192..223 BY Zenon DEF IsTwo
  <2>6. IsThree(a, b, d) => a \in 224..239 BY SMT DEF IsThree
  <2>7. IsFour(a, b, d, e) => a \in 240..244 BY SMT DEF IsFour
  <2>12. p # 0 BY <2>1
  <2> HIDE DEF a, b, d, e
  <2>8. CASE a < 128 /\ p = a
    <3>1. a \notin {0} \cup 128..191 \cup 245..255 /\ a \notin 192..223
          /\ a \notin 224..239 /\ a \notin 240..244
      BY <2>4, <2>8, <2>12
    <3> QED BY <2>3, <3>1, Zenon DEF a, b, d, e
  <2>9. CASE IsTwo(a, b)
    <3>0. a \in 192..223 BY <2>5, <2>9, Zenon
    <3>1. a \notin {0} \cup 128..191 \cup 245..255
          /\ a \notin 224..239 /\ a \notin 240..244
      BY <3>0
    <3> QED BY <2>3, <2>9, <3>1, Zenon DEF a, b, d, e
  <2>10. CASE IsThree(a, b, d)
    <3>0. a \in 224..239 BY <2>6, <2>10, Zenon
    <3>1. a \notin {0} \cup 128..191 \cup 245..255
          /\ a \notin 192..223 /\ a \notin 240..244
      BY <3>0
    <3> QED BY <2>3, <2>10, <3>1, Zenon DEF a, b, d, e
  <2>11. CASE IsFour(a, b, d, e)
    <3>0. a \in 240..244 BY <2>7, <2>11, Zenon
    <3>1. a \notin {0} \cup 128..191 \cup 245..255
          /\ a \notin 192..223 /\ a \notin 224..239
      BY <3>0
    <3> QED BY <2>3, <2>11, <3>1, Zenon DEF a, b, d, e
  <2> QED BY <2>2, <2>8, <2>9, <2>10, <2>11, Zenon
<1>2. CASE LetterForm(s, i, n, c) \/ UnicodeForm(s, i, n, c)
  <2>1. ByteAt(s, i) = 92 /\ (\/ ByteAt(s, i + 1) \in EscapeLetter
                              \/ ByteAt(s, i + 1) = 117 /\ HexAt(s, i))
    BY <1>2, Zenon DEF LetterForm, UnicodeForm
  <2>2. a \notin {0} \cup 128..191 \cup 245..255 /\ a \notin 192..223
        /\ a \notin 224..239 /\ a \notin 240..244
    BY <2>1
  <2>3. 117 \notin EscapeLetter BY DEF EscapeLetter
  <2>4. b # 117 => b \in EscapeLetter BY <2>1, Zenon
  <2>5. b = 117 => HexAt(s, i) BY <2>1, <2>3, Zenon
  <2> HIDE DEF a, b, d, e
  <2> QED BY <2>2, <2>4, <2>5, Zenon DEF a, b, d, e
<1> QED BY <1>1, <1>2, Zenon DEF CharacterForm

(* The digits of an escape, kept in sixteen bits.                          *)
IsShifted(x, h, y) == y = (x * 16 + h) % 65536
HasDigits(x, h, y) ==
  /\ y % 16 = h
  /\ y % 256 = (x % 16) * 16 + h
  /\ y % 4096 = (x % 256) * 16 + h
  /\ y = (x % 4096) * 16 + h

LEMMA ShiftedDigits ==
  ASSUME NEW x \in Nat, NEW h \in 0..15, NEW y, IsShifted(x, h, y)
  PROVE  HasDigits(x, h, y)
<1> DEFINE k == (x * 16 + h) \div 65536
<1>1. x * 16 + h = k * 65536 + y /\ y \in Nat /\ k \in Nat /\ y < 65536
  BY SMT DEF IsShifted
<1> HIDE DEF k
<1>2. ASSUME NEW r \in Nat, NEW q \in Nat, x = q * 4096 + r, r < 4096
      PROVE  y = r * 16 + h
  BY <1>1, <1>2, SMT
<1>3. y = (x % 4096) * 16 + h
  <2>1. x = (x \div 4096) * 4096 + (x % 4096) /\ x \div 4096 \in Nat
        /\ (x % 4096) \in Nat /\ (x % 4096) < 4096
    BY SMT
  <2> QED BY <2>1, <1>2, SMT
<1>4. y % 16 = h /\ y % 256 = (x % 16) * 16 + h /\ y % 4096 = (x % 256) * 16 + h
  <2>1. (x % 4096) % 16 = x % 16 /\ (x % 4096) % 256 = x % 256 BY SMT
  <2>2. \A r \in Nat : (r * 16 + h) % 16 = h BY SMT
  <2>3. \A r \in Nat : (r * 16 + h) % 256 = (r % 16) * 16 + h BY SMT
  <2>4. \A r \in Nat : (r * 16 + h) % 4096 = (r % 256) * 16 + h BY SMT
  <2>5. (x % 4096) \in Nat BY SMT
  <2>6. y % 16 = h BY <1>3, <2>2, <2>5, SMT
  <2>7. y % 256 = (x % 16) * 16 + h BY <1>3, <2>1, <2>3, <2>5, SMT
  <2>8. y % 4096 = (x % 256) * 16 + h BY <1>3, <2>1, <2>4, <2>5, SMT
  <2> QED BY <2>6, <2>7, <2>8, SMT
<1> QED BY <1>3, <1>4, SMT DEF HasDigits

(***************************************************************************)
(* The meaning of what was read.                                           *)
(***************************************************************************)
(* Where the character being read began, and its bytes.                    *)
First == IF pc = "cont" THEN pos - (size - left)
         ELSE IF pc = "escape" THEN pos - 1
         ELSE IF pc = "hex" THEN pos - 6 + left ELSE pos

(* What the locals hold of the bytes from place f on.                      *)
PartialSequence(f) ==
  LET b(k) == ByteAt(text, f + k)
  IN \/ size = 2 /\ left = 1 /\ b(0) \in 192..223 /\ ucs = b(0) % 32
     \/ size = 3 /\ left = 2 /\ b(0) \in 224..239 /\ ucs = b(0) % 16
     \/ /\ size = 3 /\ left = 1 /\ b(0) \in 224..239 /\ b(1) \in 128..191
        /\ ucs = (b(0) % 16) * 64 + (b(1) % 64)
     \/ size = 4 /\ left = 3 /\ b(0) \in 240..244 /\ ucs = b(0) % 8
     \/ /\ size = 4 /\ left = 2 /\ b(0) \in 240..244 /\ b(1) \in 128..191
        /\ ucs = (b(0) % 8) * 64 + (b(1) % 64)
     \/ /\ size = 4 /\ left = 1 /\ b(0) \in 240..244 /\ b(1) \in 128..191
        /\ b(2) \in 128..191
        /\ ucs = ((b(0) % 8) * 64 + (b(1) % 64)) * 64 + (b(2) % 64)

PartialUnit(f) ==
  LET b(k) == ByteAt(text, f + k)
      h(k) == HexValue(b(k))
  IN /\ b(0) = 92 /\ b(1) = 117
     /\ \/ left = 4
        \/ left = 3 /\ b(2) \in HexDigit /\ ch % 16 = h(2)
        \/ /\ left = 2 /\ b(2) \in HexDigit /\ b(3) \in HexDigit
           /\ ch % 256 = h(2) * 16 + h(3)
        \/ /\ left = 1 /\ b(2) \in HexDigit /\ b(3) \in HexDigit
           /\ b(4) \in HexDigit
           /\ ch % 4096 = h(2) * 256 + h(3) * 16 + h(4)

Partial ==
  /\ pc = "cont" => PartialSequence(First)
  /\ pc = "escape" => ByteAt(text, First) = 92
  /\ pc = "hex" => PartialUnit(First)

(* The characters up to place f, and what was written for them.            *)
HasRead(chars, f) ==
  /\ Parse(CharacterPlaces(text), start, f, chars)
  /\ out = Points(chars)
  /\ high <= f
  /\ high = f <=> EndsHigh(chars)

Meaning ==
  pc \in Reading =>
    Partial /\ \E chars \in Seq(CharacterType) : HasRead(chars, First)

(* What made it an error: a place no character begins at.                  *)
Meaningless ==
  pc = "error" /\ escStart # "null" /\ BeginsInText =>
    /\ start \in 1..(Len(text) + 1)
    /\ \E j \in 1..(Len(text) + 1) : \E chars \in Seq(CharacterType) :
         /\ Parse(CharacterPlaces(text), start, j, chars)
         /\ CharacterPlaces(text)[j] = {} /\ j \notin Quotes(text)

MInv == IInv /\ Meaning /\ Meaningless

LEMMA AtByte ==
  /\ \A i : At(i) = ByteAt(text, i)
  /\ Oct = ByteAt(text, pos)
BY Zenon DEF At, Oct, ByteAt

LEMMA FirstType ==
  ASSUME MInv, pc \in Reading
  PROVE  /\ start \in 1..(Len(text) + 1) /\ First \in 1..(Len(text) + 1)
         /\ First \in Nat \ {0} /\ text \in Seq(Byte) /\ Len(text) \in Nat
<1>1. text \in Seq(Byte) /\ Len(text) \in Nat BY DEF MInv, IInv, TypeOK
<1>2. start \in 1..(Len(text) + 1)
  BY <1>1 DEF MInv, IInv, TypeOK, Written, StopsAtNull
<1>3. PICK chars \in Seq(CharacterType) :
        Parse(CharacterPlaces(text), start, First, chars)
  BY Zenon DEF MInv, Meaning, HasRead
<1>4. Leads(CharacterPlaces(text), Quotes(text), Len(text) + 1)
  BY <1>1, CharacterLeads
<1>5. Len(text) + 1 \in Nat BY <1>1
<1>6. First \in 1..(Len(text) + 1)
  BY <1>2, <1>3, <1>4, <1>5, ParseRange, Zenon
<1>7. First \in Nat \ {0} BY <1>6
<1> QED BY <1>1, <1>2, <1>6, <1>7

(* At the start nothing was read.                                          *)
LEMMA FreshMInv ==
  ASSUME text \in Seq(Byte), end \in 0..Len(text), Fresh PROVE MInv
<1>1. IInv BY FreshIInv
<1>2. Meaning /\ Meaningless BY DEF Fresh, Meaning, Meaningless, Reading
<1> QED BY <1>1, <1>2 DEF MInv

(* A string starts with no character.                                      *)
LEMMA BeginMeans ==
  ASSUME IInv, BeginString \/ BeginReserve \/ BeginNoMemory \/ BeginBehind
  PROVE  Meaning' /\ Meaningless'
<1>1. CASE BeginNoMemory
  BY <1>1 DEF BeginNoMemory, Meaning, Meaningless, Reading
<1>3. CASE BeginBehind
  <2>1. pc' = "error" BY <1>3 DEF BeginBehind
  <2>5. ~(start' <= end' + 1)
    BY <1>3 DEF BeginBehind, BeginAt, IInv, TypeOK
  <2>2. ~BeginsInText' BY <2>5, Zenon DEF BeginsInText
  <2>3. Meaning' BY <2>1 DEF Meaning, Reading
  <2>4. Meaningless' BY <2>2, Zenon DEF Meaningless
  <2> QED BY <2>3, <2>4
<1>2. CASE BeginString \/ BeginReserve
  <2>1. PICK quote \in 1..end : BeginAt(quote) /\ Scan(quote)
    BY <1>2 DEF BeginString, BeginReserve
  <2>2. /\ pc' = "char" /\ pos' = quote + 1 /\ start' = quote + 1
        /\ out' = <<>> /\ high' = 0 /\ quote + 1 \in Nat
    BY <2>1 DEF BeginAt, Scan, IInv, TypeOK
  <2>3. First' = quote + 1 BY <2>2 DEF First
  <2>4. Parse(CharacterPlaces(text)', start', First', <<>>)
    BY <2>2, <2>3, ParseNone
  <2>5. <<>> \in Seq(CharacterType) /\ ~EndsHigh(<<>>) BY DEF EndsHigh
  <2>6. high' <= First' /\ high' # First' BY <2>2, <2>3
  <2>7. HasRead(<<>>, First)'
    BY <2>2, <2>4, <2>5, <2>6, NoPoints DEF HasRead
  <2>8. Partial' BY <2>2 DEF Partial
  <2>9. Meaning' BY <2>5, <2>7, <2>8 DEF Meaning
  <2> QED BY <2>2, <2>9 DEF Meaningless
<1> QED BY <1>1, <1>2, <1>3

(* A step within a character.                                              *)
LEMMA WithinMeans ==
  ASSUME MInv, pc \in Reading, pc' \in Reading, First' = First,
         UNCHANGED <<text, start, out, high>>, Partial'
  PROVE  Meaning' /\ Meaningless'
<1>1. PICK chars \in Seq(CharacterType) : HasRead(chars, First)
  BY Zenon DEF MInv, Meaning
<1>2. HasRead(chars, First)'
  BY <1>1 DEF HasRead, CharacterPlaces
<1>3. Meaning' BY <1>2 DEF Meaning
<1>4. pc' # "error" BY DEF Reading
<1> QED BY <1>3, <1>4 DEF Meaningless

(* A step that completes one.                                              *)
LEMMA CompletesMeans ==
  ASSUME MInv, pc \in Reading, pc' = "char", UNCHANGED <<text, start>>,
         NEW n, NEW c, CharacterForm(text, First, n, c), pos' = First + n,
         NEW chars \in Seq(CharacterType), HasRead(chars, First),
         out' = Points(Append(chars, c)), high' <= pos',
         high' = pos' <=> EndsHigh(Append(chars, c))
  PROVE  Meaning' /\ Meaningless'
<1>1. /\ text \in Seq(Byte) /\ First \in 1..(Len(text) + 1)
      /\ First \in Nat \ {0} /\ Len(text) \in Nat
  BY FirstType
<1>2. n \in 1..6 /\ c \in CharacterType BY <1>1, CharacterBytes, Zenon
<1> DEFINE t == [length |-> n, item |-> c]
           at == CharacterPlaces(text)
<1>3. t \in CharacterAt(text, First) BY <1>1, CharacterAtIs, Zenon
<1>4. t \in at[First] /\ First \in DOMAIN at BY <1>1, <1>3 DEF CharacterPlaces
<1>5. t.length = n /\ t.item = c /\ n \in Nat BY <1>2
<1> HIDE DEF t, at
<1>6. Parse(at, start, First, chars) BY DEF HasRead, at
<1>7. Parse(at, start, First + t.length, Append(chars, t.item))
  BY <1>2, <1>4, <1>5, <1>6, ParseAppend, Zenon
<1>8. First' = pos' BY DEF First
<1>9. at' = at BY DEF at, CharacterPlaces
<1>10. Parse(CharacterPlaces(text)', start', First', Append(chars, c))
  BY <1>5, <1>7, <1>8, <1>9 DEF at
<1>11. HasRead(Append(chars, c), First)' BY <1>8, <1>10 DEF HasRead
<1>12. Append(chars, c) \in Seq(CharacterType) BY <1>2
<1>13. Partial' BY DEF Partial
<1>14. Meaning' BY <1>11, <1>12, <1>13 DEF Meaning
<1> QED BY <1>14 DEF Meaningless

(* One that is written as it is.                                           *)
LEMMA BareMeans ==
  ASSUME MInv, pc \in Reading, pc' = "char", UNCHANGED <<text, start, high>>,
         NEW n \in Nat, NEW p, CharacterForm(text, First, n, Bare(p)),
         pos' = First + n, Write(p)
  PROVE  Meaning' /\ Meaningless'
<1>1. /\ text \in Seq(Byte) /\ First \in Nat \ {0}
  BY FirstType
<1>2. n \in 1..6 /\ Bare(p) \in CharacterType BY <1>1, CharacterBytes, Zenon
<1>3. PICK chars \in Seq(CharacterType) : HasRead(chars, First)
  BY Zenon DEF MInv, Meaning
<1>4. Bare(p).escaped = FALSE /\ Bare(p).point = p BY DEF Bare
<1>5. Points(Append(chars, Bare(p))) = Append(Points(chars), p)
  BY <1>2, <1>4, PointsMore, Zenon
<1>6. out' = Points(Append(chars, Bare(p)))
  BY <1>3, <1>5 DEF Write, HasRead
<1>7. ~EndsHigh(Append(chars, Bare(p))) BY <1>2, <1>4, EndsHighMore, Zenon
<1>8. high \in Nat /\ high <= First BY <1>3 DEF HasRead, MInv, IInv, TypeOK
<1>9. high' <= pos' /\ high' # pos' BY <1>1, <1>2, <1>8
<1> QED BY <1>3, <1>6, <1>7, <1>9, CompletesMeans, Zenon

(* A refusal, where no character begins.                                   *)
LEMMA RefuseMeans ==
  ASSUME MInv, pc \in Reading, Refuse,
         \A n, c : ~CharacterForm(text, First, n, c), ByteAt(text, First) # 34
  PROVE  Meaning' /\ Meaningless'
<1>1. /\ text \in Seq(Byte) /\ First \in 1..(Len(text) + 1)
      /\ start \in 1..(Len(text) + 1)
  BY FirstType
<1>2. PICK chars \in Seq(CharacterType) : HasRead(chars, First)
  BY Zenon DEF MInv, Meaning
<1>3. pc' = "error" /\ text' = text /\ start' = start
  BY DEF Refuse, input
<1>4. CharacterAt(text, First) = {}
  <2>1. \A t \in CharacterAt(text, First) :
          CharacterForm(text, First, t.length, t.item)
    BY <1>1, CharacterAtIs, Zenon
  <2> QED BY <2>1
<1>5. CharacterPlaces(text)[First] = {} BY <1>1, <1>4 DEF CharacterPlaces
<1>6. First \notin Quotes(text) BY DEF Quotes, ByteAt
<1>7. Parse(CharacterPlaces(text), start, First, chars) BY <1>2 DEF HasRead
<1>8. CharacterPlaces(text)' = CharacterPlaces(text)
      /\ Quotes(text)' = Quotes(text) /\ Len(text') = Len(text)
  BY <1>3 DEF CharacterPlaces, Quotes
<1>9. Meaningless'
  BY <1>1, <1>3, <1>5, <1>6, <1>7, <1>8, Zenon DEF Meaningless
<1>10. Meaning' BY <1>3 DEF Meaning, Reading
<1> QED BY <1>9, <1>10

(* The step of each action.                                                *)
LEMMA LiteralMeans ==
  ASSUME MInv, LiteralByte PROVE Meaning' /\ Meaningless'
<1>1. /\ pc = "char" /\ pc' = "char" /\ Oct \in Literal /\ Write(Oct)
      /\ pos' = pos + 1 /\ UNCHANGED <<text, start, high>>
  BY DEF LiteralByte, input
<1>2. First = pos BY <1>1 DEF First
<1>3. Oct = ByteAt(text, First) BY <1>2, AtByte
<1>4. /\ text \in Seq(Byte) /\ First \in Nat \ {0} BY <1>1, FirstType DEF Reading
<1>5. First <= Len(text) /\ Oct < 128 /\ Oct \notin {0, 34, 92}
  <2>1. Oct \in 1..127 /\ Oct \notin {34, 92}
    BY <1>1 DEF Literal, Quote, Backslash
  <2>2. Oct # 0 /\ Oct < 128 BY <2>1
  <2>3. First <= Len(text) BY <1>3, <1>4, <2>2, ByteAtType
  <2> QED BY <2>1, <2>2, <2>3
<1>6. SequenceForm(text, First, 1, Oct) BY <1>3, <1>5, Zenon DEF SequenceForm
<1>7. CharacterForm(text, First, 1, Bare(Oct))
  BY <1>5, <1>6, Zenon DEF CharacterForm, PlainForm
<1> QED BY <1>1, <1>2, <1>7, BareMeans DEF Reading

LEMMA LeadMeans ==
  ASSUME MInv, LeadByte PROVE Meaning' /\ Meaningless'
<1>1. PICK length \in 2..4 :
        /\ Oct \in Lead[length]
        /\ ucs' = LeadBits(length) /\ size' = length /\ left' = length - 1
  BY DEF LeadByte, Lead
<1>2. /\ pc = "char" /\ pc' = "cont" /\ pos' = pos + 1
      /\ UNCHANGED <<text, start, out, high>>
  BY DEF LeadByte, input
<1>3. First = pos /\ pos \in Nat BY <1>2 DEF First, MInv, IInv, TypeOK
<1>4. First' = pos' - (size' - left') BY <1>2 DEF First
<1>5. First' = First BY <1>1, <1>2, <1>3, <1>4
<1>6. Oct = ByteAt(text, First + 0) BY <1>3, AtByte
<1>7. PartialSequence(First)'
  <2>1. length = 2 \/ length = 3 \/ length = 4 OBVIOUS
  <2>2. ByteAt(text, First + 0)' = Oct BY <1>2, <1>5, <1>6 DEF ByteAt
  <2>3. CASE length = 2
    <3>1. size' = 2 /\ left' = 1 /\ Oct \in 192..223 /\ ucs' = Oct % 32
      BY <1>1, <2>3 DEF Lead, LeadBits
    <3> QED BY <3>1, <2>2 DEF PartialSequence
  <2>4. CASE length = 3
    <3>1. size' = 3 /\ left' = 2 /\ Oct \in 224..239 /\ ucs' = Oct % 16
      BY <1>1, <2>4 DEF Lead, LeadBits
    <3> QED BY <3>1, <2>2 DEF PartialSequence
  <2>5. CASE length = 4
    <3>1. size' = 4 /\ left' = 3 /\ Oct \in 240..244 /\ ucs' = Oct % 8
      BY <1>1, <2>5 DEF Lead, LeadBits
    <3> QED BY <3>1, <2>2 DEF PartialSequence
  <2> QED BY <2>1, <2>3, <2>4, <2>5
<1>8. Partial' BY <1>2, <1>7 DEF Partial
<1> QED BY <1>2, <1>5, <1>8, WithinMeans DEF Reading

LEMMA EscapeMeans ==
  ASSUME MInv, EscapeByte PROVE Meaning' /\ Meaningless'
<1>1. /\ pc = "char" /\ pc' = "escape" /\ pos' = pos + 1 /\ Oct = 92
      /\ UNCHANGED <<text, start, out, high>>
  BY DEF EscapeByte, input, locals, Backslash
<1>2. First = pos /\ pos \in Nat BY <1>1 DEF First, MInv, IInv, TypeOK
<1>3. First' = First BY <1>1, <1>2 DEF First
<1>4. ByteAt(text, First) = 92 BY <1>1, <1>2, AtByte
<1>5. ByteAt(text, First)' = 92 BY <1>1, <1>3, <1>4 DEF ByteAt
<1>6. Partial' BY <1>1, <1>5 DEF Partial
<1> QED BY <1>1, <1>3, <1>6, WithinMeans DEF Reading

LEMMA BadByteMeans ==
  ASSUME MInv, BadByte PROVE Meaning' /\ Meaningless'
<1>1. pc = "char" /\ Refuse /\ Oct \in {0} \cup 128..191 \cup 245..255
  BY DEF BadByte, Continuation
<1>2. First = pos BY <1>1 DEF First
<1>3. Oct = ByteAt(text, First) BY <1>2, AtByte
<1>4. /\ text \in Seq(Byte) /\ First \in Nat \ {0} BY <1>1, FirstType DEF Reading
<1>5. \A n, c : ~CharacterForm(text, First, n, c)
  <2> SUFFICES ASSUME NEW n, NEW c, CharacterForm(text, First, n, c)
               PROVE  FALSE
    OBVIOUS
  <2>1. ByteAt(text, First) \notin {0} \cup 128..191 \cup 245..255
    BY <1>4, LeadForms
  <2> QED BY <1>1, <1>3, <2>1, Zenon
<1>6. Oct # 34 BY <1>1
<1> QED BY <1>1, <1>3, <1>5, <1>6, RefuseMeans DEF Reading

(* Within a sequence.                                                      *)
LEMMA ContinuationMeans ==
  ASSUME MInv, ContinuationByte PROVE Meaning' /\ Meaningless'
<1>1. /\ pc = "cont" /\ pc' = "cont" /\ Oct \in 128..191 /\ left > 1
      /\ ucs' = Bits /\ left' = left - 1 /\ pos' = pos + 1 /\ size' = size
      /\ UNCHANGED <<text, start, out, high>>
  BY DEF ContinuationByte, input, Continuation
<1>2. First = pos - (size - left) /\ First' = pos' - (size' - left')
      /\ pos \in Nat /\ size \in Nat /\ left \in Nat
  BY <1>1 DEF First, MInv, IInv, TypeOK
<1>3. First' = First BY <1>1, <1>2
<1>4. \A k : ByteAt(text, First + k)' = ByteAt(text, First + k)
  BY <1>1, <1>3 DEF ByteAt
<1>5. PartialSequence(First) /\ ByteAt(text, pos) = Oct
  BY <1>1, AtByte DEF MInv, Meaning, Partial, Reading
<1>6. pos = First + (size - left) BY <1>2
<1>7. PartialSequence(First)'
  <2> DEFINE b(k) == ByteAt(text, First + k)
  <2>1. \/ size = 3 /\ left = 2 /\ b(0) \in 224..239 /\ ucs = b(0) % 16
        \/ size = 4 /\ left = 3 /\ b(0) \in 240..244 /\ ucs = b(0) % 8
        \/ /\ size = 4 /\ left = 2 /\ b(0) \in 240..244 /\ b(1) \in 128..191
           /\ ucs = (b(0) % 8) * 64 + (b(1) % 64)
    BY <1>1, <1>5 DEF PartialSequence
  <2>2. Bits = ucs * 64 + (Oct % 64) BY DEF Bits
  <2>3. CASE size = 3 /\ left = 2 /\ b(0) \in 224..239 /\ ucs = b(0) % 16
    <3>1. Oct = b(1) BY <1>5, <1>6, <2>3
    <3>2. /\ size' = 3 /\ left' = 1 /\ b(0) \in 224..239 /\ b(1) \in 128..191
          /\ ucs' = (b(0) % 16) * 64 + (b(1) % 64)
      BY <1>1, <2>2, <2>3, <3>1
    <3> QED BY <1>4, <3>2 DEF PartialSequence
  <2>4. CASE size = 4 /\ left = 3 /\ b(0) \in 240..244 /\ ucs = b(0) % 8
    <3>1. Oct = b(1) BY <1>5, <1>6, <2>4
    <3>2. /\ size' = 4 /\ left' = 2 /\ b(0) \in 240..244 /\ b(1) \in 128..191
          /\ ucs' = (b(0) % 8) * 64 + (b(1) % 64)
      BY <1>1, <2>2, <2>4, <3>1
    <3> QED BY <1>4, <3>2 DEF PartialSequence
  <2>5. CASE /\ size = 4 /\ left = 2 /\ b(0) \in 240..244 /\ b(1) \in 128..191
             /\ ucs = (b(0) % 8) * 64 + (b(1) % 64)
    <3>1. Oct = b(2) BY <1>5, <1>6, <2>5
    <3>2. /\ size' = 4 /\ left' = 1 /\ b(0) \in 240..244 /\ b(1) \in 128..191
          /\ b(2) \in 128..191
          /\ ucs' = ((b(0) % 8) * 64 + (b(1) % 64)) * 64 + (b(2) % 64)
      BY <1>1, <2>2, <2>5, <3>1
    <3> QED BY <1>4, <3>2 DEF PartialSequence
  <2> QED BY <2>1, <2>3, <2>4, <2>5
<1>8. Partial' BY <1>1, <1>7 DEF Partial
<1> QED BY <1>1, <1>3, <1>8, WithinMeans DEF Reading

(* The last byte of a sequence, within its range or not.                   *)
LEMMA WholeSequence ==
  ASSUME MInv, pc = "cont", Oct \in 128..191, left = 1
  PROVE  /\ pos + 1 = First + size
         /\ InRange(Bits) => SequenceForm(text, First, size, Bits)
         /\ ~InRange(Bits) => \A n, c : ~CharacterForm(text, First, n, c)
<1> DEFINE b(k) == ByteAt(text, First + k)
<1>1. /\ text \in Seq(Byte) /\ First \in Nat \ {0} BY FirstType DEF Reading
<1>2. First = pos - (size - left) /\ pos \in Nat /\ size \in Nat
  BY DEF First, MInv, IInv, TypeOK
<1>3. pos = First + (size - 1) BY <1>2
<1>4. PartialSequence(First) /\ ByteAt(text, pos) = Oct
  BY AtByte DEF MInv, Meaning, Partial, Reading
<1>5. b(0) = ByteAt(text, First) BY <1>1
<1>6. Bits = ucs * 64 + (Oct % 64) BY DEF Bits
<1>7. \/ size = 2 /\ b(0) \in 192..223 /\ ucs = b(0) % 32
      \/ /\ size = 3 /\ b(0) \in 224..239 /\ b(1) \in 128..191
         /\ ucs = (b(0) % 16) * 64 + (b(1) % 64)
      \/ /\ size = 4 /\ b(0) \in 240..244 /\ b(1) \in 128..191
         /\ b(2) \in 128..191
         /\ ucs = ((b(0) % 8) * 64 + (b(1) % 64)) * 64 + (b(2) % 64)
  BY <1>4 DEF PartialSequence
<1>8. pos + 1 = First + size BY <1>2, <1>3
<1> HIDE DEF b
<1>9. CASE size = 2 /\ b(0) \in 192..223 /\ ucs = b(0) % 32
  <2>1. Oct = ByteAt(text, First + 1) BY <1>3, <1>4, <1>9
  <2>2. Bits = Two(b(0), Oct) BY <1>6, <1>9 DEF Two
  <2>3. InRange(Bits) <=> Bits >= 128 BY <1>9 DEF InRange, Least
  <2>4. IsTwo(b(0), Oct) <=> InRange(Bits) BY <1>9, <2>2, <2>3, Zenon DEF IsTwo
  <2>5. InRange(Bits) => SequenceForm(text, First, size, Bits)
    BY <1>5, <1>9, <2>1, <2>2, <2>4, Zenon DEF SequenceForm
  <2>6. ASSUME ~InRange(Bits), NEW n, NEW c, CharacterForm(text, First, n, c)
        PROVE  FALSE
    <3>1. ByteAt(text, First) \in 192..223 =>
            IsTwo(ByteAt(text, First), ByteAt(text, First + 1))
      BY <1>1, <2>6, LeadForms
    <3>2. b(0) \in 192..223 BY <1>9
    <3>3. IsTwo(ByteAt(text, First), ByteAt(text, First + 1))
      BY <3>1, <3>2, <1>5, SMT
    <3>4. IsTwo(b(0), Oct) BY <3>3, <2>1, <1>5, Zenon
    <3> QED BY <3>4, <2>4, <2>6, Zenon
  <2> QED BY <1>8, <2>5, <2>6, Zenon
<1>10. CASE /\ size = 3 /\ b(0) \in 224..239 /\ b(1) \in 128..191
            /\ ucs = (b(0) % 16) * 64 + (b(1) % 64)
  <2>1. Oct = ByteAt(text, First + 2) BY <1>3, <1>4, <1>10
  <2>2. Bits = Three(b(0), b(1), Oct)
    <3>1. b(0) \in Int /\ b(1) \in Int BY <1>10
    <3>2. (b(0) % 16) \in Int /\ (b(1) % 64) \in Int /\ (Oct % 64) \in Int
      BY <3>1
    <3> QED BY <1>6, <1>10, <3>2, SMT DEF Three
  <2>3. InRange(Bits) <=> Bits >= 2048 BY <1>10, SMT DEF InRange, Least
  <2>4. IsThree(b(0), b(1), Oct) <=> InRange(Bits)
    BY <1>10, <2>2, <2>3, SMT DEF IsThree
  <2>5. InRange(Bits) => SequenceForm(text, First, size, Bits)
    BY <1>5, <1>10, <2>1, <2>2, <2>4, Zenon DEF SequenceForm, b
  <2>6. ASSUME ~InRange(Bits), NEW n, NEW c, CharacterForm(text, First, n, c)
        PROVE  FALSE
    <3>1. ByteAt(text, First) \in 224..239 =>
            IsThree(ByteAt(text, First), ByteAt(text, First + 1),
                    ByteAt(text, First + 2))
      BY <1>1, <2>6, LeadForms
    <3>2. b(0) \in 224..239 BY <1>10
    <3>3. IsThree(ByteAt(text, First), ByteAt(text, First + 1),
                 ByteAt(text, First + 2))
      BY <3>1, <3>2, <1>5, SMT
    <3>4. IsThree(b(0), b(1), Oct) BY <3>3, <2>1, <1>5, Zenon DEF b
    <3> QED BY <3>4, <2>4, <2>6, Zenon
  <2> QED BY <1>8, <2>5, <2>6, Zenon
<1>11. CASE /\ size = 4 /\ b(0) \in 240..244 /\ b(1) \in 128..191
            /\ b(2) \in 128..191
            /\ ucs = ((b(0) % 8) * 64 + (b(1) % 64)) * 64 + (b(2) % 64)
  <2>1. Oct = ByteAt(text, First + 3) BY <1>3, <1>4, <1>11
  <2>2. Bits = Four(b(0), b(1), b(2), Oct)
    <3>1. b(0) \in Int /\ b(1) \in Int /\ b(2) \in Int BY <1>11
    <3>2. (b(0) % 8) \in Int /\ (b(1) % 64) \in Int /\ (b(2) % 64) \in Int
          /\ (Oct % 64) \in Int
      BY <3>1
    <3> QED BY <1>6, <1>11, <3>2, SMT DEF Four
  <2>3. InRange(Bits) <=> Bits >= 65536 /\ Bits <= MaxPoint
    BY <1>11, SMT DEF InRange, Least, MaxCodePoint, MaxPoint
  <2>4. IsFour(b(0), b(1), b(2), Oct) <=> InRange(Bits)
    BY <1>11, <2>2, <2>3, SMT DEF IsFour
  <2>5. InRange(Bits) => SequenceForm(text, First, size, Bits)
    BY <1>5, <1>11, <2>1, <2>2, <2>4, Zenon DEF SequenceForm, b
  <2>6. ASSUME ~InRange(Bits), NEW n, NEW c, CharacterForm(text, First, n, c)
        PROVE  FALSE
    <3>1. ByteAt(text, First) \in 240..244 =>
            IsFour(ByteAt(text, First), ByteAt(text, First + 1),
                   ByteAt(text, First + 2), ByteAt(text, First + 3))
      BY <1>1, <2>6, LeadForms
    <3>2. b(0) \in 240..244 BY <1>11
    <3>3. IsFour(ByteAt(text, First), ByteAt(text, First + 1),
                ByteAt(text, First + 2), ByteAt(text, First + 3))
      BY <3>1, <3>2, <1>5, SMT
    <3>4. IsFour(b(0), b(1), b(2), Oct) BY <3>3, <2>1, <1>5, Zenon DEF b
    <3> QED BY <3>4, <2>4, <2>6, Zenon
  <2> QED BY <1>8, <2>5, <2>6, Zenon
<1> QED BY <1>7, <1>9, <1>10, <1>11, Zenon

LEMMA LastContinuationMeans ==
  ASSUME MInv, LastContinuationByte PROVE Meaning' /\ Meaningless'
<1>1. /\ pc = "cont" /\ pc' = "char" /\ Oct \in 128..191 /\ left = 1
      /\ InRange(Bits) /\ Write(Bits) /\ pos' = pos + 1
      /\ UNCHANGED <<text, start, high>>
  BY DEF LastContinuationByte, input, Continuation
<1>2. pos + 1 = First + size /\ SequenceForm(text, First, size, Bits)
  BY <1>1, WholeSequence, Zenon
<1>3. text \in Seq(Byte) /\ First \in Nat \ {0} /\ size \in Nat
  BY <1>1, FirstType DEF Reading, MInv, IInv, TypeOK
<1>4. size > 1 BY <1>1 DEF MInv, IInv, Counting
<1>5. Bits \in Nat /\ Bits >= 128
  <2>1. Bits \in Nat /\ (size > 1 => Bits >= 128)
    BY <1>2, <1>3, FormBytes, Zenon
  <2> QED BY <2>1, <1>4
<1>6. Bits \notin {0, 34, 92} BY <1>5
<1>7. CharacterForm(text, First, size, Bare(Bits))
  BY <1>2, <1>6, Zenon DEF CharacterForm, PlainForm
<1> QED BY <1>1, <1>2, <1>3, <1>7, BareMeans DEF Reading

LEMMA BadContinuationMeans ==
  ASSUME MInv, BadContinuation PROVE Meaning' /\ Meaningless'
<1> DEFINE b(k) == ByteAt(text, First + k)
<1>1. pc = "cont" /\ Refuse
      /\ (Oct \notin 128..191 \/ (left = 1 /\ ~InRange(Bits)))
  BY DEF BadContinuation, Continuation
<1>2. /\ text \in Seq(Byte) /\ First \in Nat \ {0}
  BY <1>1, FirstType DEF Reading
<1>3. First = pos - (size - left) /\ pos \in Nat /\ size \in Nat
      /\ left \in Nat
  <2>1. pos \in Nat /\ size \in {0, 2, 3, 4} /\ left \in 0..4
    BY DEF MInv, IInv, TypeOK
  <2> QED BY <1>1, <2>1 DEF First
<1>4. pos = First + (size - left) BY <1>3
<1>5. PartialSequence(First) /\ ByteAt(text, pos) = Oct
  BY <1>1, AtByte DEF MInv, Meaning, Partial, Reading
<1>6. b(0) = ByteAt(text, First) BY <1>2
<1>7. b(0) \in 192..223 \/ b(0) \in 224..239 \/ b(0) \in 240..244
  BY <1>5 DEF PartialSequence
<1>8. ByteAt(text, First) # 34 BY <1>6, <1>7
<1>9. ASSUME Oct \notin 128..191, NEW n, NEW c, CharacterForm(text, First, n, c)
      PROVE  FALSE
  <2>0. CharacterForm(text, First, n, c) BY <1>9
  <2>1. b(0) \in 192..223 => IsTwo(b(0), b(1))
    <3>1. ByteAt(text, First) \in 192..223 =>
            IsTwo(ByteAt(text, First), ByteAt(text, First + 1))
      BY <1>2, <2>0, LeadForms
    <3> QED BY <1>6, <3>1, Zenon
  <2>2. b(0) \in 224..239 => IsThree(b(0), b(1), b(2))
    <3>1. ByteAt(text, First) \in 224..239 =>
            IsThree(ByteAt(text, First), ByteAt(text, First + 1),
                    ByteAt(text, First + 2))
      BY <1>2, <2>0, LeadForms
    <3> QED BY <1>6, <3>1, Zenon
  <2>3. b(0) \in 240..244 => IsFour(b(0), b(1), b(2), b(3))
    <3>1. ByteAt(text, First) \in 240..244 =>
            IsFour(ByteAt(text, First), ByteAt(text, First + 1),
                   ByteAt(text, First + 2), ByteAt(text, First + 3))
      BY <1>2, <2>0, LeadForms
    <3> QED BY <1>6, <3>1, Zenon
  <2>4. b(0) \in 192..223 => b(1) \in 128..191 BY <2>1, Zenon DEF IsTwo
  <2>5. b(0) \in 224..239 => b(1) \in 128..191 /\ b(2) \in 128..191
    BY <2>2, SMT DEF IsThree
  <2>6. b(0) \in 240..244 =>
          b(1) \in 128..191 /\ b(2) \in 128..191 /\ b(3) \in 128..191
    BY <2>3, SMT DEF IsFour
  <2>7. \/ size = 2 /\ left = 1 /\ b(0) \in 192..223
        \/ size = 3 /\ left = 2 /\ b(0) \in 224..239
        \/ size = 3 /\ left = 1 /\ b(0) \in 224..239
        \/ size = 4 /\ left = 3 /\ b(0) \in 240..244
        \/ size = 4 /\ left = 2 /\ b(0) \in 240..244
        \/ size = 4 /\ left = 1 /\ b(0) \in 240..244
    BY <1>5 DEF PartialSequence
  <2>8. \/ size - left = 1 \/ size - left = 2 \/ size - left = 3
    BY <2>7
  <2>9. b(size - left) = Oct BY <1>4, <1>5
  <2>10. /\ size - left = 1 => b(1) = Oct
         /\ size - left = 2 => b(2) = Oct
         /\ size - left = 3 => b(3) = Oct
    BY <2>9
  <2> HIDE DEF b
  <2>11. /\ size - left = 1 => b(1) \in 128..191
         /\ size - left = 2 => b(2) \in 128..191
         /\ size - left = 3 => b(3) \in 128..191
    <3>1. size - left = 1 => b(1) \in 128..191
      BY <2>4, <2>5, <2>6, <2>7, Zenon
    <3>2. size - left = 2 => b(0) \in 224..239 \/ b(0) \in 240..244
      BY <2>7
    <3>3. size - left = 3 => b(0) \in 240..244 BY <2>7
    <3> QED BY <3>1, <3>2, <3>3, <2>5, <2>6, Zenon
  <2> QED BY <1>9, <2>8, <2>10, <2>11, Zenon
<1>10. ASSUME Oct \in 128..191, NEW n, NEW c, CharacterForm(text, First, n, c)
       PROVE  FALSE
  BY <1>1, <1>10, WholeSequence, Zenon
<1> QED BY <1>1, <1>8, <1>9, <1>10, RefuseMeans, Zenon DEF Reading

(* Within an escape.                                                       *)
LEMMA EscapedLetterMeans ==
  ASSUME MInv, EscapedLetter PROVE Meaning' /\ Meaningless'
<1>1. /\ pc = "escape" /\ pc' = "char" /\ Oct \in EscapeLetter
      /\ Write(Escaped(Oct)) /\ pos' = pos + 1
      /\ UNCHANGED <<text, start, high>>
  BY DEF EscapedLetter, input
<1>2. First = pos - 1 /\ pos \in Nat BY <1>1 DEF First, MInv, IInv, TypeOK
<1>3. First + 1 = pos /\ pos' = First + 2 BY <1>1, <1>2
<1>4. ByteAt(text, First) = 92 /\ ByteAt(text, First + 1) = Oct
  BY <1>1, <1>3, AtByte DEF MInv, Meaning, Partial, Reading
<1>5. LetterForm(text, First, 2, Bare(Escaped(Oct)))
  BY <1>1, <1>4, Zenon DEF LetterForm
<1>6. CharacterForm(text, First, 2, Bare(Escaped(Oct)))
  BY <1>5, Zenon DEF CharacterForm
<1> QED BY <1>1, <1>3, <1>6, BareMeans DEF Reading

LEMMA BeginUnicodeMeans ==
  ASSUME MInv, BeginUnicode PROVE Meaning' /\ Meaningless'
<1>1. /\ pc = "escape" /\ pc' = "hex" /\ Oct = 117 /\ left' = 4
      /\ pos' = pos + 1 /\ UNCHANGED <<text, start, out, high>>
  BY DEF BeginUnicode, input, LetterU
<1>2. First = pos - 1 /\ pos \in Nat BY <1>1 DEF First, MInv, IInv, TypeOK
<1>3. First' = First BY <1>1, <1>2 DEF First
<1>4. First + 1 = pos /\ First + 0 = First BY <1>2
<1>5. ByteAt(text, First + 0) = 92 /\ ByteAt(text, First + 1) = 117
  BY <1>1, <1>4, AtByte DEF MInv, Meaning, Partial, Reading
<1>6. \A k : ByteAt(text, First + k)' = ByteAt(text, First + k)
  BY <1>1, <1>3 DEF ByteAt
<1>7. PartialUnit(First)' BY <1>1, <1>5, <1>6 DEF PartialUnit
<1>8. Partial' BY <1>1, <1>7 DEF Partial
<1> QED BY <1>1, <1>3, <1>8, WithinMeans DEF Reading

LEMMA BadEscapeMeans ==
  ASSUME MInv, BadEscape PROVE Meaning' /\ Meaningless'
<1>1. pc = "escape" /\ Refuse /\ Oct \notin EscapeLetter /\ Oct # 117
  BY DEF BadEscape, LetterU
<1>2. First = pos - 1 /\ pos \in Nat BY <1>1 DEF First, MInv, IInv, TypeOK
<1>3. First + 1 = pos BY <1>2
<1>4. ByteAt(text, First) = 92 /\ ByteAt(text, First + 1) = Oct
  BY <1>1, <1>3, AtByte DEF MInv, Meaning, Partial, Reading
<1>5. /\ text \in Seq(Byte) /\ First \in Nat \ {0} BY <1>1, FirstType DEF Reading
<1>6. ASSUME NEW n, NEW c, CharacterForm(text, First, n, c) PROVE FALSE
  <2>0. CharacterForm(text, First, n, c) BY <1>6
  <2>1. ByteAt(text, First) = 92 /\ ByteAt(text, First + 1) # 117 =>
          ByteAt(text, First + 1) \in EscapeLetter
    BY <1>5, <2>0, LeadForms
  <2> QED BY <1>1, <1>4, <2>1, Zenon
<1>7. ByteAt(text, First) # 34 BY <1>4
<1> QED BY <1>1, <1>6, <1>7, RefuseMeans, Zenon DEF Reading

(* A digit shifted in.                                                     *)
LEMMA ShiftedIs ==
  ASSUME MInv, Oct \in HexDigit
  PROVE  /\ Shifted % 16 = HexValue(Oct)
         /\ Shifted % 256 = (ch % 16) * 16 + HexValue(Oct)
         /\ Shifted % 4096 = (ch % 256) * 16 + HexValue(Oct)
         /\ Shifted = (ch % 4096) * 16 + HexValue(Oct)
         /\ Shifted \in 0..MaxUnit /\ Shifted \in Nat
<1>1. Shifted = (ch * 16 + HexValue(Oct)) % 65536
  BY SMT DEF Shifted, MaxUnit
<1>2. ch \in Nat BY Limits DEF MInv, IInv, TypeOK
<1>3. HexValue(Oct) \in 0..15 BY HexValueType
<1>4. Shifted \in 0..MaxUnit BY ShiftedType DEF MInv, IInv
<1>5. Shifted \in Nat BY <1>4, Limits
<1> DEFINE h == HexValue(Oct)
<1> HIDE DEF h
<1>6. h \in 0..15 /\ IsShifted(ch, h, Shifted)
  BY <1>1, <1>3, SMT DEF h, IsShifted
<1>7. HasDigits(ch, h, Shifted) BY <1>2, <1>6, ShiftedDigits, Zenon
<1> QED BY <1>4, <1>5, <1>7, SMT DEF h, HasDigits

LEMMA DigitMeans ==
  ASSUME MInv, UnicodeDigit PROVE Meaning' /\ Meaningless'
<1> DEFINE b(k) == ByteAt(text, First + k)
           h(k) == HexValue(b(k))
<1>1. /\ pc = "hex" /\ pc' = "hex" /\ Oct \in HexDigit /\ left > 1
      /\ ch' = Shifted /\ left' = left - 1
      /\ pos' = pos + 1 /\ UNCHANGED <<text, start, out, high>>
  BY DEF UnicodeDigit, input
<1>2. First = pos - 6 + left /\ pos \in Nat /\ left \in 0..4
  BY <1>1 DEF First, MInv, IInv, TypeOK
<1>3. First' = First BY <1>1, <1>2 DEF First
<1>4. pos = First + (6 - left) BY <1>2
<1>5. PartialUnit(First) /\ ByteAt(text, pos) = Oct
  BY <1>1, AtByte DEF MInv, Meaning, Partial, Reading
<1>6. \A k : ByteAt(text, First + k)' = ByteAt(text, First + k)
  BY <1>1, <1>3 DEF ByteAt
<1>7. /\ b(0) = 92 /\ b(1) = 117
      /\ \/ left = 4
         \/ left = 3 /\ b(2) \in HexDigit /\ ch % 16 = h(2)
         \/ /\ left = 2 /\ b(2) \in HexDigit /\ b(3) \in HexDigit
            /\ ch % 256 = h(2) * 16 + h(3)
  BY <1>1, <1>5 DEF PartialUnit
<1>8. PartialUnit(First)'
  <2>1. CASE left = 4
    <3>1. b(2) = Oct BY <1>4, <1>5, <2>1
    <3>2. left' = 3 /\ b(2) \in HexDigit /\ ch' % 16 = h(2)
      BY <1>1, <2>1, <3>1, ShiftedIs
    <3> QED BY <1>6, <1>7, <3>2 DEF PartialUnit
  <2>2. CASE left = 3 /\ b(2) \in HexDigit /\ ch % 16 = h(2)
    <3>1. b(3) = Oct BY <1>4, <1>5, <2>2
    <3>2. /\ left' = 2 /\ b(2) \in HexDigit /\ b(3) \in HexDigit
          /\ ch' % 256 = h(2) * 16 + h(3)
      BY <1>1, <2>2, <3>1, ShiftedIs
    <3> QED BY <1>6, <1>7, <3>2 DEF PartialUnit
  <2>3. CASE /\ left = 2 /\ b(2) \in HexDigit /\ b(3) \in HexDigit
             /\ ch % 256 = h(2) * 16 + h(3)
    <3>1. b(4) = Oct BY <1>4, <1>5, <2>3
    <3>2. h(2) \in Int /\ h(3) \in Int BY <2>3, HexValueType
    <3>3. ch' % 4096 = (ch % 256) * 16 + HexValue(Oct) BY <1>1, ShiftedIs, SMT
    <3>4. ch' % 4096 = h(2) * 256 + h(3) * 16 + h(4)
      BY <2>3, <3>1, <3>2, <3>3, SMT
    <3>5. /\ left' = 1 /\ b(2) \in HexDigit /\ b(3) \in HexDigit
          /\ b(4) \in HexDigit
      BY <1>1, <2>3, <3>1
    <3> QED BY <1>6, <1>7, <3>4, <3>5, SMT DEF PartialUnit
  <2> QED BY <1>7, <2>1, <2>2, <2>3
<1>9. Partial' BY <1>1, <1>8 DEF Partial
<1> QED BY <1>1, <1>3, <1>9, WithinMeans DEF Reading

LEMMA BadDigitMeans ==
  ASSUME MInv, BadDigit PROVE Meaning' /\ Meaningless'
<1> DEFINE b(k) == ByteAt(text, First + k)
<1>1. pc = "hex" /\ Refuse /\ Oct \notin HexDigit BY DEF BadDigit
<1>2. First = pos - 6 + left /\ pos \in Nat /\ left \in 1..4
  BY <1>1 DEF First, MInv, IInv, TypeOK, Counting
<1>4. pos = First + (6 - left) BY <1>2
<1>5. PartialUnit(First) /\ ByteAt(text, pos) = Oct
  BY <1>1, AtByte DEF MInv, Meaning, Partial, Reading
<1>6. /\ text \in Seq(Byte) /\ First \in Nat \ {0} BY <1>1, FirstType DEF Reading
<1>7. b(0) = 92 /\ b(1) = 117 BY <1>5 DEF PartialUnit
<1>8. ByteAt(text, First) = 92 /\ ByteAt(text, First + 1) = 117
  <2>1. First + 0 = First BY <1>6
  <2> QED BY <1>7, <2>1
<1>9. ASSUME NEW n, NEW c, CharacterForm(text, First, n, c) PROVE FALSE
  <2>0. CharacterForm(text, First, n, c) BY <1>9
  <2>1. ByteAt(text, First) = 92 /\ ByteAt(text, First + 1) = 117 =>
          HexAt(text, First)
    BY <1>6, <2>0, LeadForms
  <2>2. b(2) \in HexDigit /\ b(3) \in HexDigit /\ b(4) \in HexDigit
        /\ b(5) \in HexDigit
    BY <1>8, <2>1, Zenon DEF HexAt
  <2>3. 6 - left = 2 \/ 6 - left = 3 \/ 6 - left = 4 \/ 6 - left = 5 BY <1>2
  <2>4. b(6 - left) = Oct BY <1>4, <1>5
  <2> HIDE DEF b
  <2> QED BY <1>1, <2>2, <2>3, <2>4
<1>10. ByteAt(text, First) # 34 BY <1>8
<1> QED BY <1>1, <1>9, <1>10, RefuseMeans, Zenon DEF Reading

(* The last digit: the unit joins the high surrogate before it, or not.    *)
LEMMA LastDigitMeans ==
  ASSUME MInv, LastUnicodeDigit PROVE Meaning' /\ Meaningless'
<1> DEFINE b(k) == ByteAt(text, First + k)
           h(k) == HexValue(b(k))
           c == Unit(Shifted)
<1>1. /\ pc = "hex" /\ pc' = "char" /\ Oct \in HexDigit /\ left = 1
      /\ WriteUnit(Shifted)
      /\ high' = IF Shifted \in HighSurrogate THEN pos + 1 ELSE high
      /\ pos' = pos + 1 /\ UNCHANGED <<text, start>>
  BY DEF LastUnicodeDigit, input
<1>2. First = pos - 6 + left /\ pos \in Nat
  BY <1>1 DEF First, MInv, IInv, TypeOK
<1>3. pos = First + 5 /\ pos' = First + 6 /\ First = pos + 1 - 6
  BY <1>1, <1>2
<1>4. PartialUnit(First) /\ ByteAt(text, pos) = Oct
  BY <1>1, AtByte DEF MInv, Meaning, Partial, Reading
<1>5. /\ text \in Seq(Byte) /\ First \in Nat \ {0} BY <1>1, FirstType DEF Reading
<1>6. /\ b(0) = 92 /\ b(1) = 117 /\ b(2) \in HexDigit /\ b(3) \in HexDigit
      /\ b(4) \in HexDigit /\ ch % 4096 = h(2) * 256 + h(3) * 16 + h(4)
  BY <1>1, <1>4, SMT DEF PartialUnit
<1>7. b(5) = Oct BY <1>3, <1>4
<1>8. Shifted = UnitAt(text, First)
  <2>1. h(2) \in Int /\ h(3) \in Int /\ h(4) \in Int /\ h(5) \in Int
    BY <1>1, <1>6, <1>7, HexValueType
  <2>2. Shifted = (ch % 4096) * 16 + h(5) BY <1>1, <1>7, ShiftedIs, SMT
  <2>3. UnitAt(text, First) = h(2) * 4096 + h(3) * 256 + h(4) * 16 + h(5)
    BY SMT DEF UnitAt
  <2>4. ch % 4096 = h(2) * 256 + h(3) * 16 + h(4) BY <1>6, SMT
  <2> HIDE DEF h
  <2> QED BY <2>1, <2>2, <2>3, <2>4, SMT
<1>9. CharacterForm(text, First, 6, c)
  <2>1. First + 0 = First BY <1>5
  <2>2. HexAt(text, First) BY <1>1, <1>6, <1>7, SMT DEF HexAt
  <2>3. ByteAt(text, First) = 92 /\ ByteAt(text, First + 1) = 117
    BY <1>6, <2>1, SMT
  <2> QED BY <1>8, <2>2, <2>3, Zenon DEF CharacterForm, UnicodeForm
<1>10. c \in CharacterType /\ c.escaped = TRUE /\ c.point = Shifted
       /\ Shifted \in Nat
  BY <1>1, ShiftedIs, SMT DEF Unit, CharacterType
<1>11. PICK chars \in Seq(CharacterType) : HasRead(chars, First)
  BY <1>1, Zenon DEF MInv, Meaning, Reading
<1>12. HighSurrogate = Highs /\ LowSurrogate = Lows
  BY SMT DEF HighSurrogate, Highs, LowSurrogate, Lows
<1>13. FollowsHigh <=> EndsHigh(chars)
  BY <1>3, <1>11, Zenon DEF FollowsHigh, HasRead
<1> HIDE DEF c
<1>14. out' = Points(Append(chars, c))
  <2>1. CASE Shifted \in LowSurrogate /\ FollowsHigh
    <3>1. EndsHigh(chars) /\ c.point \in Lows BY <2>1, <1>10, <1>12, <1>13, Zenon
    <3>2. /\ out = Points(chars) /\ LastUnit = chars[Len(chars)].point
          /\ Points(Append(chars, c))
                = [out EXCEPT ![Len(out)] = JoinedPoint(chars[Len(chars)], c)]
      BY <3>1, <1>10, <1>11, PointsJoin, Zenon DEF HasRead, LastUnit
    <3>3. out' = [out EXCEPT ![Len(out)] = Joined(Shifted)]
      BY <1>1, <2>1, Zenon DEF WriteUnit, JoinsLast
    <3>4. LastUnit \in HighSurrogate BY <3>1, <3>2, <1>12, Zenon DEF EndsHigh
    <3>5. Joined(Shifted) = JoinedPoint(chars[Len(chars)], c)
      <4>1. LastUnit \in Int /\ LastUnit >= 55296 /\ LastUnit <= 56319
        BY <3>4, SMT DEF HighSurrogate
      <4>2. Shifted \in Int /\ Shifted >= 56320 /\ Shifted <= 57343
        BY <2>1, SMT DEF LowSurrogate
      <4>3. (LastUnit % 1024) = LastUnit - 55296 BY <4>1, SMT
      <4>4. (Shifted % 1024) = Shifted - 56320 BY <4>2, SMT
      <4>5. JoinedPoint(chars[Len(chars)], c)
              = 65536 + (LastUnit % 1024) * 1024 + (Shifted % 1024)
        BY <3>2, <1>10, SMT DEF JoinedPoint
      <4> QED BY <4>1, <4>2, <4>3, <4>4, <4>5, SMT DEF Joined
    <3> QED BY <3>2, <3>3, <3>5
  <2>2. CASE ~(Shifted \in LowSurrogate /\ FollowsHigh)
    <3>1. out' = Append(out, Shifted)
      BY <1>1, <2>2, Zenon DEF WriteUnit, JoinsLast, Write
    <3>2. ~(EndsHigh(chars) /\ c.escaped /\ c.point \in Lows)
      BY <2>2, <1>10, <1>12, <1>13, Zenon
    <3>3. Points(Append(chars, c)) = Append(Points(chars), c.point)
      BY <3>2, <1>10, PointsMore, Zenon
    <3> QED BY <3>1, <3>3, <1>10, <1>11 DEF HasRead
  <2> QED BY <2>1, <2>2, Zenon
<1>15. EndsHigh(Append(chars, c)) <=> Shifted \in HighSurrogate
  BY <1>10, <1>12, EndsHighMore, Zenon
<1>16. high \in Nat /\ high <= First BY <1>11 DEF HasRead, MInv, IInv, TypeOK
<1>17. high' <= pos' /\ (high' = pos' <=> Shifted \in HighSurrogate)
  <2>1. CASE Shifted \in HighSurrogate BY <1>1, <1>2, <2>1
  <2>2. CASE Shifted \notin HighSurrogate BY <1>1, <1>3, <1>5, <1>16, <2>2
  <2> QED BY <2>1, <2>2
<1> QED BY <1>1, <1>3, <1>9, <1>11, <1>14, <1>15, <1>17, CompletesMeans, Zenon
        DEF Reading

(* A step to a value, or to the end.                                       *)
LEMMA LeaveMeans ==
  ASSUME MInv, EndString \/ Finish \/ Overflow PROVE Meaning' /\ Meaningless'
BY DEF EndString, Finish, Overflow, Meaning, Meaningless, Reading

LEMMA StutterMeans ==
  ASSUME MInv, UNCHANGED vars PROVE Meaning' /\ Meaningless'
<1>1. /\ UNCHANGED <<text, pc, start, pos, out, ch, ucs, size, left, high>>
      /\ UNCHANGED <<end, escStart>>
  BY DEF vars, input, locals
<1>2. First' = First BY <1>1 DEF First
<1>3. CharacterPlaces(text)' = CharacterPlaces(text) /\ Quotes(text)' = Quotes(text)
  BY <1>1 DEF CharacterPlaces, Quotes
<1>4. Partial' <=> Partial
  BY <1>1, <1>2, SMT DEF Partial, PartialSequence, PartialUnit, ByteAt
<1>5. \A chars : HasRead(chars, First)' <=> HasRead(chars, First)
  BY <1>1, <1>2, <1>3 DEF HasRead
<1>6. Meaning' BY <1>1, <1>4, <1>5, Zenon DEF MInv, Meaning
<1>7. Meaningless'
  <2>1. BeginsInText' <=> BeginsInText BY <1>1 DEF BeginsInText
  <2> QED BY <1>1, <1>3, <2>1 DEF MInv, Meaningless
<1> QED BY <1>6, <1>7

LEMMA StepMInv == MInv /\ [Next]_vars => MInv'
<1> SUFFICES ASSUME MInv, [Next]_vars PROVE MInv'
  OBVIOUS
<1>1. IInv' BY StepIInv DEF MInv
<1>2. Meaning' /\ Meaningless'
  BY BeginMeans, LiteralMeans, LeadMeans, EscapeMeans, LeaveMeans, BadByteMeans,
     ContinuationMeans, LastContinuationMeans, BadContinuationMeans,
     EscapedLetterMeans, BeginUnicodeMeans, BadEscapeMeans, DigitMeans,
     LastDigitMeans, BadDigitMeans, StutterMeans, Zenon
     DEF Next, Stopped, MInv
<1> QED BY <1>1, <1>2 DEF MInv

LEMMA MeaningInvariance == Spec => []MInv
<1>1. Init => MInv
  <2>1. Init => text \in Seq(Byte) /\ end \in 0..Len(text) /\ Fresh
    BY TextsAssumption, BehindAssumption DEF Init
  <2> QED BY <2>1, FreshMInv
<1> QED BY <1>1, StepMInv, PTL DEF Spec

(* At the quote there is nothing more to read.                             *)
LEMMA MInvDecodes == MInv => DecodesItsMeaning
<1> SUFFICES ASSUME MInv, pc = "char", Oct = Quote
             PROVE  out = Points(Characters(text)[start])
  BY DEF DecodesItsMeaning
<1> DEFINE at == CharacterPlaces(text)
           ends == Quotes(text)
           n == Len(text) + 1
           I == Items(at, ends, Malformed)
<1>1. /\ start \in 1..n /\ First \in 1..n /\ n \in Nat
      /\ text \in Seq(Byte)
  BY FirstType DEF Reading
<1>2. First = pos /\ ByteAt(text, First) = 34
  BY AtByte DEF First, Quote
<1>3. First \in ends
  <2>1. First <= Len(text) /\ text[First] = 34
    BY <1>1, <1>2, ByteAtType
  <2> QED BY <1>1, <2>1 DEF Quotes
<1>4. PICK chars \in Seq(CharacterType) : HasRead(chars, First)
  BY Zenon DEF MInv, Meaning, Reading
<1>5. Leads(at, ends, n) /\ Typed(at, CharacterType) BY <1>1, CharacterLeads
<1>6. Malformed \in CharacterType BY DEF Malformed, CharacterType
<1>7. Parse(at, start, First, chars) BY <1>4 DEF HasRead
<1>8. Characters(text) = I BY Zenon DEF Characters, CharacterPlaces, Quotes
<1> HIDE DEF at, ends, n
<1>9. I[start] = chars \o I[First]
  BY <1>1, <1>5, <1>6, <1>7, ParseItems
<1>10. I[First] = <<>> BY <1>1, <1>3, <1>5, ItemsEnd, Zenon
<1>11. chars \o <<>> = chars OBVIOUS
<1> QED BY <1>4, <1>8, <1>9, <1>10, <1>11 DEF HasRead

LEMMA MInvRefuses == MInv => RefusesOnlyMalformed
<1> SUFFICES ASSUME MInv, pc = "error", escStart # "null", BeginsInText
             PROVE  /\ Characters(text)[start] # <<>>
                    /\ Characters(text)[start][Len(Characters(text)[start])]
                         = Malformed
  BY DEF RefusesOnlyMalformed
<1> DEFINE at == CharacterPlaces(text)
           ends == Quotes(text)
           n == Len(text) + 1
           I == Items(at, ends, Malformed)
<1>1. text \in Seq(Byte) /\ n \in Nat BY DEF MInv, IInv, TypeOK
<1>2. start \in 1..n BY DEF MInv, Meaningless
<1>3. PICK j \in 1..n, chars \in Seq(CharacterType) :
        Parse(at, start, j, chars) /\ at[j] = {} /\ j \notin ends
  BY DEF MInv, Meaningless
<1>5. Leads(at, ends, n) /\ Typed(at, CharacterType) BY <1>1, CharacterLeads
<1>6. Malformed \in CharacterType BY DEF Malformed, CharacterType
<1>8. Characters(text) = I BY Zenon DEF Characters, CharacterPlaces, Quotes
<1> HIDE DEF at, ends, n
<1>9. I[start] = chars \o I[j]
  BY <1>1, <1>2, <1>3, <1>5, <1>6, ParseItems
<1>10. I[j] = <<Malformed>> BY <1>1, <1>3, <1>5, ItemsEnd
<1> HIDE DEF I
<1>11. chars \o <<Malformed>> = Append(chars, Malformed) BY <1>6
<1>12. /\ Append(chars, Malformed) # <<>>
       /\ Append(chars, Malformed)[Len(Append(chars, Malformed))] = Malformed
  BY <1>6
<1> QED BY <1>8, <1>9, <1>10, <1>11, <1>12

(* What is read is what the text means, for every text.                    *)
THEOREM DecodesMeaning == Spec => []DecodesItsMeaning
BY MeaningInvariance, MInvDecodes, PTL

(* Only what has no meaning is refused.                                    *)
THEOREM RefusesMalformed == Spec => []RefusesOnlyMalformed
BY MeaningInvariance, MInvRefuses, PTL
==============================================================================
