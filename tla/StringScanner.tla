---------------------------- MODULE StringScanner ----------------------------
(***************************************************************************)
(* The strings of a JSON text, as decode_string of UltraJSON               *)
(* (lib/ultrajsondec.c) reads them: one byte of UTF-8 or of an escape at a *)
(* time, into a buffer of code points that all the strings of the text     *)
(* share.  A step is one turn of one of its loops.                         *)
(*                                                                         *)
(* What stands between the strings is decode_any's affair: here the next   *)
(* quote starts the next one.                                              *)
(*                                                                         *)
(* The loops never look at ds->end: only a null byte stops them.  A str,   *)
(* bytes or bytearray has one right behind its last byte.  The buffer of   *)
(* any other object is decoded where it is, on the CPython ABI and in the  *)
(* classic binding, and what stands behind it is read as if it belonged to *)
(* the text.                                                               *)
(***************************************************************************)
EXTENDS JsonStrings

CONSTANTS
  Texts,        (* What the memory holds: sequences of bytes, as far as the*)
                (* first null byte behind the text.                        *)
  Behind,       (* How many of its last bytes are not the text's.          *)
  StackSize     (* What escBuffer holds, in code points.                   *)

Byte == 0..255

ASSUME TextsAssumption == Texts \subseteq Seq(Byte)
ASSUME BehindAssumption == Behind \subseteq Nat
ASSUME StackAssumption == StackSize \in Nat

VARIABLES
  text,         (* The memory, from ds->start at first: the text, and what *)
                (* stands behind it, up to a null byte.                    *)
  end,          (* ds->end: the last byte of the text.                     *)
  pc,           (* Which loop is at work.                                  *)
  start,        (* ds->start: the first byte of the string being read.     *)
  pos,          (* inputOffset                                             *)
  out,          (* What was written from escStart to escOffset.            *)
  ch,           (* The 16-bit unit the digits of \u are shifted into.      *)
  ucs,          (* The bits of the multi-byte sequence so far.             *)
  size,         (* The length its first byte announced.                    *)
  left,         (* The digits or continuation bytes still to read.         *)
  high,         (* lastHighSurrogate, 0 for NULL.                          *)
  capacity,     (* ds->escEnd - ds->escStart                               *)
  escStart,     (* Where the buffer is.                                    *)
  escHeap,      (* ds->escHeap                                             *)
  blocks        (* The blocks allocated and not freed.                     *)

input == <<text, end, start, capacity, escStart, escHeap, blocks>>
locals == <<out, ch, ucs, size, left, high>>
vars == <<input, pc, pos, locals>>

(* The null byte.                                                          *)
At(i) == IF i <= Len(text) THEN text[i] ELSE 0
Oct == At(pos)

Quote == 34
Backslash == 92
LetterU == 117

(* The classes of g_decoderLookup: a first byte, by the length it starts.  *)
LiteralNull == 0..127 \ {Quote, Backslash}
Literal == 1..127 \ {Quote, Backslash}
Lead == [length \in 2..4 |-> CASE length = 2 -> 192..223
                               [] length = 3 -> 224..239
                               [] length = 4 -> 240..244]
Continuation == 128..191

LeadBits(length) ==
  IF length = 2 THEN Oct % 32 ELSE IF length = 3 THEN Oct % 16 ELSE Oct % 8
Least(length) == CASE length = 2 -> 128 [] length = 3 -> 2048
                   [] length = 4 -> 65536
MaxCodePoint == 1114111
CodePoint == 0..MaxCodePoint

(* The letters that stand for one character after a backslash: b f n r t   *)
(* for control characters, and the quote, the backslash and the slash.     *)
EscapeLetter == {34, 47, 92, 98, 102, 110, 114, 116}
Escaped(c) == IF c = 98 THEN 8 ELSE IF c = 102 THEN 12
              ELSE IF c = 110 THEN 10 ELSE IF c = 114 THEN 13
              ELSE IF c = 116 THEN 9 ELSE c

Digit == 48..57
LowerHex == 97..102
UpperHex == 65..70
HexDigit == Digit \cup LowerHex \cup UpperHex
HexValue(c) == IF c \in Digit THEN c - 48
               ELSE 10 + (IF c \in LowerHex THEN c - 97 ELSE c - 65)

MaxUnit == 65535
HighSurrogate == 55296..56319
LowSurrogate == 56320..57343
LastUnit == out[Len(out)]
Joined(unit) == ((LastUnit - 55296) * 1024 + (unit - 56320)) + 65536

Fresh ==
  /\ pc = "value" /\ start = 1 /\ pos = 1
  /\ out = <<>> /\ ch = 0 /\ ucs = 0 /\ size = 0 /\ left = 0 /\ high = 0
  /\ capacity = StackSize /\ escStart = "stack" /\ escHeap = FALSE
  /\ blocks = 0

Init ==
  /\ text \in Texts
  /\ \E n \in Behind : n <= Len(text) /\ end = Len(text) - n
  /\ Fresh

(***************************************************************************)
(* The start of a string, and its buffer.                                  *)
(***************************************************************************)
Remaining(quote) == end - quote
TooSmallInBytes(quote) == Remaining(quote) > 4 * capacity
TooSmall(quote) == Remaining(quote) > capacity

BeginAt(quote) ==
  /\ pc = "value"
  /\ quote >= start /\ text[quote] = Quote
  /\ \A i \in start..(quote - 1) : text[i] # Quote
  /\ start' = quote + 1

Scan(quote) ==
  /\ pc' = "char" /\ pos' = quote + 1
  /\ out' = <<>> /\ ch' = 0 /\ high' = 0
  /\ UNCHANGED <<text, end, ucs, size, left>>

BeginString ==
  \E quote \in 1..end :
    /\ BeginAt(quote) /\ ~TooSmall(quote)
    /\ Scan(quote)
    /\ UNCHANGED <<capacity, escStart, escHeap, blocks>>

Reserve(quote) ==
  /\ capacity' = Remaining(quote) /\ escStart' = "heap" /\ escHeap' = TRUE
  /\ blocks' = blocks + 1

BeginReserve ==
  \E quote \in 1..end :
    BeginAt(quote) /\ TooSmall(quote) /\ Reserve(quote) /\ Scan(quote)

(* malloc returns NULL.                                                    *)
BeginNoMemory ==
  \E quote \in 1..end :
    /\ BeginAt(quote) /\ TooSmall(quote)
    /\ escStart' = "null" /\ pc' = "error"
    /\ UNCHANGED <<text, end, pos, capacity, escHeap, blocks, locals>>

(* A quote behind the text: what remains is negative, and as a size_t more *)
(* than any block can hold.                                                *)
BeginBehind ==
  \E quote \in (end + 1)..Len(text) :
    /\ BeginAt(quote)
    /\ pc' = "error"
    /\ UNCHANGED <<text, end, pos, capacity, escStart, escHeap, blocks, locals>>

(***************************************************************************)
(* One character: its first byte.  What a write beyond the buffer does is  *)
(* undefined: the model stops at it, at Overflow.                          *)
(***************************************************************************)
Room == Len(out) < capacity
Write(c) == Room /\ out' = Append(out, c)

(* Bytes below 128, the control characters among them.                     *)
LiteralByte ==
  /\ pc = "char" /\ Oct \in Literal
  /\ Write(Oct) /\ pos' = pos + 1
  /\ UNCHANGED <<input, pc, ch, ucs, size, left, high>>

LeadByte ==
  /\ pc = "char"
  /\ \E length \in DOMAIN Lead :
       /\ Oct \in Lead[length]
       /\ ucs' = LeadBits(length) /\ size' = length /\ left' = length - 1
  /\ pc' = "cont" /\ pos' = pos + 1
  /\ UNCHANGED <<input, out, ch, high>>

EscapeByte ==
  /\ pc = "char" /\ Oct = Backslash
  /\ pc' = "escape" /\ pos' = pos + 1
  /\ UNCHANGED <<input, locals>>

(* The quote: newString gets the code points.                              *)
EndString ==
  /\ pc = "char" /\ Oct = Quote
  /\ pc' = "value" /\ pos' = pos + 1 /\ start' = pos + 1
  /\ UNCHANGED <<text, end, capacity, escStart, escHeap, blocks, locals>>

Refuse == pc' = "error" /\ UNCHANGED <<input, pos, locals>>

(* The end of the text, a continuation byte, or a byte no sequence starts  *)
(* with.                                                                   *)
BadByte ==
  /\ pc = "char"
  /\ Oct \in {0} \cup Continuation \cup 245..255
  /\ Refuse

(***************************************************************************)
(* The rest of a multi-byte sequence.                                      *)
(***************************************************************************)
Bits == ucs * 64 + (Oct % 64)
InRangeStrict(c) == c > Least(size) /\ (size = 4 => c <= MaxCodePoint)
InRange(c) == c >= Least(size) /\ (size = 4 => c <= MaxCodePoint)

ContinuationByte ==
  /\ pc = "cont" /\ Oct \in Continuation /\ left > 1
  /\ ucs' = Bits /\ left' = left - 1 /\ pos' = pos + 1
  /\ UNCHANGED <<input, pc, out, ch, size, high>>

LastContinuationByte ==
  /\ pc = "cont" /\ Oct \in Continuation /\ left = 1
  /\ InRange(Bits)
  /\ Write(Bits) /\ left' = 0 /\ pos' = pos + 1
  /\ pc' = "char"
  /\ UNCHANGED <<input, ch, ucs, size, high>>

BadContinuation ==
  /\ pc = "cont"
  /\ \/ Oct \notin Continuation
     \/ left = 1 /\ ~InRange(Bits)
  /\ Refuse

(***************************************************************************)
(* The rest of an escape.                                                  *)
(***************************************************************************)
EscapedLetter ==
  /\ pc = "escape" /\ Oct \in EscapeLetter
  /\ Write(Escaped(Oct)) /\ pos' = pos + 1
  /\ pc' = "char"
  /\ UNCHANGED <<input, ch, ucs, size, left, high>>

BeginUnicode ==
  /\ pc = "escape" /\ Oct = LetterU
  /\ pc' = "hex" /\ left' = 4 /\ pos' = pos + 1
  /\ UNCHANGED <<input, out, ch, ucs, size, high>>

BadEscape ==
  /\ pc = "escape" /\ Oct \notin EscapeLetter \cup {LetterU}
  /\ Refuse

(* ch keeps the digits of the escapes before: a JSUTF16 loses them.        *)
Shifted == (ch * 16 + HexValue(Oct)) % (MaxUnit + 1)

UnicodeDigit ==
  /\ pc = "hex" /\ Oct \in HexDigit /\ left > 1
  /\ ch' = Shifted /\ left' = left - 1 /\ pos' = pos + 1
  /\ UNCHANGED <<input, pc, out, ucs, size, high>>

(* A low surrogate right after a high one that was itself an escape.       *)
FollowsHighAnywhere == high # 0
FollowsHighLate == high = pos - 6
FollowsHigh == high = pos + 1 - 6

JoinsLast(unit) == unit \in LowSurrogate /\ FollowsHigh
WriteUnit(unit) ==
  IF JoinsLast(unit)
    THEN out' = [out EXCEPT ![Len(out)] = Joined(unit)]
    ELSE Write(unit)

LastUnicodeDigit ==
  /\ pc = "hex" /\ Oct \in HexDigit /\ left = 1
  /\ ch' = Shifted /\ left' = 0 /\ pos' = pos + 1
  /\ WriteUnit(Shifted)
  /\ high' = IF Shifted \in HighSurrogate THEN pos + 1 ELSE high
  /\ pc' = "char"
  /\ UNCHANGED <<input, ucs, size>>

BadDigit ==
  /\ pc = "hex" /\ Oct \notin HexDigit
  /\ Refuse

(* A code point to write, and no room for it.                              *)
Writes ==
  \/ pc = "char" /\ Oct \in Literal
  \/ pc = "cont" /\ Oct \in Continuation /\ left = 1 /\ InRange(Bits)
  \/ pc = "escape" /\ Oct \in EscapeLetter
  \/ pc = "hex" /\ Oct \in HexDigit /\ left = 1 /\ ~JoinsLast(Shifted)

Overflow ==
  /\ Writes /\ ~Room
  /\ pc' = "overflow"
  /\ UNCHANGED <<input, pos, locals>>

(***************************************************************************)
(* decode_any returned: JSON_DecodeObject frees the buffer.                *)
(***************************************************************************)
FreedUnlessError == IF escHeap /\ pc # "error" THEN blocks - 1 ELSE blocks
Freed == IF escHeap /\ escStart # "null" THEN blocks - 1 ELSE blocks

Finish ==
  /\ pc \in {"value", "error"}
  /\ pc' = "done"
  /\ blocks' = Freed
  /\ UNCHANGED <<text, end, start, capacity, escStart, escHeap, pos, locals>>

Stopped == pc \in {"done", "overflow"} /\ UNCHANGED vars

Next ==
  \/ BeginString \/ BeginReserve \/ BeginNoMemory \/ BeginBehind
  \/ LiteralByte \/ LeadByte \/ EscapeByte \/ EndString \/ BadByte
  \/ ContinuationByte \/ LastContinuationByte \/ BadContinuation
  \/ EscapedLetter \/ BeginUnicode \/ BadEscape
  \/ UnicodeDigit \/ LastUnicodeDigit \/ BadDigit
  \/ Overflow
  \/ Finish \/ Stopped

Spec == Init /\ [][Next]_vars

(***************************************************************************)
(*                              Properties                                 *)
(***************************************************************************)
Reading == {"char", "cont", "escape", "hex"}

(* Every variable has its type.                                            *)
TypeOK ==
  /\ text \in Seq(Byte) /\ end \in 0..Len(text)
  /\ pc \in Reading \cup {"value", "error", "overflow", "done"}
  /\ start \in Nat \ {0} /\ pos \in Nat \ {0}
  /\ out \in Seq(Int)
  /\ ch \in 0..MaxUnit /\ ucs \in Nat
  /\ size \in {0, 2, 3, 4} /\ left \in 0..4 /\ high \in Nat
  /\ capacity \in Nat /\ escStart \in {"stack", "heap", "null"}
  /\ escHeap \in BOOLEAN /\ blocks \in Int

(* The code points of a string never outgrow the buffer, which was sized   *)
(* from the bytes left in the text and is never looked at again, as long as*)
(* the string does not run on behind the text: with a null byte behind its *)
(* last byte it never does.                                                *)
FitsBuffer == pc = "overflow" => pos \in (end + 1)..Len(text)

(* No byte behind the null is looked at, however the text breaks off.      *)
StopsAtNull == pc \in Reading => pos <= Len(text) + 1

(* Whatever is joined or decoded, newString only gets code points: a low   *)
(* surrogate is never joined with anything but a high one.                 *)
OnlyCodePoints == \A i \in DOMAIN out : out[i] \in CodePoint

(* One block serves all the strings of a text, and JSON_DecodeObject frees *)
(* it also when the text is refused.                                       *)
OneBlockFreed == blocks = IF escHeap /\ pc # "done" THEN 1 ELSE 0

(* A string is read as the code points it stands for: at its closing quote *)
(* the buffer holds them, joined surrogates included.                      *)
DecodesItsMeaning ==
  pc = "char" /\ Oct = Quote => out = Points(Characters(text)[start])

BeginsInText == start <= end + 1

(* A text is refused only for a string that has no meaning: an escape or a *)
(* sequence of UTF-8 that is malformed, overlong, or too large, for want   *)
(* of memory, or as the string begins behind the text.                     *)
RefusesOnlyMalformed ==
  pc = "error" /\ escStart # "null" /\ BeginsInText =>
    LET chars == Characters(text)[start]
    IN chars # <<>> /\ chars[Len(chars)] = Malformed
==============================================================================
