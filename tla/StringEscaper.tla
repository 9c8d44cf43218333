---------------------------- MODULE StringEscaper ----------------------------
(***************************************************************************)
(* The strings the encoder of UltraJSON writes (lib/ultrajsonenc.c):       *)
(* Buffer_EscapeStringValidated when the output is to be ASCII, which      *)
(* decodes UTF-8 and writes \u escapes, and Buffer_EscapeStringUnvalidated *)
(* when it is not, which copies what it need not escape.  A step is one    *)
(* turn of the loop: one byte, or one multi-byte sequence.                 *)
(***************************************************************************)
EXTENDS Integers, Sequences

CONSTANTS
  Strings,      (* The strings to write: sequences of bytes.               *)
  Options       (* What dumps may be asked for.                            *)

Byte == 0..255
Option == [forceASCII : BOOLEAN, encodeHTMLChars : BOOLEAN,
           escapeForwardSlashes : BOOLEAN]

ASSUME StringsAssumption == Strings \subseteq Seq(Byte)
ASSUME OptionsAssumption == Options \subseteq Option

VARIABLES
  str,          (* The string, from io at first to end.                    *)
  enc,          (* The options in force.                                   *)
  io,           (* The byte looked at.                                     *)
  of,           (* What was written from enc->offset on.                   *)
  pc            (* "escape", "done" or, for FALSE, "refused".              *)

vars == <<str, enc, io, of, pc>>

(* The string ends with a null byte, which end points to.                  *)
At(i) == IF i <= Len(str) THEN str[i] ELSE 0
Oct == At(io)
AtEnd == io = Len(str) + 1

(* RESERVE_STRING: what encode reserves for n bytes and the two quotes.    *)
ReserveStringFive(n) == 2 + 5 * n
ReserveString(n) == 2 + 6 * n

(* g_escapeChars: the letter that stands for a character after a backslash.*)
Letter(c) == IF c = 8 THEN 98 ELSE IF c = 9 THEN 116
             ELSE IF c = 10 THEN 110 ELSE IF c = 12 THEN 102
             ELSE IF c = 13 THEN 114 ELSE c
Slash == 47
Lettered == {8, 9, 10, 12, 13, 34, 92}
              \cup (IF enc.escapeForwardSlashes THEN {Slash} ELSE {})

(* The characters written as \u00XX: the other control characters, and the *)
(* three that matter in HTML when encodeHTMLChars is set.                  *)
ControlShort == 0..30 \ {8, 9, 10, 12, 13}
Control == 0..31 \ {8, 9, 10, 12, 13}
Html == {38, 60, 62}
Coded == Control \cup (IF enc.encodeHTMLChars THEN Html ELSE {})

(* g_asciiOutputTable from 0x80 on: 0x80..0xbf and 0xfe, 0xff are copied.  *)
SequenceLead == IF enc.forceASCII THEN 192..253 ELSE {}
Length == IF Oct < 224 THEN 2 ELSE IF Oct < 240 THEN 3
          ELSE IF Oct < 248 THEN 4 ELSE 5

HexDigit(n) == IF n < 10 THEN 48 + n ELSE 87 + n
(* Buffer_AppendShortHexUnchecked, after the backslash and the u.          *)
Unicode(v) ==
  <<92, 117, HexDigit((v \div 4096) % 16), HexDigit((v \div 256) % 16),
    HexDigit((v \div 16) % 16), HexDigit(v % 16)>>

Fresh == io = 1 /\ of = <<>> /\ pc = "escape"
Init == str \in Strings /\ enc \in Options /\ Fresh

Write(bytes, n) == of' = of \o bytes /\ io' = io + n /\ UNCHANGED <<str, enc, pc>>

(***************************************************************************)
(* One byte.                                                               *)
(***************************************************************************)
EndOfString ==
  /\ pc = "escape" /\ AtEnd
  /\ pc' = "done"
  /\ UNCHANGED <<str, enc, io, of>>

EscapeLetter ==
  /\ pc = "escape" /\ ~AtEnd /\ Oct \in Lettered
  /\ Write(<<92, Letter(Oct)>>, 1)

(* A null byte within the string is a control character too.               *)
EscapeCode ==
  /\ pc = "escape" /\ ~AtEnd /\ Oct \in Coded
  /\ Write(Unicode(Oct), 1)

CopyByte ==
  /\ pc = "escape" /\ ~AtEnd
  /\ Oct \notin Lettered \cup Coded \cup SequenceLead
  /\ Write(<<Oct>>, 1)

(***************************************************************************)
(* A multi-byte sequence, when the output is ASCII.                        *)
(***************************************************************************)
Continues(i) == At(i) \in 128..191
Bits(i) == At(i) % 64
Ucs == IF Length = 2 THEN (Oct % 32) * 64 + Bits(io + 1)
       ELSE IF Length = 3
         THEN (Oct % 16) * 4096 + Bits(io + 1) * 64 + Bits(io + 2)
       ELSE (Oct % 8) * 262144 + Bits(io + 1) * 4096 + Bits(io + 2) * 64
              + Bits(io + 3)
Least == IF Length = 2 THEN 128 ELSE IF Length = 3 THEN 2048 ELSE 65536

Unterminated == Len(str) + 1 - io < Length
TooLargeLate == Length = 4 /\ (Oct >= 245 \/ (Oct >= 244 /\ At(io + 1) > 144))
TooLarge == Length = 4 /\ (Oct >= 245 \/ (Oct >= 244 /\ At(io + 1) >= 144))

WellFormed ==
  /\ Length < 5
  /\ ~Unterminated
  /\ \A i \in 1..(Length - 1) : Continues(io + i)
  /\ ~TooLarge
  /\ Ucs >= Least

(* A code point beyond 16 bits takes two escapes, of a surrogate pair.     *)
HighOfWhole(c) == 55296 + (c \div 1024)
HighOf(c) == 55296 + ((c - 65536) \div 1024)
LowOf(c) == 56320 + ((c - 65536) % 1024)
Pair(c) == Unicode(HighOf(c)) \o Unicode(LowOf(c))

EscapeSequence ==
  /\ pc = "escape" /\ ~AtEnd /\ Oct \in SequenceLead
  /\ WellFormed
  /\ Write(IF Ucs >= 65536 THEN Pair(Ucs) ELSE Unicode(Ucs), Length)

RefuseSequence ==
  /\ pc = "escape" /\ ~AtEnd /\ Oct \in SequenceLead
  /\ ~WellFormed
  /\ pc' = "refused"
  /\ UNCHANGED <<str, enc, io, of>>

Stopped == pc \in {"done", "refused"} /\ UNCHANGED vars

Next ==
  \/ EndOfString \/ EscapeLetter \/ EscapeCode \/ CopyByte
  \/ EscapeSequence \/ RefuseSequence
  \/ Stopped

Spec == Init /\ [][Next]_vars

(***************************************************************************)
(*                              Properties                                 *)
(***************************************************************************)

(* Every variable has its type, and io stays within the string.            *)
TypeOK ==
  /\ str \in Seq(Byte)
  /\ enc \in Option
  /\ io \in 1..(Len(str) + 1)
  /\ of \in Seq(Int)
  /\ pc \in {"escape", "done", "refused"}

(* What encode reserves for a string is enough at every byte of it, and    *)
(* not only for the whole: a character takes six bytes for each byte that  *)
(* was read, a pair of escapes for four bytes included.                    *)
FitsReserve == Len(of) + 2 <= ReserveString(io - 1)

(* Nothing that JSON or the options forbid is left in the output: control  *)
(* characters, the characters of HTML, the first byte of a sequence in     *)
(* ASCII; and a quote only after a backslash.                              *)
CleanOutput ==
  \A i \in DOMAIN of :
    /\ of[i] >= 32
    /\ enc.encodeHTMLChars => of[i] \notin Html
    /\ of[i] \notin SequenceLead
    /\ of[i] = 34 => i > 1 /\ of[i - 1] = 92

(* ultrajson.h: "If true output will be ASCII with all characters above 127*)
(* encoded as \uXXXX" is what forceASCII promises.                         *)
AsciiOutput == enc.forceASCII => \A i \in DOMAIN of : of[i] < 128
==============================================================================
