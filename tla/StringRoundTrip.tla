--------------------------- MODULE StringRoundTrip ---------------------------
(***************************************************************************)
(* dumps and then loads of one string: the escaper of the encoder writes   *)
(* it, encode puts it between quotes, dumps decodes the result to a str,   *)
(* and the scanner of the decoder reads what loads encodes again.          *)
(***************************************************************************)
EXTENDS StringEscaper, JsonStrings

CONSTANT StackSize

ASSUME StackSizeAssumption == StackSize \in Nat

VARIABLES
  result,                               (* What dumps returned.            *)
  reading, start, pos, out, ch, ucs, size, left, high,
  capacity, escStart, escHeap, blocks   (* of StringScanner; reading: pc   *)

(* JT_UTF8 in encode: the quotes around what the escaper wrote.            *)
Text == <<34>> \o of \o <<34>>

Scanner == INSTANCE StringScanner WITH text <- Text, end <- Len(Text),
                                       Texts <- {}, Behind <- {},
                                       pc <- reading

scanning == <<reading, start, pos, out, ch, ucs, size, left, high, capacity,
              escStart, escHeap, blocks>>

roundTripVars == <<vars, result, scanning>>

RoundTripInit == Init /\ result = "none" /\ Scanner!Fresh

Dump ==
  /\ pc = "escape" /\ Next
  /\ UNCHANGED <<result, scanning>>

(* The result is decoded with surrogatepass, so it has to be UTF-8.        *)
Decode ==
  /\ pc = "done" /\ result = "none"
  /\ result' = IF IsUtf8(of) THEN "str" ELSE "raised"
  /\ UNCHANGED <<vars, scanning>>

Load == result = "str" /\ UNCHANGED <<vars, result>> /\ Scanner!Next

Raised == /\ pc = "refused" \/ result = "raised"
          /\ UNCHANGED roundTripVars

RoundTripNext == Dump \/ Decode \/ Load \/ Raised

RoundTripSpec == RoundTripInit /\ [][RoundTripNext]_roundTripVars

(* dumps decodes what was written, which raises unless it is UTF-8: so the *)
(* strings it accepts are those that are UTF-8, with surrogates allowed,   *)
(* with and without validation; and of those it writes ASCII, as           *)
(* ultrajson.h says: "If true output will be ASCII with all characters     *)
(* above 127 encoded as \uXXXX".                                           *)
AcceptsUtf8 ==
  /\ pc = "refused" => ~IsUtf8(str)
  /\ pc = "done" /\ reading = "value" /\ result # "none" =>
       (result = "str" <=> IsUtf8(str))
  /\ pc = "done" /\ result = "none" /\ IsUtf8(str) => AsciiOutput

AtQuote == reading = "char" /\ Scanner!Oct = 34

(* The code points with every high surrogate that a low one follows joined *)
(* with it.                                                                *)
Paired(points) ==
  Points([i \in DOMAIN points |-> [point |-> points[i], escaped |-> TRUE]])

(* What was dumped is loaded again, except that dumps with ensure_ascii    *)
(* writes two lone surrogates as loads reads a pair.  loads refuses nothing*)
(* that dumps wrote, and reads all of it: the quote that ends the string is*)
(* the last byte, whatever was escaped before it.                          *)
RoundTripsPaired ==
  /\ AtQuote => /\ out = IF enc.forceASCII THEN Paired(Decoded(str))
                          ELSE Decoded(str)
                /\ pos = Len(Text)
  /\ reading = "error" => escStart = "null"

(* What tests/test_ujson.py:1402 asserts of bytes that decode with         *)
(* surrogatepass: loads gives back just what they decode to.               *)
RoundTripsExact == AtQuote => out = Decoded(str)
==============================================================================
