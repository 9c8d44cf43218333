---------------------------- MODULE NumberWriter ----------------------------
(***************************************************************************)
(* The integers the encoder of UltraJSON writes: the HPy binding asks      *)
(* Python for each as a signed and then as an unsigned integer of 64 bits  *)
(* (python/ujson_hpy.c, hpy_encoder_classify_scalar), and what fits is     *)
(* written digit by digit (lib/ultrajsonenc.c, Buffer_AppendLongUnchecked  *)
(* and Buffer_AppendUnsignedLongUnchecked).  The width is scaled as in     *)
(* NumberScanner.                                                          *)
(***************************************************************************)
EXTENDS Integers, SequencesExt

CONSTANTS
  Ints,         (* The integers dumps may be given.                        *)
  Half          (* 2^63.                                                   *)

VARIABLES
  int,          (* The integer.                                            *)
  type,         (* tc->type: "invalid", "long", "ulong" or "raw".          *)
  scalar,       (* state->scalar, the union of what Python gave.           *)
  uvalue,       (* What is left of the magnitude.                          *)
  out,          (* What was written from enc->offset on.                   *)
  state         (* "long", "ulong", "raw", "digits", "sign" or "done".     *)

vars == <<int, type, scalar, uvalue, out, state>>

Fresh ==
  /\ type = "invalid" /\ scalar = 0 /\ uvalue = 0 /\ out = <<>>
  /\ state = "long"

Init == int \in Ints /\ Fresh

(* Python's conversions raise OverflowError and return -1.                 *)
AsLongLong == IF int \in -Half..(Half - 1) THEN int ELSE -1
AsUnsignedLongLong == IF int \in 0..(2 * Half - 1) THEN int ELSE 2 * Half - 1
LongOverflows == int \notin -Half..(Half - 1)
UnsignedOverflows == int \notin 0..(2 * Half - 1)

(* -1 with an exception pending is no value.                               *)
IsLongBySentinel == AsLongLong # -1
IsLong == ~(AsLongLong = -1 /\ LongOverflows)
IsUnsigned == ~(AsUnsignedLongLong = 2 * Half - 1 /\ UnsignedOverflows)

Digits(magnitude) == uvalue' = magnitude /\ state' = "digits"

Magnitude(v) == IF v = -Half THEN (Half - 1) + 1 ELSE IF v < 0 THEN -v ELSE v

ClassifyLong ==
  /\ state = "long" /\ IsLong
  /\ type' = "long" /\ scalar' = AsLongLong
  /\ Digits(Magnitude(AsLongLong))
  /\ UNCHANGED <<int, out>>

(* OverflowError is cleared.                                               *)
NotLong ==
  /\ state = "long" /\ ~IsLong
  /\ state' = "ulong" /\ scalar' = AsLongLong
  /\ UNCHANGED <<int, type, uvalue, out>>

ClassifyUnsigned ==
  /\ state = "ulong" /\ IsUnsigned
  /\ type' = "ulong" /\ scalar' = AsUnsignedLongLong
  /\ Digits(AsUnsignedLongLong)
  /\ UNCHANGED <<int, out>>

NotUnsigned ==
  /\ state = "ulong" /\ ~IsUnsigned
  /\ state' = "raw" /\ scalar' = AsUnsignedLongLong
  /\ UNCHANGED <<int, type, uvalue, out>>

(* The text of an integer of Python, copied as it is.                      *)
Decimal[n \in Nat] ==
  IF n < 10 THEN <<48 + n>> ELSE Append(Decimal[n \div 10], 48 + (n % 10))
Str(n) == IF n < 0 THEN <<45>> \o Decimal[-n] ELSE Decimal[n]

WriteRaw ==
  /\ state = "raw"
  /\ type' = "raw" /\ out' = Str(int)
  /\ state' = "done"
  /\ UNCHANGED <<int, scalar, uvalue>>

(***************************************************************************)
(* The digits, from the last, then the sign; strreverse.                   *)
(***************************************************************************)
MoreWhileOne == uvalue \div 10 > 1
More == uvalue \div 10 # 0

WriteDigit ==
  /\ state = "digits"
  /\ out' = Append(out, 48 + (uvalue % 10))
  /\ uvalue' = uvalue \div 10
  /\ state' = IF More THEN "digits" ELSE "sign"
  /\ UNCHANGED <<int, type, scalar>>

IsNegative == type = "long" /\ scalar < 0

FinishNumber ==
  /\ state = "sign"
  /\ out' = Reverse(IF IsNegative THEN Append(out, 45) ELSE out)
  /\ state' = "done"
  /\ UNCHANGED <<int, type, scalar, uvalue>>

Next == \/ ClassifyLong \/ NotLong \/ ClassifyUnsigned \/ NotUnsigned
        \/ WriteRaw \/ WriteDigit \/ FinishNumber

Spec == Init /\ [][Next]_vars
==============================================================================
