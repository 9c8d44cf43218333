--------------------------- MODULE NumberRoundTrip ---------------------------
(***************************************************************************)
(* The decoder reads a number, of any text or of what the encoder wrote    *)
(* for an integer: dumps and then loads.                                   *)
(***************************************************************************)
EXTENDS JsonNumbers

CONSTANT Ints

ASSUME IntsAssumption == Ints \subseteq Int

VARIABLES
  int, type, scalar, uvalue, out, state,         (* of NumberWriter        *)
  dumping                                        (* dumps is not done yet. *)

Writer == INSTANCE NumberWriter

writing == <<int, type, scalar, uvalue, out, state>>

LoadOnly == Init /\ ~dumping /\ int = 0 /\ Writer!Fresh
DumpAndLoad == text = <<>> /\ end = 0 /\ Begin /\ dumping /\ Writer!Init
RoundTripInit == dumping \in BOOLEAN /\ (LoadOnly \/ DumpAndLoad)

Dump ==
  /\ dumping /\ Writer!Next
  /\ UNCHANGED <<vars, dumping>>

(* The text dumps returned is the text given to loads.                     *)
Pass ==
  /\ dumping /\ state = "done"
  /\ dumping' = FALSE /\ text' = out /\ end' = Len(out)
  /\ UNCHANGED <<start, offset, intNeg, word, event, pc, digits, writing>>

Load == ~dumping /\ Next /\ UNCHANGED <<dumping, writing>>

RoundTripNext == Dump \/ Pass \/ Load

roundTripVars == <<vars, writing, dumping>>
RoundTripSpec == RoundTripInit /\ [][RoundTripNext]_roundTripVars

(* The encoder writes the decimal digits of the integer, whatever the way  *)
(* it took to them; loads(dumps(n)) is n; and the two sides agree on where *)
(* 64 bits end: text is what needs Python's own integers, and nothing else.*)
RoundTripsInts ==
  /\ dumping /\ state = "done" => out = Writer!Str(int)
  /\ pc = "done" /\ text = out =>
       /\ start = Len(out) + 1
       /\ type = "raw" <=> event.kind = "string"
       /\ type = "ulong" <=> event.kind = "unsigned"
       /\ type \in {"long", "ulong"} => event.value = int
==============================================================================
