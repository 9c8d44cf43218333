---------------------------- MODULE DecoderAcceptor ----------------------------
(***************************************************************************)
(* The decoder implements JsonAcceptor: where it stands in the text, and   *)
(* when its text is as good as rejected, which the decoder may notice much *)
(* later.                                                                  *)
(***************************************************************************)
EXTENDS Decoder

(* A name that is no string is decoded to its end: it is refused there, or *)
(* after the member's value, by objectAddKey.                              *)
NestedName == \E i \in DOMAIN frames : i < Len(frames) /\ frames[i].at = "key"
WrongName ==
  /\ pc = "return" /\ ret # NoSlot
  /\ frames # <<>> /\ Top.at = "key"
  /\ cell[ret] # "string"
WrongKey ==
  \E i \in DOMAIN frames :
    frames[i].key # NoSlot /\ cell[frames[i].key] # "string"
Doomed == NestedName \/ WrongName \/ WrongKey

(* In a buffer the scanner may have gone on behind the text: whatever it   *)
(* finds there, the check for trailing data will refuse it.                *)
Overrun ==
  \/ pos > Len(input.text) + 1
  \/ input.cut /\ pos > Len(input.text)

Rejected == errorStr # "none" \/ pyErr # "none" \/ Doomed \/ Overrun

AtName == frames # <<>> /\ Top.at = "key"
Expects ==
  IF pc = "value" THEN IF AtName THEN "name" ELSE "value"
  ELSE IF pc = "loop" THEN IF Top.first THEN "first"
                           ELSE IF Top.kind = "dict" THEN "name" ELSE "value"
  ELSE IF pc = "return" THEN IF AtName THEN "colon" ELSE "after"
  ELSE IF pc = "separator" THEN "after"
  ELSE "accepted"

AcceptorState == IF Rejected THEN "rejected" ELSE Expects
AcceptorPos == IF Rejected THEN 0 ELSE pos
AcceptorStack ==
  IF Rejected THEN <<>> ELSE [i \in 1..Len(frames) |-> frames[i].kind]

(* What the text is not to blame for.                                      *)
Excused == faults > 0 \/ input.cut

NumberBehind ==
  /\ ~input.cut /\ Len(input.text) < Len(input.memory)
  /\ input.memory[Len(input.text) + 1] = "scalar"

Acceptor == INSTANCE JsonAcceptor
              WITH input <- input.text, pos <- AcceptorPos,
                   state <- AcceptorState, stack <- AcceptorStack,
                   failed <- Excused, behind <- NumberBehind

(* Token by token, and whatever fails, decode_any, decode_array,           *)
(* decode_object and the callbacks accept what JsonAcceptor accepts, in a  *)
(* buffer as well, where the scanner may look beyond the text.             *)
ImplementsAcceptor == Acceptor!Spec
==============================================================================
