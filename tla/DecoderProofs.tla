---------------------------- MODULE DecoderProofs ----------------------------
(***************************************************************************)
(* Proofs about Decoder: what holds for every text, every depth limit,     *)
(* every pool and every number of failures.                                *)
(***************************************************************************)
EXTENDS Decoder, SequenceTheorems, TLAPS

(* What the place the decoder is at says of its other variables.           *)
Shape ==
  /\ pc \in {"loop", "separator"} => frames # <<>> /\ Top.key = NoSlot
  /\ pc \in {"finish", "done"} => frames = <<>>
  /\ pc \in {"value", "loop", "separator", "done"} => ret = NoSlot
  /\ \A i \in DOMAIN frames :
       /\ frames[i].at = "key" => frames[i].key = NoSlot
       /\ frames[i].kind = "list" => frames[i].at = "item" /\ frames[i].key = NoSlot

(* How far an error is known: a message of the core is on its way out with *)
(* a NULL, every NULL has a message or an exception, and the depth counter *)
(* is never less than the number of frames.                                *)
Reported ==
  /\ errorStr # "none" => pc \in {"return", "finish", "done"} /\ ret = NoSlot
  /\ pc \in {"return", "finish"} /\ ret = NoSlot =>
       errorStr # "none" \/ pyErr # "none"
  /\ \A i \in DOMAIN frames : frames[i].obj = NoSlot => pyErr # "none"
  /\ lostItem => pyErr # "none"
  /\ outcome = "value" => pc = "done"
  /\ objDepth >= Len(frames)

(* What got past the check for trailing data ends with the text.           *)
Trailed == pc = "finish" /\ errorStr = "none" /\ ret # NoSlot => AtEnd

IInv ==
  /\ TypeOK /\ Shape /\ Reported /\ DepthExact /\ StaysInText /\ Trailed
  /\ ValueMeansComplete /\ NoSilentNull /\ CrashNeedsFault

(***************************************************************************)
(* The stack of frames.                                                    *)
(***************************************************************************)

(* The innermost frame and the stack that its return leaves.               *)
LEMMA CallerFrames ==
  ASSUME frames \in Seq(Frame), frames # <<>>
  PROVE  /\ Len(frames) \in Nat /\ Len(frames) >= 1
         /\ Top \in Frame
         /\ Caller \in Seq(Frame)
         /\ Len(Caller) = Len(frames) - 1
         /\ \A i \in 1..(Len(frames) - 1) : Caller[i] = frames[i]
<1>1. Len(frames) \in Nat /\ Len(frames) >= 1
  OBVIOUS
<1>2. Top \in Frame
  BY <1>1 DEF Top
<1>3. \A i \in 1..(Len(frames) - 1) : frames[i] \in Frame
  BY <1>1
<1>4. /\ Caller \in Seq(Frame)
      /\ Len(Caller) = IF 1 <= Len(frames) - 1 THEN Len(frames) - 1 - 1 + 1 ELSE 0
      /\ \A i \in 1..(Len(frames) - 1 - 1 + 1) : Caller[i] = frames[1 + i - 1]
  BY <1>1, <1>3, SubSeqProperties DEF Caller
<1>5. Len(Caller) = Len(frames) - 1
  <2>1. PICK n \in Nat : n = Len(frames) /\ n >= 1
    BY <1>1
  <2>2. (IF 1 <= n - 1 THEN n - 1 - 1 + 1 ELSE 0) = n - 1
    BY <2>1
  <2>3. QED
    BY <2>1, <2>2, <1>4, Zenon
<1>6. ASSUME NEW i \in 1..(Len(frames) - 1) PROVE Caller[i] = frames[i]
  <2>1. 1 + i - 1 = i /\ i \in 1..(Len(frames) - 1 - 1 + 1)
    BY <1>1
  <2>2. QED
    BY <1>4, <2>1
<1>7. Caller \in Seq(Frame)
  BY <1>4
<1>8. QED
  BY <1>1, <1>2, <1>5, <1>6, <1>7

(* A new frame on the stack.                                               *)
LEMMA PushedFrames ==
  ASSUME frames \in Seq(Frame), NEW f \in Frame
  PROVE  /\ Append(frames, f) \in Seq(Frame)
         /\ Append(frames, f) # <<>>
         /\ Len(Append(frames, f)) = Len(frames) + 1
         /\ Append(frames, f)[Len(frames) + 1] = f
         /\ \A i \in 1..Len(frames) : Append(frames, f)[i] = frames[i]
  OBVIOUS

(* A change of the innermost frame.                                        *)
LEMMA ChangedTop ==
  ASSUME frames \in Seq(Frame), frames # <<>>, NEW f \in Frame
  PROVE  /\ WithTop(f) \in Seq(Frame)
         /\ WithTop(f) # <<>>
         /\ Len(WithTop(f)) = Len(frames)
         /\ WithTop(f)[Len(frames)] = f
         /\ \A i \in 1..(Len(frames) - 1) : WithTop(f)[i] = frames[i]
<1>1. Len(frames) \in 1..Len(frames)
  OBVIOUS
<1>2. QED
  BY <1>1, ExceptSeq DEF WithTop

(* The same, of the frames after a step.                                   *)
LEMMA ReplacedTop ==
  ASSUME frames \in Seq(Frame), frames # <<>>, NEW f \in Frame,
         frames' = WithTop(f)
  PROVE  /\ frames' \in Seq(Frame)
         /\ frames' # <<>>
         /\ Len(frames') = Len(frames)
         /\ Top' = f
         /\ \A i \in 1..(Len(frames) - 1) : frames'[i] = frames[i]
<1>1. /\ frames' \in Seq(Frame)
      /\ frames' # <<>>
      /\ Len(frames') = Len(frames)
      /\ frames'[Len(frames)] = f
      /\ \A i \in 1..(Len(frames) - 1) : frames'[i] = frames[i]
  BY ChangedTop
<1>2. Top' = frames'[Len(frames')]
  BY DEF Top
<1>3. QED
  BY <1>1, <1>2

(* The text and its memory are sequences of tokens.                        *)
LEMMA InputType ==
  ASSUME TypeOK
  PROVE  /\ input.text \in Seq(Token) /\ input.memory \in Seq(Token)
         /\ Len(input.text) \in Nat /\ Len(input.memory) \in Nat
         /\ input.cut \in BOOLEAN
<1>1. input \in [text : Seq(Token), memory : Seq(Token), cut : BOOLEAN]
  BY DEF TypeOK, Input
<1>2. QED
  BY <1>1

(* A token is there to be looked at only within the text.                  *)
LEMMA PeekWithin ==
  ASSUME TypeOK, Peek \in Token
  PROVE  pos <= Len(input.memory)
  BY DEF TypeOK, Peek, Token

(***************************************************************************)
(* Type correctness.                                                       *)
(***************************************************************************)

(* hpy_decoder_value_new gives a cell or, with an exception, a NULL; what   *)
(* was pending stays pending.                                              *)
LEMMA NewValueType ==
  ASSUME TypeOK, NEW object \in Object, NEW c, NewValue(object, c)
  PROVE  /\ c \in JSOBJ
         /\ c = NoSlot => pyErr' # "none"
         /\ c # NoSlot => UNCHANGED pyErr
         /\ pyErr # "none" => pyErr' # "none"
         /\ pyErr' \in {pyErr, "CallError"}
         /\ cell' \in [Slot -> Object \cup {"free"}]
         /\ faults' \in Nat
  BY SlotAssumption DEF TypeOK, NewValue, JSOBJ, Live, FreeCell

(* Releasing cells leaves each of them free or with the object it had.     *)
LEMMA ReleaseType ==
  ASSUME TypeOK, NEW cs, Release(cs)
  PROVE  cell' \in [Slot -> Object \cup {"free"}]
  BY DEF TypeOK, Release

(* A call of loads starts with everything in order.                        *)
LEMMA InitInv == Init => IInv
<1> SUFFICES ASSUME Init PROVE IInv
  OBVIOUS
<1>1. input \in Input
  BY DocumentAssumption DEF Init
<1>2. TypeOK
  <2>1. frames \in Seq(Frame)
    BY DEF Init
  <2>2. cell \in [Slot -> Object \cup {"free"}]
    BY DEF Init
  <2>3. QED
    BY <1>1, <2>1, <2>2 DEF Init, TypeOK, JSOBJ
<1>3. Len(input.text) \in Nat
  BY <1>2, InputType
<1>4. QED
  BY <1>2, <1>3, DepthAssumption
  DEF Init, IInv, Shape, Reported, DepthExact, StaysInText, Trailed,
      ValueMeansComplete,
      NoSilentNull, CrashNeedsFault

(* No step of the decoder or of a callback leaves the types.               *)
LEMMA NextType == TypeOK /\ Shape /\ Reported /\ [Next]_vars => TypeOK'
<1> SUFFICES ASSUME TypeOK, Shape, Reported, [Next]_vars PROVE TypeOK'
  OBVIOUS
<1> USE DEF TypeOK
<1>1. CASE DecodeScalar \/ DecodeString \/ DecodeNothing
  BY <1>1, NewValueType DEF DecodeScalar, DecodeString, Scanned, ScannedTo,
      DecodeNothing, Object
<1>2. CASE DecodeNoBuffer
  BY <1>2 DEF DecodeNoBuffer, JSOBJ, Message
<1>3. CASE DecodeUnexpected
  BY <1>3 DEF DecodeUnexpected, textVars, poolVars, JSOBJ, Message
<1>4. CASE BeginTooDeep
  BY <1>4 DEF BeginTooDeep, Enter, textVars, poolVars, JSOBJ, Message
<1>5. CASE BeginArray
  <2>1. PICK c \in JSOBJ :
          /\ NewValue("list", c)
          /\ frames' = Append(frames, [kind |-> "list", obj |-> c,
                          key |-> NoSlot, first |-> TRUE, at |-> "item"])
    BY <1>5 DEF BeginArray
  <2>2. frames' \in Seq(Frame)
    BY <2>1, PushedFrames DEF Frame, JSOBJ
  <2>3. QED
    BY <1>5, <2>1, <2>2, NewValueType DEF BeginArray, Enter, Object
<1>6. CASE BeginObject
  <2>1. PICK c \in JSOBJ :
          /\ NewValue("dict", c)
          /\ frames' = Append(frames, [kind |-> "dict", obj |-> c,
                          key |-> NoSlot, first |-> TRUE, at |-> "key"])
    BY <1>6 DEF BeginObject
  <2>2. frames' \in Seq(Frame)
    BY <2>1, PushedFrames DEF Frame, JSOBJ
  <2>3. QED
    BY <1>6, <2>1, <2>2, NewValueType DEF BeginObject, Enter, Object
<1>7. CASE LoopClose
  <2>1. frames # <<>> /\ objDepth - 1 \in Nat
    BY <1>7 DEF LoopClose, Shape, Reported
  <2>2. Caller \in Seq(Frame) /\ Top.obj \in JSOBJ
    BY <2>1, CallerFrames DEF Frame
  <2>3. cell' \in [Slot -> Object \cup {"free"}]
    BY <1>7, ReleaseType DEF LoopClose
  <2>4. QED
    BY <1>7, <2>1, <2>2, <2>3 DEF LoopClose, JSOBJ, Message
<1>8. CASE LoopNext
  BY <1>8 DEF LoopNext, textVars, errVars, poolVars
<1>9. CASE ChildFailed
  BY <1>9, CallerFrames, ReleaseType DEF ChildFailed, textVars, errVars
<1>10. CASE KeyRefused
  BY <1>10, CallerFrames, ReleaseType DEF KeyRefused, JSOBJ, Message
<1>11. CASE KeyRead
  <2>1. frames # <<>> /\ Top \in Frame
    BY <1>11, CallerFrames DEF KeyRead
  <2>2. [Top EXCEPT !.key = ret, !.at = "item"] \in Frame
    BY <2>1 DEF Frame
  <2>3. frames' \in Seq(Frame)
    BY <1>11, <2>1, <2>2, ChangedTop DEF KeyRead
  <2>4. QED
    BY <1>11, <2>3 DEF KeyRead, errVars, poolVars, JSOBJ
<1>12. CASE AddItem
  <2>1. frames # <<>> /\ Top \in Frame
    BY <1>12, CallerFrames DEF AddItem
  <2>2. [Top EXCEPT !.key = NoSlot] \in Frame
    BY <2>1 DEF Frame, JSOBJ
  <2>3. frames' \in Seq(Frame)
    BY <1>12, <2>1, <2>2, ChangedTop DEF AddItem
  <2>4. /\ UNCHANGED <<textVars, lastType, objDepth, errorStr, outcome>>
        /\ ret' = NoSlot
        /\ pc' = "separator"
        /\ ArrayAddItem \/ ObjectAddKey
    BY <1>12 DEF AddItem
  <2>5. cell' \in [Slot -> Object \cup {"free"}]
    BY <2>4, ReleaseType DEF ArrayAddItem, ObjectAddKey
  <2>6. pyErr' \in {pyErr, "CallError", "JSONDecodeError"}
    BY <2>4, Zenon DEF ArrayAddItem, ObjectAddKey
  <2>7. lostItem' \in BOOLEAN
    BY <2>4, Zenon DEF ArrayAddItem, ObjectAddKey
  <2>8. faults' = faults \/ faults' = faults + 1
    BY <2>4, Zenon DEF ArrayAddItem, ObjectAddKey
  <2>9. QED
    BY <2>3, <2>4, <2>5, <2>6, <2>7, <2>8 DEF textVars, JSOBJ
<1>13. CASE AddToNull
  BY <1>13 DEF AddToNull, textVars, errVars, poolVars
<1>14. CASE SeparatorClose
  <2>1. frames # <<>> /\ objDepth - 1 \in Nat
    BY <1>14 DEF SeparatorClose, Shape, Reported
  <2>2. Caller \in Seq(Frame) /\ Top.obj \in JSOBJ
    BY <2>1, CallerFrames DEF Frame
  <2>3. QED
    BY <1>14, <2>1, <2>2 DEF SeparatorClose, errVars, poolVars
<1>15. CASE SeparatorComma
  <2>1. frames # <<>> /\ Top \in Frame
    BY <1>15, CallerFrames DEF SeparatorComma, Shape
  <2> DEFINE at == IF Top.kind = "dict" THEN "key" ELSE "item"
             top == [Top EXCEPT !.first = FALSE, !.at = at]
  <2>2. top \in Frame
    BY <2>1 DEF Frame
  <2>3. frames' \in Seq(Frame)
    BY <1>15, <2>1, <2>2, ChangedTop DEF SeparatorComma
  <2>4. QED
    BY <1>15, <2>3 DEF SeparatorComma, errVars, poolVars
<1>16. CASE SeparatorUnexpected
  BY <1>16, CallerFrames, ReleaseType
  DEF SeparatorUnexpected, Shape, JSOBJ, Message
<1>17. CASE CheckTrailing
  BY <1>17, ReleaseType DEF CheckTrailing, textVars, JSOBJ, Message
<1>18. CASE Raise
  BY <1>18, ReleaseType DEF Raise, textVars, JSOBJ
<1>19. CASE ReturnValue
  BY <1>19, ReleaseType DEF ReturnValue, textVars, errVars, JSOBJ
<1>20. CASE UNCHANGED vars
  BY <1>20 DEF vars
<1>21. QED
  BY <1>1, <1>2, <1>3, <1>4, <1>5, <1>6, <1>7, <1>8, <1>9, <1>10, <1>11, <1>12,
     <1>13, <1>14, <1>15, <1>16, <1>17, <1>18, <1>19, <1>20 DEF Next, Stopped

(***************************************************************************)
(* Where the decoder is and what the frames hold.                          *)
(***************************************************************************)

(* Every step keeps what its place says: an open frame wherever the code   *)
(* uses one, no name read but not stored at the head of a loop, no value   *)
(* returned but where one was decoded.                                     *)
LEMMA NextShape == TypeOK /\ Shape /\ Reported /\ [Next]_vars => Shape'
<1> SUFFICES ASSUME TypeOK, Shape, Reported, [Next]_vars PROVE Shape'
  OBVIOUS
<1> DEFINE Framed(f) == /\ f.at = "key" => f.key = NoSlot
                        /\ f.kind = "list" => f.at = "item" /\ f.key = NoSlot
<1>a. frames \in Seq(Frame) /\ frames' \in Seq(Frame)
  BY NextType DEF TypeOK
<1>b. \A i \in 1..Len(frames) : Framed(frames[i])
  BY <1>a DEF Shape
<1>c. ASSUME frames # <<>>, frames' = Caller
      PROVE  \A i \in DOMAIN frames' : Framed(frames'[i])
  BY <1>a, <1>b, <1>c, CallerFrames
<1>d. ASSUME NEW f \in Frame, Framed(f), frames' = Append(frames, f)
      PROVE  /\ frames' # <<>> /\ Top' = f
             /\ \A i \in DOMAIN frames' : Framed(frames'[i])
  BY <1>a, <1>b, <1>d, PushedFrames DEF Top
<1>e. ASSUME frames # <<>>, NEW f \in Frame, Framed(f), frames' = WithTop(f)
      PROVE  /\ frames' # <<>> /\ Top' = f
             /\ \A i \in DOMAIN frames' : Framed(frames'[i])
  <2>1. /\ frames' # <<>> /\ Len(frames') = Len(frames) /\ Top' = f
        /\ frames'[Len(frames)] = f
        /\ \A i \in 1..(Len(frames) - 1) : frames'[i] = frames[i]
    BY <1>a, <1>e, ReplacedTop, ChangedTop
  <2>2. \A i \in DOMAIN frames' : i = Len(frames) \/ i \in 1..(Len(frames) - 1)
    BY <1>a, <2>1
  <2>3. \A i \in 1..(Len(frames) - 1) : Framed(frames[i])
    BY <1>a, <1>b
  <2>4. QED
    BY <1>e, <2>1, <2>2, <2>3
<1>f. UNCHANGED frames =>
        /\ Top' = Top
        /\ \A i \in DOMAIN frames' : Framed(frames'[i])
  BY <1>a, <1>b DEF Top
<1>g. frames # <<>> => Top \in Frame /\ Framed(Top)
  BY <1>a, <1>b, CallerFrames DEF Top
<1>1. CASE DecodeScalar \/ DecodeString \/ DecodeNothing
  BY <1>1, <1>f DEF DecodeScalar, DecodeString, Scanned, ScannedTo,
      DecodeNothing, Shape
<1>2. CASE DecodeNoBuffer
  BY <1>2, <1>f DEF DecodeNoBuffer, Shape
<1>3. CASE DecodeUnexpected
  BY <1>3, <1>f DEF DecodeUnexpected, Shape
<1>4. CASE BeginTooDeep
  BY <1>4, <1>f DEF BeginTooDeep, Shape
<1>5. CASE BeginArray
  <2>1. PICK c \in JSOBJ :
          frames' = Append(frames, [kind |-> "list", obj |-> c,
                          key |-> NoSlot, first |-> TRUE, at |-> "item"])
    BY <1>5 DEF BeginArray
  <2> DEFINE f == [kind |-> "list", obj |-> c, key |-> NoSlot, first |-> TRUE,
                   at |-> "item"]
  <2>2. f \in Frame /\ Framed(f) /\ f.key = NoSlot
    BY DEF Frame, JSOBJ
  <2>3. pc' = "loop" /\ ret' = NoSlot
    BY <1>5 DEF BeginArray, Shape
  <2>4. frames' # <<>> /\ Top' = f /\ \A i \in DOMAIN frames' : Framed(frames'[i])
    BY <2>1, <2>2, <1>d
  <2> HIDE DEF f
  <2>5. QED
    BY <2>2, <2>3, <2>4 DEF Shape
<1>6. CASE BeginObject
  <2>1. PICK c \in JSOBJ :
          frames' = Append(frames, [kind |-> "dict", obj |-> c,
                          key |-> NoSlot, first |-> TRUE, at |-> "key"])
    BY <1>6 DEF BeginObject
  <2> DEFINE f == [kind |-> "dict", obj |-> c, key |-> NoSlot, first |-> TRUE,
                   at |-> "key"]
  <2>2. f \in Frame /\ Framed(f) /\ f.key = NoSlot
    BY DEF Frame, JSOBJ
  <2>3. pc' = "loop" /\ ret' = NoSlot
    BY <1>6 DEF BeginObject, Shape
  <2>4. frames' # <<>> /\ Top' = f /\ \A i \in DOMAIN frames' : Framed(frames'[i])
    BY <2>1, <2>2, <1>d
  <2> HIDE DEF f
  <2>5. QED
    BY <2>2, <2>3, <2>4 DEF Shape
<1>7. CASE LoopClose
  BY <1>7, <1>c DEF LoopClose, Shape
<1>8. CASE LoopNext
  BY <1>8, <1>f DEF LoopNext, Shape
<1>9. CASE ChildFailed
  BY <1>9, <1>c DEF ChildFailed, Shape
<1>10. CASE KeyRefused
  BY <1>10, <1>c DEF KeyRefused, Shape
<1>11. CASE KeyRead
  <2> DEFINE f == [Top EXCEPT !.key = ret, !.at = "item"]
  <2>1. frames # <<>> /\ frames' = WithTop(f) /\ Top.at = "key"
    BY <1>11 DEF KeyRead
  <2>2. f \in Frame /\ Framed(f)
    BY <2>1, <1>g DEF Frame, TypeOK
  <2>3. pc' = "value" /\ ret' = NoSlot
    BY <1>11 DEF KeyRead
  <2>4. \A i \in DOMAIN frames' : Framed(frames'[i])
    BY <2>1, <2>2, <1>e
  <2>5. QED
    BY <2>3, <2>4 DEF Shape
<1>12. CASE AddItem
  <2> DEFINE f == [Top EXCEPT !.key = NoSlot]
  <2>1. frames # <<>> /\ frames' = WithTop(f)
    BY <1>12 DEF AddItem
  <2>2. f \in Frame /\ Framed(f) /\ f.key = NoSlot
    BY <2>1, <1>g DEF Frame, JSOBJ
  <2>3. pc' = "separator" /\ ret' = NoSlot
    BY <1>12 DEF AddItem
  <2> HIDE DEF f
  <2>4. frames' # <<>> /\ Top' = f /\ \A i \in DOMAIN frames' : Framed(frames'[i])
    BY <2>1, <2>2, <1>e
  <2>5. QED
    BY <2>2, <2>3, <2>4 DEF Shape
<1>13. CASE AddToNull
  BY <1>13, <1>f DEF AddToNull, Shape
<1>14. CASE SeparatorClose
  BY <1>14, <1>c DEF SeparatorClose, Shape
<1>15. CASE SeparatorComma
  <2> DEFINE at == IF Top.kind = "dict" THEN "key" ELSE "item"
             f == [Top EXCEPT !.first = FALSE, !.at = at]
  <2>1. frames # <<>> /\ Top.key = NoSlot
    BY <1>15 DEF SeparatorComma, Shape
  <2>2. frames' = WithTop(f)
    BY <1>15 DEF SeparatorComma
  <2>3. f \in Frame /\ Framed(f) /\ f.key = NoSlot
    BY <2>1, <1>g DEF Frame
  <2>4. pc' = "loop" /\ ret' = NoSlot
    BY <1>15 DEF SeparatorComma, Shape
  <2> HIDE DEF f
  <2>5. frames' # <<>> /\ Top' = f /\ \A i \in DOMAIN frames' : Framed(frames'[i])
    BY <2>1, <2>2, <2>3, <1>e
  <2>6. QED
    BY <2>3, <2>4, <2>5 DEF Shape
<1>16. CASE SeparatorUnexpected
  BY <1>16, <1>c DEF SeparatorUnexpected, Shape
<1>17. CASE CheckTrailing
  BY <1>17, <1>f DEF CheckTrailing, Shape
<1>18. CASE Raise
  BY <1>18, <1>f DEF Raise, Shape
<1>19. CASE ReturnValue
  BY <1>19, <1>f DEF ReturnValue, Shape
<1>20. CASE UNCHANGED vars
  BY <1>20, <1>f DEF vars, Shape
<1>21. QED
  BY <1>1, <1>2, <1>3, <1>4, <1>5, <1>6, <1>7, <1>8, <1>9, <1>10, <1>11, <1>12,
     <1>13, <1>14, <1>15, <1>16, <1>17, <1>18, <1>19, <1>20 DEF Next, Stopped

(***************************************************************************)
(* What is known of the errors.                                            *)
(***************************************************************************)

(* A pending exception stays pending, and a call into Python that fails    *)
(* leaves one.                                                             *)
LEMMA ExceptionStays ==
  TypeOK /\ [Next]_vars =>
    /\ pyErr # "none" => pyErr' # "none"
    /\ lostItem' => lostItem \/ pyErr' # "none"
<1> SUFFICES ASSUME TypeOK, [Next]_vars
             PROVE  /\ pyErr # "none" => pyErr' # "none"
                    /\ lostItem' => lostItem \/ pyErr' # "none"
  OBVIOUS
<1>1. CASE DecodeScalar \/ DecodeString \/ DecodeNothing
  BY <1>1, NewValueType DEF DecodeScalar, DecodeString, Scanned, ScannedTo,
      DecodeNothing, Object
<1>2. CASE BeginArray
  BY <1>2, NewValueType DEF BeginArray, Object
<1>3. CASE BeginObject
  BY <1>3, NewValueType DEF BeginObject, Object
<1>4. CASE AddItem
  BY <1>4 DEF AddItem, ArrayAddItem, ObjectAddKey
<1>5. CASE Raise
  BY <1>5 DEF Raise
<1>6. CASE UNCHANGED <<pyErr, lostItem>>
  BY <1>6
<1>7. QED
  BY <1>1, <1>2, <1>3, <1>4, <1>5, <1>6
  DEF Next, vars, errVars, Stopped, DecodeNoBuffer, DecodeUnexpected,
      BeginTooDeep, LoopClose, LoopNext, ChildFailed, KeyRefused, KeyRead,
      AddToNull, SeparatorClose, SeparatorComma, SeparatorUnexpected,
      CheckTrailing, ReturnValue

(* Every frame with a NULL newObj has its exception, whatever is pushed,   *)
(* changed or popped.                                                      *)
LEMMA NextNullFrames ==
  TypeOK /\ Shape /\ Reported /\ [Next]_vars =>
    \A i \in DOMAIN frames' : frames'[i].obj = NoSlot => pyErr' # "none"
<1> SUFFICES ASSUME TypeOK, Shape, Reported, [Next]_vars
             PROVE  \A i \in DOMAIN frames' :
                      frames'[i].obj = NoSlot => pyErr' # "none"
  OBVIOUS
<1> DEFINE Explained(f) == f.obj = NoSlot => pyErr' # "none"
           Goal == \A i \in DOMAIN frames' : Explained(frames'[i])
<1>a. frames \in Seq(Frame) /\ frames' \in Seq(Frame)
  BY NextType DEF TypeOK
<1>b. \A i \in 1..Len(frames) : Explained(frames[i])
  BY <1>a, ExceptionStays DEF Reported
<1>c. frames # <<>> /\ frames' = Caller => Goal
  BY <1>a, <1>b, CallerFrames
<1>d. ASSUME NEW f \in Frame, Explained(f), frames' = Append(frames, f)
      PROVE  Goal
  BY <1>a, <1>b, <1>d, PushedFrames
<1>e. ASSUME frames # <<>>, NEW f \in Frame, f.obj = Top.obj, frames' = WithTop(f)
      PROVE  Goal
  <2>1. Len(frames) \in 1..Len(frames)
    BY <1>a, <1>e
  <2>2. Explained(f)
    BY <1>b, <1>e, <2>1 DEF Top
  <2>3. /\ Len(frames') = Len(frames) /\ frames'[Len(frames)] = f
        /\ \A i \in 1..(Len(frames) - 1) : frames'[i] = frames[i]
    BY <1>a, <1>e, ChangedTop
  <2>4. \A i \in DOMAIN frames' : i = Len(frames) \/ i \in 1..(Len(frames) - 1)
    BY <1>a, <2>3
  <2>5. \A i \in 1..(Len(frames) - 1) : Explained(frames[i])
    BY <1>a, <1>b
  <2>6. QED
    BY <2>2, <2>3, <2>4, <2>5
<1>f. UNCHANGED frames => Goal
  BY <1>a, <1>b
<1>g. frames # <<>> => Top \in Frame
  BY <1>a, CallerFrames
<1>1. CASE BeginArray
  <2>1. PICK c \in JSOBJ :
          /\ NewValue("list", c)
          /\ frames' = Append(frames, [kind |-> "list", obj |-> c,
                          key |-> NoSlot, first |-> TRUE, at |-> "item"])
    BY <1>1 DEF BeginArray
  <2> DEFINE f == [kind |-> "list", obj |-> c, key |-> NoSlot, first |-> TRUE,
                   at |-> "item"]
  <2>2. f \in Frame /\ Explained(f)
    BY <2>1, NewValueType DEF Frame, JSOBJ, Object
  <2>3. QED
    BY <2>1, <2>2, <1>d
<1>2. CASE BeginObject
  <2>1. PICK c \in JSOBJ :
          /\ NewValue("dict", c)
          /\ frames' = Append(frames, [kind |-> "dict", obj |-> c,
                          key |-> NoSlot, first |-> TRUE, at |-> "key"])
    BY <1>2 DEF BeginObject
  <2> DEFINE f == [kind |-> "dict", obj |-> c, key |-> NoSlot, first |-> TRUE,
                   at |-> "key"]
  <2>2. f \in Frame /\ Explained(f)
    BY <2>1, NewValueType DEF Frame, JSOBJ, Object
  <2>3. QED
    BY <2>1, <2>2, <1>d
<1>3. CASE KeyRead
  <2> DEFINE f == [Top EXCEPT !.key = ret, !.at = "item"]
  <2>1. frames # <<>> /\ frames' = WithTop(f)
    BY <1>3 DEF KeyRead
  <2>2. f \in Frame /\ f.obj = Top.obj
    BY <2>1, <1>g DEF Frame, TypeOK
  <2>3. QED
    BY <2>1, <2>2, <1>e
<1>4. CASE AddItem
  <2> DEFINE f == [Top EXCEPT !.key = NoSlot]
  <2>1. frames # <<>> /\ frames' = WithTop(f)
    BY <1>4 DEF AddItem
  <2>2. f \in Frame /\ f.obj = Top.obj
    BY <2>1, <1>g DEF Frame, JSOBJ
  <2>3. QED
    BY <2>1, <2>2, <1>e
<1>5. CASE SeparatorComma
  <2> DEFINE at == IF Top.kind = "dict" THEN "key" ELSE "item"
             f == [Top EXCEPT !.first = FALSE, !.at = at]
  <2>1. frames # <<>> /\ frames' = WithTop(f)
    BY <1>5 DEF SeparatorComma, Shape
  <2>2. f \in Frame /\ f.obj = Top.obj
    BY <2>1, <1>g DEF Frame
  <2>3. QED
    BY <2>1, <2>2, <1>e
<1>6. CASE LoopClose \/ ChildFailed \/ KeyRefused \/ SeparatorClose
           \/ SeparatorUnexpected
  <2>1. frames # <<>> /\ frames' = Caller
    BY <1>6 DEF LoopClose, ChildFailed, KeyRefused, SeparatorClose,
                SeparatorUnexpected, Shape
  <2>2. QED
    BY <2>1, <1>c
<1>7. CASE UNCHANGED frames
  BY <1>7, <1>f
<1>8. QED
  BY <1>1, <1>2, <1>3, <1>4, <1>5, <1>6, <1>7
  DEF Next, vars, Stopped, DecodeScalar, DecodeString, Scanned, ScannedTo,
      DecodeNothing,
      DecodeNoBuffer, DecodeUnexpected, BeginTooDeep, LoopNext, AddToNull,
      CheckTrailing, Raise, ReturnValue

(* A message goes with a NULL to the end of the call, a NULL has a message *)
(* or an exception, and only ReturnValue returns a value.                  *)
LEMMA NextReasons ==
  ASSUME TypeOK, Shape, Reported, [Next]_vars
  PROVE  /\ errorStr' # "none" =>
              pc' \in {"return", "finish", "done"} /\ ret' = NoSlot
         /\ pc' \in {"return", "finish"} /\ ret' = NoSlot =>
              errorStr' # "none" \/ pyErr' # "none"
         /\ outcome' = "value" => pc' = "done"
         /\ errorStr # "none" => errorStr' = errorStr
<1> USE DEF Reported
<1>a. frames # <<>> =>
        /\ Top.obj = NoSlot => pyErr # "none"
        /\ Top.obj = NoSlot => pyErr' # "none"
  BY ExceptionStays, CallerFrames DEF TypeOK, Top
<1>1. CASE DecodeScalar \/ DecodeString \/ DecodeNothing
  BY <1>1, NewValueType DEF DecodeScalar, DecodeString, Scanned, ScannedTo,
      DecodeNothing, Object, Shape
<1>2. CASE DecodeNoBuffer
  BY <1>2 DEF DecodeNoBuffer
<1>3. CASE DecodeUnexpected
  BY <1>3 DEF DecodeUnexpected
<1>4. CASE BeginTooDeep
  BY <1>4 DEF BeginTooDeep
<1>5. CASE BeginArray
  BY <1>5 DEF BeginArray
<1>6. CASE BeginObject
  BY <1>6 DEF BeginObject
<1>7. CASE LoopClose
  BY <1>7, <1>a DEF LoopClose, Shape
<1>8. CASE LoopNext
  BY <1>8 DEF LoopNext, errVars
<1>9. CASE ChildFailed
  BY <1>9 DEF ChildFailed, errVars
<1>10. CASE KeyRefused
  BY <1>10 DEF KeyRefused
<1>11. CASE KeyRead
  BY <1>11 DEF KeyRead, errVars
<1>12. CASE AddItem
  BY <1>12 DEF AddItem
<1>13. CASE AddToNull
  BY <1>13 DEF AddToNull, errVars
<1>14. CASE SeparatorClose
  BY <1>14, <1>a DEF SeparatorClose, errVars, Shape
<1>15. CASE SeparatorComma
  BY <1>15 DEF SeparatorComma, errVars
<1>16. CASE SeparatorUnexpected
  BY <1>16 DEF SeparatorUnexpected
<1>17. CASE CheckTrailing
  BY <1>17 DEF CheckTrailing, HasTrailing
<1>18. CASE Raise
  BY <1>18 DEF Raise
<1>19. CASE ReturnValue
  BY <1>19 DEF ReturnValue, errVars
<1>20. CASE UNCHANGED vars
  BY <1>20 DEF vars
<1>21. QED
  BY <1>1, <1>2, <1>3, <1>4, <1>5, <1>6, <1>7, <1>8, <1>9, <1>10, <1>11, <1>12,
     <1>13, <1>14, <1>15, <1>16, <1>17, <1>18, <1>19, <1>20 DEF Next, Stopped

(* No step of decode_any, decode_array, decode_object or a callback loses  *)
(* track of an error.                                                      *)
LEMMA NextReported ==
  ASSUME TypeOK, Shape, Reported, [Next]_vars
  PROVE  Reported'
<1>1. lostItem' => pyErr' # "none"
  BY ExceptionStays DEF Reported
<1>2. objDepth' >= Len(frames')
  <2>a. frames \in Seq(Frame) /\ objDepth \in Nat /\ objDepth >= Len(frames)
    BY DEF TypeOK, Reported
  <2>b. frames # <<>> /\ frames' = Caller => Len(frames') = Len(frames) - 1
    BY <2>a, CallerFrames
  <2>c. ASSUME NEW f, frames # <<>>, frames' = WithTop(f)
        PROVE  Len(frames') = Len(frames)
    BY <2>a, <2>c DEF WithTop
  <2>d. ASSUME NEW f, frames' = Append(frames, f)
        PROVE  Len(frames') = Len(frames) + 1
    BY <2>a, <2>d
  <2>1. CASE BeginArray \/ BeginObject
    <3>1. objDepth' = objDepth + 1 /\ \E f : frames' = Append(frames, f)
      BY <2>1 DEF BeginArray, BeginObject, Enter
    <3>2. QED
      BY <3>1, <2>a, <2>d
  <2>2. CASE LoopClose \/ SeparatorClose
    <3>1. frames # <<>> /\ frames' = Caller /\ objDepth' = objDepth - 1
      BY <2>2 DEF LoopClose, SeparatorClose, Shape
    <3>2. QED
      BY <3>1, <2>a, <2>b, CallerFrames
  <2>3. CASE ChildFailed \/ KeyRefused \/ SeparatorUnexpected
    <3>1. frames # <<>> /\ frames' = Caller /\ objDepth' = objDepth
      BY <2>3 DEF ChildFailed, KeyRefused, SeparatorUnexpected, Shape
    <3>2. QED
      BY <3>1, <2>a, <2>b, CallerFrames
  <2>4. CASE KeyRead \/ AddItem \/ SeparatorComma
    <3>1. /\ frames # <<>> /\ objDepth' = objDepth
          /\ \E f : frames' = WithTop(f)
      BY <2>4 DEF KeyRead, AddItem, SeparatorComma, Shape
    <3>2. QED
      BY <3>1, <2>a, <2>c
  <2>5. CASE BeginTooDeep
    BY <2>5, <2>a DEF BeginTooDeep, Enter
  <2>6. CASE UNCHANGED <<frames, objDepth>>
    BY <2>6, <2>a
  <2>7. QED
    BY <2>1, <2>2, <2>3, <2>4, <2>5, <2>6
    DEF Next, vars, Stopped, DecodeScalar, DecodeString, Scanned, ScannedTo,
        DecodeNothing,
        DecodeNoBuffer, DecodeUnexpected, LoopNext, AddToNull, CheckTrailing,
        Raise, ReturnValue
<1>3. QED
  BY <1>1, <1>2, NextReasons, NextNullFrames DEF Reported

(* What the limit of the depth and the terminator of the text promise.     *)
LEMMA NextDepth ==
  ASSUME TypeOK, Shape, Reported, DepthExact, [Next]_vars
  PROVE  DepthExact'
<1>a. /\ frames \in Seq(Frame) /\ objDepth \in Nat /\ MaxDepth \in Nat
      /\ objDepth >= Len(frames) /\ Len(frames) <= MaxDepth
  BY DepthAssumption DEF TypeOK, Reported, DepthExact
<1>b. errorStr' = "none" /\ pyErr' = "none" =>
        errorStr = "none" /\ pyErr = "none" /\ objDepth = Len(frames)
  BY ExceptionStays, NextReasons DEF DepthExact
<1>c. frames # <<>> /\ frames' = Caller => Len(frames') = Len(frames) - 1
  BY <1>a, CallerFrames
<1>1. CASE BeginArray \/ BeginObject
  <2>1. objDepth' = Enter /\ ~TooDeep /\ \E f : frames' = Append(frames, f)
    BY <1>1 DEF BeginArray, BeginObject
  <2>a. objDepth' = objDepth + 1 /\ objDepth + 1 <= MaxDepth
    BY <2>1, <1>a DEF Enter, TooDeep
  <2>2. Len(frames') = Len(frames) + 1
    BY <2>1, <1>a
  <2>3. QED
    BY <2>a, <2>2, <1>a, <1>b DEF DepthExact
<1>2. CASE LoopClose \/ SeparatorClose
  <2>1. frames # <<>> /\ frames' = Caller /\ objDepth' = objDepth - 1
    BY <1>2 DEF LoopClose, SeparatorClose, Shape
  <2>2. QED
    BY <2>1, <1>a, <1>b, <1>c, CallerFrames DEF DepthExact
<1>3. CASE ChildFailed \/ KeyRefused \/ SeparatorUnexpected
  <2>1. frames # <<>> /\ frames' = Caller
    BY <1>3 DEF ChildFailed, KeyRefused, SeparatorUnexpected, Shape
  <2>2. errorStr' # "none" \/ pyErr' # "none"
    BY <1>3, NextReasons
    DEF ChildFailed, KeyRefused, SeparatorUnexpected, errVars, Reported
  <2>3. QED
    BY <2>1, <2>2, <1>a, <1>c, CallerFrames DEF DepthExact
<1>4. CASE KeyRead \/ AddItem \/ SeparatorComma
  <2>1. objDepth' = objDepth /\ \E f : frames' = WithTop(f)
    BY <1>4 DEF KeyRead, AddItem, SeparatorComma
  <2>2. Len(frames') = Len(frames)
    BY <2>1, <1>a DEF WithTop
  <2>3. QED
    BY <2>1, <2>2, <1>a, <1>b DEF DepthExact
<1>5. CASE BeginTooDeep
  BY <1>5, <1>a DEF BeginTooDeep, DepthExact
<1>6. CASE UNCHANGED <<frames, objDepth>>
  BY <1>6, <1>a, <1>b DEF DepthExact
<1>7. QED
  BY <1>1, <1>2, <1>3, <1>4, <1>5, <1>6
  DEF Next, vars, Stopped, DecodeScalar, DecodeString, Scanned, ScannedTo,
      DecodeNothing,
      DecodeNoBuffer, DecodeUnexpected, LoopNext, AddToNull, CheckTrailing,
      Raise, ReturnValue

(* No step changes the text.                                               *)
LEMMA NextInput ==
  ASSUME [Next]_vars
  PROVE  input' = input
  BY DEF Next, vars, textVars, Stopped, DecodeScalar, DecodeString, Scanned, ScannedTo,
         DecodeNothing,
         DecodeNoBuffer, DecodeUnexpected, BeginTooDeep, BeginArray,
         BeginObject, LoopClose, LoopNext, ChildFailed, KeyRefused, KeyRead,
         AddItem, AddToNull, SeparatorClose, SeparatorComma,
         SeparatorUnexpected, CheckTrailing, Raise, ReturnValue

(* No step takes the scanner beyond the terminator without a SetError.     *)
LEMMA NextWithin ==
  ASSUME TypeOK, Shape, Reported, StaysInText, [Next]_vars, Terminated,
         errorStr' = "none"
  PROVE  pos' <= Len(input.text) + 1
<1>a. pos \in Nat /\ Len(input.text) \in Nat
  BY InputType DEF TypeOK
<1>b. errorStr = "none" /\ pos <= Len(input.text) + 1
  BY NextReasons DEF StaysInText
<1>c. Peek \in Token => pos <= Len(input.text)
  BY PeekWithin DEF Terminated
<1>e. frames # <<>> => Closer(Top.kind) \in Token
  BY CallerFrames DEF TypeOK, Closer, Token
<1>1. ASSUME Peek \in Token, pos' = pos + 1 PROVE pos' <= Len(input.text) + 1
  BY <1>1, <1>a, <1>c
<1>2. CASE DecodeScalar \/ DecodeString \/ DecodeNothing
  BY <1>2, <1>1, <1>b DEF DecodeScalar, DecodeString, Scanned, ScannedTo,
      DecodeNothing, Token
<1>3. CASE BeginArray
  BY <1>3, <1>1 DEF BeginArray, Token
<1>4. CASE BeginObject
  BY <1>4, <1>1 DEF BeginObject, Token
<1>5. CASE LoopClose
  <2>1. CASE UNCHANGED pos
    BY <2>1, <1>b
  <2>2. CASE pos' = pos + 1
    BY <2>2, <1>5, <1>1, <1>e DEF LoopClose, Shape
  <2>3. QED
    BY <2>1, <2>2, <1>5 DEF LoopClose
<1>6. CASE KeyRead
  BY <1>6, <1>1 DEF KeyRead, Token
<1>7. CASE SeparatorClose
  BY <1>7, <1>1, <1>e DEF SeparatorClose, Shape
<1>8. CASE SeparatorComma
  BY <1>8, <1>1 DEF SeparatorComma, Token
<1>9. CASE DecodeNoBuffer
  BY <1>9 DEF DecodeNoBuffer
<1>10. CASE SeparatorUnexpected
  BY <1>10 DEF SeparatorUnexpected
<1>11. CASE KeyRefused
  BY <1>11, <1>b DEF KeyRefused
<1>12. CASE UNCHANGED pos
  BY <1>12, <1>b
<1>13. QED
  BY <1>2, <1>3, <1>4, <1>5, <1>6, <1>7, <1>8, <1>9, <1>10, <1>11, <1>12
  DEF Next, vars, textVars, Stopped, DecodeUnexpected, BeginTooDeep, LoopNext,
      ChildFailed, AddItem, AddToNull, CheckTrailing, Raise, ReturnValue

(* Only what ends with the text gets past the check for trailing data, and *)
(* only that is returned.                                                  *)
LEMMA NextText ==
  ASSUME TypeOK, Shape, Reported, StaysInText, Trailed, [Next]_vars
  PROVE  StaysInText' /\ Trailed'
<1>0. outcome = "value" => pc = "done"
  BY DEF Reported
<1>1. input' = input
  BY NextInput
<1>2. Terminated' /\ (errorStr = "none")' => (pos <= Len(input.text) + 1)'
  BY <1>1, NextWithin DEF Terminated
<1>3. Trailed' /\ ((outcome = "value")' => AtEnd')
  <2>1. CASE CheckTrailing
    BY <2>1, <1>0, <1>1 DEF CheckTrailing, HasTrailing, Trailed, StaysInText, AtEnd,
                      textVars
  <2>2. CASE ReturnValue
    BY <2>2, <1>1 DEF ReturnValue, Trailed, AtEnd, textVars
  <2>3. CASE Raise
    BY <2>3 DEF Raise, Trailed
  <2>4. CASE UNCHANGED vars
    BY <2>4 DEF vars, Trailed, StaysInText, AtEnd
  <2>5. CASE pc' # "finish" /\ outcome' = outcome /\ pc # "done"
    BY <2>5, <1>0 DEF Trailed
  <2>6. QED
    BY <2>1, <2>2, <2>3, <2>4, <2>5
    DEF Next, Stopped, DecodeScalar, DecodeString, Scanned, ScannedTo,
        DecodeNothing,
        DecodeNoBuffer, DecodeUnexpected, BeginTooDeep, BeginArray,
        BeginObject, LoopClose, LoopNext, ChildFailed, KeyRefused, KeyRead,
        AddItem, AddToNull, SeparatorClose, SeparatorComma,
        SeparatorUnexpected
<1>4. QED
  BY <1>2, <1>3 DEF StaysInText

(* What the results promise.                                               *)
LEMMA NextResult ==
  ASSUME TypeOK, Shape, Reported, ValueMeansComplete, NoSilentNull,
         CrashNeedsFault, [Next]_vars
  PROVE  ValueMeansComplete' /\ NoSilentNull' /\ CrashNeedsFault'
<1>1. ValueMeansComplete'
  <2>1. CASE ReturnValue
    BY <2>1 DEF ReturnValue, errVars, Reported, ValueMeansComplete
  <2>2. ASSUME outcome' = "value", UNCHANGED outcome
        PROVE  UNCHANGED <<errorStr, pyErr, lostItem>>
    <3>1. pc = "done"
      BY <2>2 DEF Reported
    <3>2. Stopped \/ UNCHANGED vars
      BY <3>1
      DEF Next, DecodeScalar, DecodeString, Scanned, ScannedTo,
      DecodeNothing, DecodeNoBuffer,
          DecodeUnexpected, BeginTooDeep, BeginArray, BeginObject, LoopClose,
          LoopNext, ChildFailed, KeyRefused, KeyRead, AddItem, AddToNull,
          SeparatorClose, SeparatorComma, SeparatorUnexpected, CheckTrailing,
          Raise, ReturnValue
    <3>3. QED
      BY <3>2 DEF Stopped, vars
  <2>3. CASE UNCHANGED outcome
    BY <2>2, <2>3 DEF ValueMeansComplete
  <2>4. CASE Raise
    BY <2>4 DEF Raise, ValueMeansComplete
  <2>5. QED
    BY <2>1, <2>3, <2>4
    DEF Next, vars, Stopped, DecodeScalar, DecodeString, Scanned, ScannedTo,
        DecodeNothing,
        DecodeNoBuffer, DecodeUnexpected, BeginTooDeep, BeginArray,
        BeginObject, LoopClose, LoopNext, ChildFailed, KeyRefused, KeyRead,
        AddItem, AddToNull, SeparatorClose, SeparatorComma,
        SeparatorUnexpected, CheckTrailing
<1>2. NoSilentNull'
  <2>1. CASE Raise
    BY <2>1 DEF Raise, Reported, NoSilentNull
  <2>2. CASE DecodeScalar \/ DecodeString \/ DecodeNothing
    BY <2>2, NewValueType DEF DecodeScalar, DecodeString, Scanned, ScannedTo,
      DecodeNothing, Object, NoSilentNull
  <2>3. CASE BeginArray
    BY <2>3, NewValueType DEF BeginArray, Object, NoSilentNull
  <2>4. CASE BeginObject
    BY <2>4, NewValueType DEF BeginObject, Object, NoSilentNull
  <2>5. CASE AddItem
    BY <2>5 DEF AddItem, ArrayAddItem, ObjectAddKey, NoSilentNull
  <2>6. CASE UNCHANGED pyErr
    BY <2>6 DEF NoSilentNull
  <2>7. QED
    BY <2>1, <2>2, <2>3, <2>4, <2>5, <2>6
    DEF Next, vars, errVars, Stopped, DecodeNoBuffer, DecodeUnexpected,
        BeginTooDeep, LoopClose, LoopNext, ChildFailed, KeyRefused, KeyRead,
        AddToNull, SeparatorClose, SeparatorComma, SeparatorUnexpected,
        CheckTrailing, ReturnValue
<1>3. CrashNeedsFault'
  <2>1. CASE AddToNull
    <3>1. frames # <<>> /\ frames[Len(frames)].obj = NoSlot
      BY <2>1 DEF AddToNull, Top
    <3>2. Len(frames) \in DOMAIN frames
      BY <3>1 DEF TypeOK
    <3>3. QED
      BY <2>1, <3>1, <3>2 DEF AddToNull, errVars, Reported, CrashNeedsFault
  <2>2. CASE pc' # "crashed"
    BY <2>2 DEF CrashNeedsFault
  <2>3. CASE Stopped \/ UNCHANGED vars
    BY <2>3 DEF Stopped, vars, CrashNeedsFault
  <2>4. QED
    BY <2>1, <2>2, <2>3
    DEF Next, DecodeScalar, DecodeString, Scanned, ScannedTo,
      DecodeNothing, DecodeNoBuffer,
        DecodeUnexpected, BeginTooDeep, BeginArray, BeginObject, LoopClose,
        LoopNext, ChildFailed, KeyRefused, KeyRead, AddItem, SeparatorClose,
        SeparatorComma, SeparatorUnexpected, CheckTrailing, Raise, ReturnValue
<1>4. QED
  BY <1>1, <1>2, <1>3

(***************************************************************************)
(* The theorems that follow from IInv.                                     *)
(***************************************************************************)

(* IInv holds in every state of every call of loads.                       *)
LEMMA Inductive == Spec => []IInv
<1>1. IInv /\ [Next]_vars => IInv'
  <2> SUFFICES ASSUME IInv, [Next]_vars PROVE IInv'
    OBVIOUS
  <2>1. StaysInText' /\ Trailed'
    BY NextText DEF IInv
  <2>2. QED
    BY <2>1, NextType, NextShape, NextReported, NextDepth, NextResult DEF IInv
<1>2. QED
  BY InitInv, <1>1, PTL DEF Spec

(* Every variable of the decoder keeps its type.                           *)
THEOREM TypeCorrect == Spec => []TypeOK
<1>1. IInv => TypeOK
  BY DEF IInv
<1>2. QED
  BY Inductive, <1>1, PTL

(* The depth counter is the number of open containers as long as nothing   *)
(* failed, and never lets more than MaxDepth of them be open.              *)
THEOREM DepthCorrect == Spec => []DepthExact
<1>1. IInv => DepthExact
  BY DEF IInv
<1>2. QED
  BY Inductive, <1>1, PTL

(* The scanner never goes beyond the terminator of its text; where there is*)
(* none, no value is made with anything from behind the text.              *)
THEOREM TextCorrect == Spec => []StaysInText
<1>1. IInv => StaysInText
  BY DEF IInv
<1>2. QED
  BY Inductive, <1>1, PTL

(* A value is returned only when nothing went wrong.                       *)
THEOREM ResultCorrect == Spec => []ValueMeansComplete
<1>1. IInv => ValueMeansComplete
  BY DEF IInv
<1>2. QED
  BY Inductive, <1>1, PTL

(* A NULL never comes without a message or an exception, and is used as a  *)
(* container only when an allocation failed.                               *)
THEOREM NullCorrect == Spec => []NullHasReason
<1>1. IInv => NullHasReason
  BY DEF IInv, NullHasReason
<1>2. QED
  BY Inductive, <1>1, PTL

(* The first message of the core is the one that is reported.              *)
THEOREM FirstErrorCorrect == Spec => FirstErrorKept
<1>1. IInv /\ [Next]_vars => [errorStr # "none" => errorStr' = errorStr]_vars
  BY NextReasons DEF IInv
<1>2. QED
  BY Inductive, <1>1, PTL DEF Spec, FirstErrorKept
(***************************************************************************)
(* Ownership: every cell of the value pool in use has exactly one owner,   *)
(* and none is in use when loads returns.                                  *)
(***************************************************************************)

(* The cells a frame owns, and OneOwner as a relation between the cells in *)
(* use, the frames and the value being returned.                           *)
Owns(f) == {f.obj, f.key} \ {NoSlot}

Ownership(live, fs, r) ==
  /\ \A c : c \in live <=>
       c # NoSlot /\ (c = r \/ \E i \in 1..Len(fs) : c \in Owns(fs[i]))
  /\ \A i \in 1..Len(fs) :
       /\ r \notin Owns(fs[i])
       /\ fs[i].obj = fs[i].key => fs[i].obj = NoSlot
       /\ \A j \in 1..Len(fs) :
            i # j => \A c \in Owns(fs[i]) : c \notin Owns(fs[j])

(***************************************************************************)
(* What the steps of the decoder do to the relation.                       *)
(***************************************************************************)

(* A new value is returned.                                                *)
LEMMA NewReturned ==
  ASSUME NEW live, NEW fs \in Seq(Frame), Ownership(live, fs, NoSlot),
         NEW c, c \notin live
  PROVE  Ownership(live \cup ({c} \ {NoSlot}), fs, c)
  BY DEF Ownership, Owns

(* The value being returned is released or handed to the caller.           *)
LEMMA ReturnedGone ==
  ASSUME NEW live, NEW fs \in Seq(Frame), NEW r, Ownership(live, fs, r)
  PROVE  Ownership(live \ {r}, fs, NoSlot)
  BY DEF Ownership, Owns

(* A frame that owns a new value is pushed.                                *)
LEMMA Pushed ==
  ASSUME NEW live, NEW fs \in Seq(Frame), Ownership(live, fs, NoSlot),
         NEW f \in Frame, f.key = NoSlot, f.obj \notin live
  PROVE  Ownership(live \cup ({f.obj} \ {NoSlot}), Append(fs, f), NoSlot)
<1> DEFINE gs == Append(fs, f)
           new == live \cup ({f.obj} \ {NoSlot})
<1>1. /\ Len(gs) = Len(fs) + 1 /\ Len(fs) \in Nat /\ gs[Len(fs) + 1] = f
      /\ \A i \in 1..Len(fs) : gs[i] = fs[i]
  OBVIOUS
<1>2. Owns(f) = {f.obj} \ {NoSlot}
  BY DEF Owns
<1>3. \A i \in 1..Len(fs) : \A c \in Owns(fs[i]) : c \in live
  BY DEF Ownership, Owns
<1> HIDE DEF gs
<1>4. ASSUME NEW c
      PROVE  c \in new <=> c # NoSlot /\ \E i \in 1..Len(gs) : c \in Owns(gs[i])
  <2>1. c \in live <=> c # NoSlot /\ \E i \in 1..Len(fs) : c \in Owns(fs[i])
    BY DEF Ownership
  <2>2. (\E i \in 1..Len(gs) : c \in Owns(gs[i])) <=>
          c \in Owns(f) \/ \E i \in 1..Len(fs) : c \in Owns(fs[i])
    BY <1>1
  <2>3. QED
    BY <2>1, <2>2, <1>2
<1>5. ASSUME NEW i \in 1..Len(gs)
      PROVE  /\ NoSlot \notin Owns(gs[i])
             /\ gs[i].obj = gs[i].key => gs[i].obj = NoSlot
             /\ \A j \in 1..Len(gs) :
                  i # j => \A c \in Owns(gs[i]) : c \notin Owns(gs[j])
  <2>1. NoSlot \notin Owns(gs[i])
    BY DEF Owns
  <2>2. CASE i \in 1..Len(fs)
    <3>1. gs[i].obj = gs[i].key => gs[i].obj = NoSlot
      BY <2>2, <1>1 DEF Ownership
    <3>2. ASSUME NEW j \in 1..Len(gs), i # j, NEW c \in Owns(gs[i])
          PROVE  c \notin Owns(gs[j])
      <4>1. CASE j \in 1..Len(fs)
        BY <2>2, <3>2, <4>1, <1>1 DEF Ownership
      <4>2. CASE j = Len(fs) + 1
        BY <2>2, <3>2, <4>2, <1>1, <1>2, <1>3
      <4>3. QED
        BY <1>1, <4>1, <4>2
    <3>3. QED
      BY <2>1, <3>1, <3>2
  <2>3. CASE i = Len(fs) + 1
    <3>1. gs[i].obj = gs[i].key => gs[i].obj = NoSlot
      BY <2>3, <1>1
    <3>2. ASSUME NEW j \in 1..Len(gs), i # j, NEW c \in Owns(gs[i])
          PROVE  c \notin Owns(gs[j])
      BY <2>3, <3>2, <1>1, <1>2, <1>3
    <3>3. QED
      BY <2>1, <3>1, <3>2
  <2>4. QED
    BY <1>1, <2>2, <2>3
<1>6. QED
  BY <1>4, <1>5 DEF Ownership, gs

(* The innermost frame returns: what it owned and what was returned to it  *)
(* is released, but for the value r2 that it returns itself.               *)
LEMMA Popped ==
  ASSUME NEW live, NEW fs \in Seq(Frame), fs # <<>>, NEW r,
         Ownership(live, fs, r), NEW gs \in Seq(Frame),
         Len(gs) = Len(fs) - 1, \A i \in 1..Len(gs) : gs[i] = fs[i],
         NEW r2 \in Owns(fs[Len(fs)]) \cup {r, NoSlot}
  PROVE  Ownership(live \ ((Owns(fs[Len(fs)]) \cup {r}) \ {r2}), gs, r2)
<1> DEFINE top == fs[Len(fs)]
           new == live \ ((Owns(top) \cup {r}) \ {r2})
<1>1. Len(fs) \in 1..Len(fs) /\ Len(gs) \in Nat /\ 1..Len(gs) \subseteq 1..Len(fs)
      /\ Len(fs) \notin 1..Len(gs)
      /\ \A i \in 1..Len(fs) : i \in 1..Len(gs) \/ i = Len(fs)
  OBVIOUS
<1>2. \A i \in 1..Len(gs) : \A c \in Owns(gs[i]) : c \notin Owns(top) /\ c # r
  <2> SUFFICES ASSUME NEW i \in 1..Len(gs), NEW c \in Owns(gs[i])
               PROVE  c \notin Owns(fs[Len(fs)]) /\ c # r
    OBVIOUS
  <2>1. i \in 1..Len(fs) /\ i # Len(fs) /\ gs[i] = fs[i]
    BY <1>1
  <2>2. c \notin Owns(fs[Len(fs)])
    BY <2>1, <1>1 DEF Ownership
  <2>3. r \notin Owns(fs[i])
    BY <2>1 DEF Ownership
  <2>4. QED
    BY <2>1, <2>2, <2>3
<1>3. \A c \in live : c # NoSlot
  BY DEF Ownership
<1>4. ASSUME NEW c
      PROVE  c \in new <=>
               c # NoSlot /\ (c = r2 \/ \E i \in 1..Len(gs) : c \in Owns(gs[i]))
  <2>1. c \in live <=>
          c # NoSlot /\ (c = r \/ c \in Owns(top)
                         \/ \E i \in 1..Len(gs) : c \in Owns(gs[i]))
    BY <1>1 DEF Ownership
  <2>2. c = r2 => c = r \/ c \in Owns(top) \/ c = NoSlot
    OBVIOUS
  <2>3. QED
    BY <2>1, <2>2, <1>2
<1>5. ASSUME NEW i \in 1..Len(gs)
      PROVE  /\ r2 \notin Owns(gs[i])
             /\ gs[i].obj = gs[i].key => gs[i].obj = NoSlot
             /\ \A j \in 1..Len(gs) :
                  i # j => \A c \in Owns(gs[i]) : c \notin Owns(gs[j])
  <2>1. r2 \notin Owns(gs[i])
    BY <1>2 DEF Owns
  <2>2. i \in 1..Len(fs) /\ gs[i] = fs[i]
    BY <1>1
  <2>3. gs[i].obj = gs[i].key => gs[i].obj = NoSlot
    BY <2>2 DEF Ownership
  <2>4. ASSUME NEW j \in 1..Len(gs), i # j, NEW c \in Owns(gs[i])
        PROVE  c \notin Owns(gs[j])
    <3>1. j \in 1..Len(fs) /\ gs[j] = fs[j]
      BY <1>1
    <3>2. QED
      BY <2>2, <2>4, <3>1 DEF Ownership
  <2>5. QED
    BY <2>1, <2>3, <2>4
<1>6. QED
  BY <1>4, <1>5 DEF Ownership

(* The innermost frame becomes f, and r2 is what is left to be returned:   *)
(* the values of the frame and the returned one are kept by either of them *)
(* or released.                                                            *)
LEMMA Changed ==
  ASSUME NEW live, NEW fs \in Seq(Frame), fs # <<>>, NEW r,
         Ownership(live, fs, r), NEW f \in Frame, NEW gs \in Seq(Frame),
         Len(gs) = Len(fs), gs[Len(fs)] = f,
         \A i \in 1..(Len(fs) - 1) : gs[i] = fs[i],
         Owns(f) \subseteq Owns(fs[Len(fs)]) \cup {r},
         f.obj = f.key => f.obj = NoSlot
  PROVE  Ownership(live \ ((Owns(fs[Len(fs)]) \cup {r}) \ Owns(f)), gs, NoSlot)
<1> DEFINE top == fs[Len(fs)]
           new == live \ ((Owns(top) \cup {r}) \ Owns(f))
           Below == 1..(Len(fs) - 1)
<1>1. /\ Len(fs) \in 1..Len(fs) /\ Below \subseteq 1..Len(fs)
      /\ Len(fs) \notin Below
      /\ \A i \in 1..Len(fs) : i \in Below \/ i = Len(fs)
  OBVIOUS
<1>2. \A i \in Below : \A c \in Owns(fs[i]) : c \notin Owns(top) /\ c # r
  <2> SUFFICES ASSUME NEW i \in Below, NEW c \in Owns(fs[i])
               PROVE  c \notin Owns(fs[Len(fs)]) /\ c # r
    OBVIOUS
  <2>1. i \in 1..Len(fs) /\ i # Len(fs)
    BY <1>1
  <2>2. c \notin Owns(fs[Len(fs)])
    BY <2>1, <1>1 DEF Ownership
  <2>3. r \notin Owns(fs[i])
    BY <2>1 DEF Ownership
  <2>4. QED
    BY <2>2, <2>3
<1>3. \A i \in Below : \A c \in Owns(fs[i]) : c \notin Owns(f)
  BY <1>2
<1> HIDE DEF Below
<1>4. ASSUME NEW c
      PROVE  c \in new <=>
               /\ c # NoSlot
               /\ c = NoSlot \/ \E i \in 1..Len(gs) : c \in Owns(gs[i])
  <2>1. c \in live <=>
          c # NoSlot /\ (c = r \/ c \in Owns(top)
                         \/ \E i \in Below : c \in Owns(fs[i]))
    BY <1>1 DEF Ownership
  <2>2. (\E i \in 1..Len(gs) : c \in Owns(gs[i])) <=>
          c \in Owns(f) \/ \E i \in Below : c \in Owns(fs[i])
    BY <1>1 DEF Below
  <2>3. c \in Owns(f) => c # NoSlot
    BY DEF Owns
  <2>4. QED
    BY <2>1, <2>2, <2>3, <1>2
<1>5. ASSUME NEW i \in 1..Len(gs)
      PROVE  /\ NoSlot \notin Owns(gs[i])
             /\ gs[i].obj = gs[i].key => gs[i].obj = NoSlot
             /\ \A j \in 1..Len(gs) :
                  i # j => \A c \in Owns(gs[i]) : c \notin Owns(gs[j])
  <2>1. NoSlot \notin Owns(gs[i])
    BY DEF Owns
  <2>2. gs[i].obj = gs[i].key => gs[i].obj = NoSlot
    BY <1>1 DEF Ownership, Below
  <2>3. ASSUME NEW j \in 1..Len(gs), i # j, NEW c \in Owns(gs[i])
        PROVE  c \notin Owns(gs[j])
    <3>1. CASE i \in Below /\ j \in Below
      BY <2>3, <3>1, <1>1 DEF Ownership, Below
    <3>2. CASE i \in Below /\ j = Len(fs)
      BY <2>3, <3>2, <1>3 DEF Below
    <3>3. CASE i = Len(fs) /\ j \in Below
      BY <2>3, <3>3, <1>3 DEF Below
    <3>4. QED
      BY <2>3, <1>1, <3>1, <3>2, <3>3
  <2>4. QED
    BY <2>1, <2>2, <2>3
<1>6. QED
  BY <1>4, <1>5 DEF Ownership

(***************************************************************************)
(* The steps of the decoder.                                               *)
(***************************************************************************)

(* OneOwner says of the state of the decoder what Ownership says of a pool,*)
(* a stack of frames and the value being returned.                         *)
LEMMA OwnershipIs ==
  TypeOK => (OneOwner <=> Ownership(Live, frames, ret))
<1> SUFFICES ASSUME TypeOK PROVE OneOwner <=> Ownership(Live, frames, ret)
  OBVIOUS
<1>1. DOMAIN frames = 1..Len(frames)
  BY DEF TypeOK
<1>2. \A i \in DOMAIN frames : Held(i) = Owns(frames[i])
  BY DEF Held, Owns
<1>3. Live = ((UNION {Held(i) : i \in DOMAIN frames}) \cup {ret}) \ {NoSlot} <=>
        \A c : c \in Live <=>
          c # NoSlot /\ (c = ret \/ \E i \in DOMAIN frames : c \in Held(i))
  OBVIOUS
<1>4. \A i, j \in DOMAIN frames :
        Held(i) \cap Held(j) = {} <=> \A c \in Held(i) : c \notin Held(j)
  OBVIOUS
<1>5. QED
  BY <1>1, <1>2, <1>3, <1>4 DEF OneOwner, Ownership

(* The cells in use after a release and after an allocation.               *)
LEMMA ReleaseLive ==
  ASSUME NEW cs, Release(cs) PROVE Live' = Live \ cs
  BY DEF Release, Live

(* hpy_decoder_value_new takes a cell that was not in use, or none.        *)
LEMMA NewValueLive ==
  ASSUME TypeOK, NEW object \in Object, NEW c \in JSOBJ, NewValue(object, c)
  PROVE  /\ c \notin Live
         /\ Live' = Live \cup ({c} \ {NoSlot})
<1>1. object # "free"
  BY DEF Object
<1>2. CASE c = NoSlot
  BY <1>2, SlotAssumption DEF NewValue, Live
<1>3. CASE c # NoSlot
  <2>1. c \in Slot \ Live /\ cell' = [cell EXCEPT ![c] = object]
    BY <1>3 DEF NewValue
  <2>2. QED
    BY <2>1, <1>1, <1>3 DEF Live, TypeOK
<1>4. QED
  BY <1>2, <1>3

(* Every step of the decoder hands each value it takes from an owner to    *)
(* another one, or releases it.                                            *)
LEMMA NextOwner == IInv /\ OneOwner /\ [Next]_vars => OneOwner'
<1> SUFFICES ASSUME IInv, OneOwner, [Next]_vars PROVE OneOwner'
  OBVIOUS
<1>a. TypeOK /\ Shape /\ Reported /\ TypeOK'
  BY NextType DEF IInv
<1>b. Ownership(Live, frames, ret) /\ frames \in Seq(Frame) /\ frames' \in Seq(Frame)
  BY <1>a, OwnershipIs DEF TypeOK
<1>c. SUFFICES Ownership(Live', frames', ret')
  <2>1. (TypeOK => (OneOwner <=> Ownership(Live, frames, ret)))'
    BY OwnershipIs, PTL
  <2>2. QED
    BY <1>a, <2>1
<1>d. frames # <<>> =>
        /\ Top = frames[Len(frames)] /\ Top \in Frame
        /\ Owns(Top) = {Top.obj, Top.key} \ {NoSlot}
        /\ Top.obj = Top.key => Top.obj = NoSlot
  <2>1. frames # <<>> => Len(frames) \in 1..Len(frames)
    BY <1>b
  <2>2. QED
    BY <2>1, <1>b, CallerFrames DEF Top, Owns, Ownership
<1>e. NoSlot \notin Live
  BY <1>b DEF Ownership
<1>f. ASSUME frames # <<>>, frames' = Caller, ret' \in Owns(Top) \cup {ret, NoSlot},
             Live' = Live \ ((Owns(Top) \cup {ret}) \ {ret'})
      PROVE  Ownership(Live', frames', ret')
  <2>1. Len(frames') = Len(frames) - 1 /\ \A i \in 1..Len(frames') : frames'[i] = frames[i]
    BY <1>b, <1>f, CallerFrames
  <2>2. QED
    BY <2>1, <1>b, <1>d, <1>f, Popped
<1>g. ASSUME frames # <<>>, NEW f \in Frame, frames' = WithTop(f), ret' = NoSlot,
             Owns(f) \subseteq Owns(Top) \cup {ret},
             f.obj = f.key => f.obj = NoSlot,
             Live' = Live \ ((Owns(Top) \cup {ret}) \ Owns(f))
      PROVE  Ownership(Live', frames', ret')
  <2>1. /\ Len(frames') = Len(frames) /\ frames'[Len(frames)] = f
        /\ \A i \in 1..(Len(frames) - 1) : frames'[i] = frames[i]
    BY <1>b, <1>g, ChangedTop
  <2>2. QED
    BY <2>1, <1>b, <1>d, <1>g, Changed
<1>h. UNCHANGED <<cell, frames, ret>> => Ownership(Live', frames', ret')
  BY <1>b DEF Live
<1>1. CASE DecodeScalar \/ DecodeString \/ DecodeNothing
  <2>1. PICK c \in JSOBJ : NewValue(Peek, c) /\ ret' = c
    BY <1>1 DEF DecodeScalar, DecodeString, Scanned, ScannedTo,
      DecodeNothing
  <2>2. Peek \in Object /\ ret = NoSlot /\ UNCHANGED frames
    BY <1>1, <1>a DEF DecodeScalar, DecodeString, Scanned, ScannedTo,
      DecodeNothing, Object, Shape
  <2>3. c \notin Live /\ Live' = Live \cup ({c} \ {NoSlot})
    BY <2>1, <2>2, <1>a, NewValueLive
  <2>4. QED
    BY <2>1, <2>2, <2>3, <1>b, NewReturned
<1>2. CASE BeginArray
  <2> DEFINE f(c) == [kind |-> "list", obj |-> c, key |-> NoSlot,
                      first |-> TRUE, at |-> "item"]
  <2>1. PICK c \in JSOBJ : NewValue("list", c) /\ frames' = Append(frames, f(c))
    BY <1>2 DEF BeginArray
  <2>2. f(c) \in Frame /\ f(c).key = NoSlot /\ f(c).obj = c
    BY DEF Frame, JSOBJ
  <2>3. ret = NoSlot /\ ret' = NoSlot
    BY <1>2, <1>a DEF BeginArray, Shape
  <2>4. c \notin Live /\ Live' = Live \cup ({c} \ {NoSlot})
    BY <2>1, <1>a, NewValueLive DEF Object
  <2> HIDE DEF f
  <2>5. QED
    BY <2>1, <2>2, <2>3, <2>4, <1>b, Pushed
<1>3. CASE BeginObject
  <2> DEFINE f(c) == [kind |-> "dict", obj |-> c, key |-> NoSlot,
                      first |-> TRUE, at |-> "key"]
  <2>1. PICK c \in JSOBJ : NewValue("dict", c) /\ frames' = Append(frames, f(c))
    BY <1>3 DEF BeginObject
  <2>2. f(c) \in Frame /\ f(c).key = NoSlot /\ f(c).obj = c
    BY DEF Frame, JSOBJ
  <2>3. ret = NoSlot /\ ret' = NoSlot
    BY <1>3, <1>a DEF BeginObject, Shape
  <2>4. c \notin Live /\ Live' = Live \cup ({c} \ {NoSlot})
    BY <2>1, <1>a, NewValueLive DEF Object
  <2> HIDE DEF f
  <2>5. QED
    BY <2>1, <2>2, <2>3, <2>4, <1>b, Pushed
<1>4. CASE LoopClose
  <2>1. frames # <<>> /\ frames' = Caller /\ ret = NoSlot /\ Top.key = NoSlot
    BY <1>4, <1>a DEF LoopClose, Shape
  <2>2. Owns(Top) = {Top.obj} \ {NoSlot}
    BY <2>1, <1>d
  <2>3. CASE UNCHANGED cell /\ ret' = Top.obj
    BY <2>1, <2>2, <2>3, <1>e, <1>f DEF Live
  <2>4. CASE Release({Top.obj}) /\ ret' = NoSlot
    BY <2>1, <2>2, <2>4, <1>e, <1>f, ReleaseLive
  <2>5. QED
    BY <2>3, <2>4, <1>4 DEF LoopClose
<1>5. CASE ChildFailed
  BY <1>5, <1>d, <1>e, <1>f, ReleaseLive DEF ChildFailed, HeldByTop
<1>6. CASE KeyRefused
  <2>1. frames # <<>> /\ frames' = Caller /\ Top.key = NoSlot /\ ret' = NoSlot
    <3>1. frames # <<>> => Len(frames) \in DOMAIN frames
      BY <1>b
    <3>2. QED
      BY <3>1, <1>6, <1>a DEF KeyRefused, Shape, Top
  <2>2. Live' = Live \ {Top.obj, ret}
    BY <1>6, ReleaseLive DEF KeyRefused, Refused
  <2>3. QED
    BY <2>1, <2>2, <1>d, <1>e, <1>f
<1>7. CASE KeyRead
  <2> DEFINE f == [Top EXCEPT !.key = ret, !.at = "item"]
  <2>1. frames # <<>> /\ frames' = WithTop(f) /\ ret' = NoSlot
        /\ ret # NoSlot /\ Top.at = "key" /\ UNCHANGED cell
    BY <1>7 DEF KeyRead, poolVars
  <2>2. Top.key = NoSlot /\ ret # Top.obj
    <3>1. Len(frames) \in 1..Len(frames) /\ Len(frames) \in DOMAIN frames
      BY <2>1, <1>b
    <3>2. ret \notin Owns(Top)
      BY <2>1, <3>1, <1>b, <1>d DEF Ownership
    <3>3. QED
      BY <2>1, <3>1, <3>2, <1>a, <1>d DEF Shape, Top
  <2>3. f \in Frame /\ f.obj = Top.obj /\ f.key = ret
    BY <2>1, <1>a, <1>d DEF Frame, TypeOK
  <2> HIDE DEF f
  <2>4. Owns(f) = Owns(Top) \cup {ret}
    BY <2>1, <2>2, <2>3, <1>d DEF Owns
  <2>5. QED
    BY <2>1, <2>2, <2>3, <2>4, <1>g DEF Live
<1>8. CASE AddItem
  <2> DEFINE f == [Top EXCEPT !.key = NoSlot]
  <2>1. frames # <<>> /\ frames' = WithTop(f) /\ ret' = NoSlot /\ ret # NoSlot
    BY <1>8 DEF AddItem
  <2>2. f \in Frame /\ f.obj = Top.obj /\ f.key = NoSlot
    BY <2>1, <1>d DEF Frame, JSOBJ
  <2> HIDE DEF f
  <2>3. Owns(f) = {Top.obj} \ {NoSlot}
    BY <2>2 DEF Owns
  <2>4. Top.kind = "list" => Top.key = NoSlot
    <3>1. Len(frames) \in DOMAIN frames
      BY <2>1, <1>b
    <3>2. QED
      BY <3>1, <1>a DEF Shape, Top
  <2>5. Live' = Live \ {Top.key, ret}
    <3>1. CASE Top.kind = "list"
      BY <3>1, <2>4, <1>8, <1>e, ReleaseLive DEF AddItem, ArrayAddItem
    <3>2. CASE Top.kind # "list"
      BY <3>2, <1>8, ReleaseLive DEF AddItem, ObjectAddKey
    <3>3. QED
      BY <3>1, <3>2
  <2>6. ret \notin Owns(Top)
    BY <2>1, <1>b, <1>d DEF Ownership
  <2>7. Live' = Live \ ((Owns(Top) \cup {ret}) \ Owns(f))
    BY <2>1, <2>3, <2>5, <2>6, <1>d, <1>e
  <2>8. QED
    BY <2>1, <2>2, <2>3, <2>7, <1>d, <1>g
<1>9. CASE SeparatorClose
  <2>1. frames # <<>> /\ frames' = Caller /\ ret = NoSlot /\ Top.key = NoSlot
        /\ ret' = Top.obj /\ UNCHANGED cell
    BY <1>9, <1>a DEF SeparatorClose, Shape, poolVars
  <2>2. QED
    BY <2>1, <1>d, <1>e, <1>f DEF Live
<1>10. CASE SeparatorComma
  <2> DEFINE at == IF Top.kind = "dict" THEN "key" ELSE "item"
             f == [Top EXCEPT !.first = FALSE, !.at = at]
  <2>1. frames # <<>> /\ ret = NoSlot /\ ret' = NoSlot /\ UNCHANGED cell
    BY <1>10, <1>a DEF SeparatorComma, Shape, poolVars
  <2>2. frames' = WithTop(f)
    BY <1>10 DEF SeparatorComma
  <2>3. f \in Frame /\ f.obj = Top.obj /\ f.key = Top.key
    BY <2>1, <1>d DEF Frame
  <2> HIDE DEF f
  <2>4. Owns(f) = Owns(Top)
    BY <2>3 DEF Owns
  <2>5. QED
    BY <2>1, <2>2, <2>3, <2>4, <1>d, <1>e, <1>g DEF Live
<1>11. CASE SeparatorUnexpected
  <2>1. frames # <<>> /\ frames' = Caller /\ ret = NoSlot /\ Top.key = NoSlot
        /\ ret' = NoSlot /\ Live' = Live \ {Top.obj}
    BY <1>11, <1>a, ReleaseLive DEF SeparatorUnexpected, Shape
  <2>2. QED
    BY <2>1, <1>d, <1>e, <1>f
<1>12. CASE CheckTrailing \/ Raise \/ ReturnValue
  <2>1. CASE Release({ret}) /\ ret' = NoSlot /\ UNCHANGED frames
    BY <2>1, <1>b, ReleaseLive, ReturnedGone
  <2>2. QED
    BY <2>1, <1>12, <1>h DEF CheckTrailing, Raise, ReturnValue
<1>13. CASE DecodeNoBuffer \/ DecodeUnexpected \/ BeginTooDeep
  BY <1>13, <1>a, <1>h
  DEF DecodeNoBuffer, DecodeUnexpected, BeginTooDeep, poolVars, Shape
<1>14. CASE UNCHANGED <<cell, frames, ret>>
  BY <1>14, <1>h
<1>15. QED
  BY <1>1, <1>2, <1>3, <1>4, <1>5, <1>6, <1>7, <1>8, <1>9, <1>10, <1>11, <1>12,
     <1>13, <1>14
  DEF Next, vars, poolVars, Stopped, LoopNext, AddToNull

(* No value is lost, released twice or used after its release: each cell   *)
(* in use is owned by one frame or by the value being returned.            *)
THEOREM OwnerCorrect == Spec => []OneOwner
<1>1. Init => OneOwner
  BY DEF Init, OneOwner, Live
<1>2. QED
  BY Inductive, <1>1, NextOwner, PTL DEF Spec

(* When loads returns, no cell of the pool is in use.                      *)
THEOREM NoLeak == Spec => []NothingLeaks
<1>1. IInv /\ OneOwner => NothingLeaks
  BY DEF IInv, Shape, OneOwner, NothingLeaks
<1>2. QED
  BY Inductive, OwnerCorrect, <1>1, PTL
==============================================================================
