------------------------- MODULE DecoderAcceptorProofs -------------------------
(***************************************************************************)
(* Proof that the decoder implements JsonAcceptor, for every text, every   *)
(* depth limit, every pool and every number of failures.                   *)
(***************************************************************************)
EXTENDS DecoderAcceptor, DecoderProofs

(***************************************************************************)
(* The invariant: what the cells hold, and where a member's name is.       *)
(***************************************************************************)
ObjKinds ==
  \A i \in 1..Len(frames) :
    frames[i].obj # NoSlot => cell[frames[i].obj] \in {"list", "dict"}

(* A name that got past the test of lastType is no scalar.                 *)
KeyKinds ==
  \A i \in 1..Len(frames) :
    frames[i].key # NoSlot => cell[frames[i].key] \in {"string", "list", "dict"}
RetKind ==
  pc = "return" /\ ret # NoSlot =>
    /\ cell[ret] = "string" => lastType = "utf8"
    /\ cell[ret] = "scalar" => lastType # "utf8"

(* The value of a member is decoded with its name at hand.                 *)
KeyHere ==
  \A i \in 1..Len(frames) :
    /\ frames[i].kind = "dict" /\ frames[i].at = "item"
    /\ i < Len(frames) \/ pc \in {"value", "return"}
    => frames[i].key # NoSlot
NameFirst == pc = "loop" /\ Top.kind = "dict" => Top.at = "key"

Placed == input \in Document /\ pos >= 1

AInv == ObjKinds /\ KeyKinds /\ RetKind /\ KeyHere /\ NameFirst /\ Placed

(* What the frames and the returned value refer to is in use.              *)
InUse(c) == c \in Slot /\ cell[c] # "free"
OwnedInUse ==
  /\ \A i \in 1..Len(frames) :
       /\ frames[i].obj # NoSlot => InUse(frames[i].obj)
       /\ frames[i].key # NoSlot => InUse(frames[i].key)
  /\ ret # NoSlot => InUse(ret)

(* What frames and ret refer to has an owner, so its cell is in use.       *)
LEMMA OwnedIsInUse == TypeOK /\ OneOwner => OwnedInUse
<1> SUFFICES ASSUME TypeOK, OneOwner PROVE OwnedInUse
  OBVIOUS
<1>1. DOMAIN frames = 1..Len(frames)
  BY DEF TypeOK
<1>2. \A c : c # NoSlot /\ (c = ret \/ \E i \in DOMAIN frames : c \in Held(i))
             => c \in Live
  BY DEF OneOwner
<1>3. \A c \in Live : InUse(c)
  BY DEF Live, InUse
<1>4. QED
  BY <1>1, <1>2, <1>3 DEF OwnedInUse, Held

(* A cell that stays in use keeps its object.                              *)
LEMMA KeptCells ==
  TypeOK /\ [Next]_vars =>
    \A c \in Slot : cell[c] # "free" /\ cell'[c] # "free" => cell'[c] = cell[c]
<1> SUFFICES ASSUME TypeOK, [Next]_vars, NEW c \in Slot,
                    cell[c] # "free", cell'[c] # "free"
             PROVE  cell'[c] = cell[c]
  OBVIOUS
<1>a. cell \in [Slot -> Object \cup {"free"}]
  BY DEF TypeOK
<1>b. ASSUME NEW object, NEW d, NewValue(object, d) PROVE cell'[c] = cell[c]
  BY <1>a, <1>b DEF NewValue, Live
<1>c. ASSUME NEW cs, Release(cs) PROVE cell'[c] = cell[c]
  BY <1>c DEF Release
<1>1. CASE DecodeScalar \/ DecodeString \/ DecodeNothing
  BY <1>1, <1>b DEF DecodeScalar, DecodeString, Scanned, ScannedTo,
      DecodeNothing
<1>2. CASE BeginArray
  BY <1>2, <1>b DEF BeginArray
<1>3. CASE BeginObject
  BY <1>3, <1>b DEF BeginObject
<1>4. CASE LoopClose
  BY <1>4, <1>c DEF LoopClose
<1>5. CASE ChildFailed
  BY <1>5, <1>c DEF ChildFailed
<1>6. CASE KeyRefused
  BY <1>6, <1>c DEF KeyRefused
<1>7. CASE AddItem
  BY <1>7, <1>c DEF AddItem, ArrayAddItem, ObjectAddKey
<1>8. CASE SeparatorUnexpected
  BY <1>8, <1>c DEF SeparatorUnexpected
<1>9. CASE CheckTrailing
  BY <1>9, <1>c DEF CheckTrailing
<1>10. CASE Raise \/ ReturnValue
  BY <1>10, <1>c DEF Raise, ReturnValue
<1>11. CASE UNCHANGED cell
  BY <1>11
<1>12. QED
  BY <1>1, <1>2, <1>3, <1>4, <1>5, <1>6, <1>7, <1>8, <1>9, <1>10, <1>11
  DEF Next, vars, poolVars, Stopped, DecodeNoBuffer, DecodeUnexpected,
      BeginTooDeep, LoopNext, KeyRead, AddToNull, SeparatorClose, SeparatorComma

(***************************************************************************)
(* How a step changes the stack of frames: not at all, by a new frame, by  *)
(* a return, or by a change of the innermost frame.                        *)
(***************************************************************************)
Pushes ==
  /\ pc = "value" /\ pc' = "loop"
  /\ Peek \in {"arrayBegin", "objectBegin"}
  /\ \E c \in JSOBJ, kind \in {"list", "dict"} :
       /\ NewValue(kind, c)
       /\ frames' = Append(frames,
            [kind |-> kind, obj |-> c, key |-> NoSlot, first |-> TRUE,
             at |-> IF kind = "dict" THEN "key" ELSE "item"])
Pops ==
  /\ frames # <<>> /\ frames' = Caller /\ pc' = "return"
  /\ ret' = NoSlot \/ (ret' = Top.obj /\ Top.key = NoSlot)
KeepsFrames ==
  /\ frames' = frames /\ pc' # "loop"
  /\ pc' \in {"value", "return"} => pc \in {"value", "return"} \/ LoopNext

(* A step does one of these things to the stack of frames.                 *)
LEMMA FramesStep ==
  ASSUME TypeOK, Shape, [Next]_vars
  PROVE  \/ Pushes \/ Pops \/ KeepsFrames
         \/ KeyRead \/ AddItem \/ SeparatorComma \/ UNCHANGED vars
<1>1. CASE BeginArray
  BY <1>1 DEF BeginArray, Pushes
<1>2. CASE BeginObject
  BY <1>2 DEF BeginObject, Pushes
<1>3. CASE LoopClose
  BY <1>3 DEF LoopClose, Pops, Shape
<1>4. CASE ChildFailed
  BY <1>4 DEF ChildFailed, Pops
<1>5. CASE KeyRefused
  BY <1>5 DEF KeyRefused, Pops
<1>6. CASE SeparatorClose \/ SeparatorUnexpected
  BY <1>6 DEF SeparatorClose, SeparatorUnexpected, Pops, Shape
<1>7. CASE DecodeScalar \/ DecodeString \/ DecodeNothing
           \/ DecodeNoBuffer \/ DecodeUnexpected
           \/ BeginTooDeep \/ LoopNext \/ AddToNull
           \/ CheckTrailing \/ Raise \/ ReturnValue
  BY <1>7
  DEF DecodeScalar, DecodeString, Scanned, ScannedTo,
      DecodeNothing, DecodeNoBuffer, DecodeUnexpected,
      BeginTooDeep, LoopNext, AddToNull, CheckTrailing, Raise, ReturnValue,
      KeepsFrames
<1>8. QED
  BY <1>1, <1>2, <1>3, <1>4, <1>5, <1>6, <1>7 DEF Next, Stopped

(***************************************************************************)
(* What a step does to the frames below the innermost one, and where the   *)
(* values come from that the frames hold after it.                         *)
(***************************************************************************)
LEMMA TopStep ==
  ASSUME TypeOK, Shape, KeyRead \/ AddItem \/ SeparatorComma
  PROVE  \E f \in Frame :
           /\ frames # <<>> /\ frames' = WithTop(f)
           /\ f.kind = Top.kind /\ f.obj = Top.obj
           /\ AddItem => f.key = NoSlot
           /\ SeparatorComma => f.key = Top.key
<1>a. frames # <<>> => Top \in Frame
  BY CallerFrames DEF TypeOK
<1>1. CASE KeyRead
  <2> DEFINE f == [Top EXCEPT !.key = ret, !.at = "item"]
  <2>1. frames # <<>> /\ frames' = WithTop(f)
    BY <1>1 DEF KeyRead
  <2>2. f \in Frame /\ f.obj = Top.obj /\ f.kind = Top.kind
    BY <1>a, <2>1 DEF Frame, TypeOK
  <2>3. ~AddItem /\ ~SeparatorComma
    BY <1>1 DEF KeyRead, AddItem, SeparatorComma
  <2>4. QED
    BY <1>1, <2>1, <2>2, <2>3
<1>2. CASE AddItem
  <2> DEFINE f == [Top EXCEPT !.key = NoSlot]
  <2>1. frames # <<>> /\ frames' = WithTop(f)
    BY <1>2 DEF AddItem
  <2>2. f \in Frame /\ f.obj = Top.obj /\ f.kind = Top.kind /\ f.key = NoSlot
    BY <1>a, <2>1 DEF Frame, JSOBJ
  <2>3. ~SeparatorComma
    BY <1>2 DEF AddItem, SeparatorComma
  <2>4. QED
    BY <2>1, <2>2, <2>3
<1>3. CASE SeparatorComma
  <2> DEFINE at == IF Top.kind = "dict" THEN "key" ELSE "item"
             f == [Top EXCEPT !.first = FALSE, !.at = at]
  <2>1. frames # <<>>
    BY <1>3 DEF SeparatorComma, Shape
  <2>2. frames' = WithTop(f)
    BY <1>3 DEF SeparatorComma
  <2>3. f \in Frame /\ f.obj = Top.obj /\ f.kind = Top.kind /\ f.key = Top.key
    BY <1>a, <2>1 DEF Frame
  <2>4. ~AddItem
    BY <1>3 DEF AddItem, SeparatorComma
  <2>5. QED
    BY <2>1, <2>2, <2>3, <2>4
<1>4. QED
  BY <1>1, <1>2, <1>3

(* Only the innermost frame of a step is new or changed.                   *)
LEMMA FramesBelow ==
  ASSUME TypeOK, Shape, [Next]_vars,
         NEW i \in 1..Len(frames'), i < Len(frames')
  PROVE  /\ i \in 1..Len(frames)
         /\ frames'[i] = frames[i]
         /\ i < Len(frames) \/ (i = Len(frames) /\ Pushes)
<1>a. frames \in Seq(Frame)
  BY DEF TypeOK
<1>1. CASE Pushes
  <2>1. PICK f \in Frame : frames' = Append(frames, f)
    <3>1. PICK c \in JSOBJ, kind \in {"list", "dict"} : frames' = Append(frames,
            [kind |-> kind, obj |-> c, key |-> NoSlot, first |-> TRUE,
             at |-> IF kind = "dict" THEN "key" ELSE "item"])
      BY <1>1 DEF Pushes
    <3>2. QED
      BY <3>1 DEF Frame, JSOBJ
  <2>2. QED
    BY <1>1, <1>a, <2>1, PushedFrames
<1>2. CASE Pops
  BY <1>2, <1>a, CallerFrames DEF Pops
<1>3. CASE KeyRead \/ AddItem \/ SeparatorComma
  <2>1. PICK f \in Frame : frames # <<>> /\ frames' = WithTop(f)
    BY <1>3, TopStep
  <2>2. QED
    BY <1>a, <2>1, ReplacedTop
<1>4. CASE UNCHANGED frames
  BY <1>4, <1>a
<1>5. QED
  BY <1>1, <1>2, <1>3, <1>4, FramesStep DEF KeepsFrames, vars

(* What a frame refers to after a step it did before, or it is new.        *)
LEMMA ValuesFrom ==
  ASSUME TypeOK, Shape, TypeOK', [Next]_vars, NEW i \in 1..Len(frames')
  PROVE  /\ frames'[i].obj # NoSlot =>
              \/ (i \in 1..Len(frames) /\ frames'[i].obj = frames[i].obj)
              \/ \E kind \in {"list", "dict"} : NewValue(kind, frames'[i].obj)
         /\ frames'[i].key # NoSlot =>
              \/ (i \in 1..Len(frames) /\ frames'[i].key = frames[i].key)
              \/ (KeyRead /\ frames'[i].key = ret)
<1>a. frames \in Seq(Frame)
  BY DEF TypeOK
<1>1. CASE i < Len(frames')
  BY <1>1, FramesBelow
<1>2. CASE i = Len(frames')
  <2>1. CASE Pushes
    <3>1. PICK c \in JSOBJ, kind \in {"list", "dict"} :
            /\ NewValue(kind, c)
            /\ frames' = Append(frames,
                 [kind |-> kind, obj |-> c, key |-> NoSlot, first |-> TRUE,
                  at |-> IF kind = "dict" THEN "key" ELSE "item"])
      BY <2>1 DEF Pushes
    <3>2. frames'[i].obj = c /\ frames'[i].key = NoSlot
      BY <3>1, <1>2, <1>a
    <3>3. QED
      BY <3>1, <3>2
  <2>2. CASE Pops
    BY <2>2, <1>a, <1>2, CallerFrames DEF Pops
  <2>3. CASE KeyRead
    <3> DEFINE f == [Top EXCEPT !.key = ret, !.at = "item"]
    <3>1. frames # <<>> /\ frames' = WithTop(f) /\ Top \in Frame
      BY <2>3, <1>a, CallerFrames DEF KeyRead
    <3>2. f \in Frame /\ f.obj = Top.obj /\ f.key = ret
      BY <3>1 DEF Frame, TypeOK
    <3> HIDE DEF f
    <3>3. frames'[i] = f /\ i = Len(frames)
      BY <3>1, <3>2, <1>a, <1>2, ReplacedTop, ChangedTop
    <3>4. QED
      BY <2>3, <3>1, <3>2, <3>3 DEF Top
  <2>4. CASE AddItem \/ SeparatorComma
    <3>1. PICK f \in Frame : /\ frames # <<>> /\ frames' = WithTop(f)
                             /\ f.obj = Top.obj /\ f.key \in {NoSlot, Top.key}
      BY <2>4, TopStep
    <3>2. frames'[i] = f /\ i = Len(frames)
      BY <3>1, <1>a, <1>2, ReplacedTop, ChangedTop
    <3>3. QED
      BY <3>1, <3>2 DEF Top
  <2>5. CASE UNCHANGED frames
    BY <2>5, <1>a
  <2>6. QED
    BY <2>1, <2>2, <2>3, <2>4, <2>5, FramesStep DEF KeepsFrames, vars
<1>3. QED
  <2>1. Len(frames') \in Nat
    BY DEF TypeOK
  <2>2. QED
    BY <2>1, <1>1, <1>2

(***************************************************************************)
(* The invariant is preserved.                                             *)
(***************************************************************************)
LEMMA ObjKindsNext ==
  ASSUME TypeOK, Shape, TypeOK', OwnedInUse, OwnedInUse', ObjKinds, [Next]_vars
  PROVE  ObjKinds'
<1> SUFFICES ASSUME NEW i \in 1..Len(frames'), frames'[i].obj # NoSlot
             PROVE  cell'[frames'[i].obj] \in {"list", "dict"}
  BY DEF ObjKinds
<1>1. frames'[i].obj \in Slot /\ cell'[frames'[i].obj] # "free"
  BY DEF OwnedInUse, InUse
<1>2. CASE i \in 1..Len(frames) /\ frames'[i].obj = frames[i].obj
  <2>1. cell[frames[i].obj] # "free" /\ cell[frames[i].obj] \in {"list", "dict"}
    BY <1>2 DEF OwnedInUse, InUse, ObjKinds
  <2>2. QED
    BY <1>1, <1>2, <2>1, KeptCells
<1>3. CASE \E kind \in {"list", "dict"} : NewValue(kind, frames'[i].obj)
  BY <1>1, <1>3, SlotAssumption DEF NewValue, TypeOK
<1>4. QED
  BY <1>2, <1>3, ValuesFrom

(* Every step keeps KeyKinds.                                              *)
LEMMA KeyKindsNext ==
  ASSUME TypeOK, Shape, TypeOK', OwnedInUse, OwnedInUse', KeyKinds, RetKind,
         [Next]_vars
  PROVE  KeyKinds'
<1> SUFFICES ASSUME NEW i \in 1..Len(frames'), frames'[i].key # NoSlot
             PROVE  cell'[frames'[i].key] \in {"string", "list", "dict"}
  BY DEF KeyKinds
<1>1. frames'[i].key \in Slot /\ cell'[frames'[i].key] # "free"
  BY DEF OwnedInUse, InUse
<1>2. CASE i \in 1..Len(frames) /\ frames'[i].key = frames[i].key
  <2>1. /\ cell[frames[i].key] # "free"
        /\ cell[frames[i].key] \in {"string", "list", "dict"}
    BY <1>2 DEF OwnedInUse, InUse, KeyKinds
  <2>2. QED
    BY <1>1, <1>2, <2>1, KeptCells
<1>3. CASE KeyRead /\ frames'[i].key = ret
  <2>1. cell' = cell /\ ret # NoSlot /\ pc = "return" /\ lastType = "utf8"
    BY <1>3 DEF KeyRead, poolVars, NameIsString
  <2>2. cell[ret] \in Object
    BY <1>1, <1>3, <2>1 DEF TypeOK
  <2>3. QED
    BY <1>3, <2>1, <2>2 DEF RetKind, Object
<1>4. QED
  BY <1>2, <1>3, ValuesFrom

(* Every step keeps RetKind.                                               *)
LEMMA RetKindNext ==
  ASSUME TypeOK, Shape, ObjKinds, RetKind, [Next]_vars
  PROVE  RetKind'
<1>a. ASSUME frames # <<>>, ret' = Top.obj, cell' = cell PROVE RetKind'
  <2>1. Len(frames) \in 1..Len(frames)
    BY <1>a DEF TypeOK
  <2>2. ret' # NoSlot => cell'[ret'] \in {"list", "dict"}
    BY <1>a, <2>1 DEF ObjKinds, Top
  <2>3. QED
    BY <2>2 DEF RetKind
<1>b. (pc' # "return" \/ ret' = NoSlot) => RetKind'
  BY DEF RetKind
<1>1. CASE DecodeScalar \/ DecodeString \/ DecodeNothing
  <2>1. \E object \in {"scalar", "string"} :
          /\ NewValue(object, ret')
          /\ lastType' = IF object = "string" THEN "utf8" ELSE "other"
    BY <1>1 DEF DecodeScalar, DecodeString, Scanned, ScannedTo,
      DecodeNothing
  <2>2. QED
    BY <2>1, SlotAssumption DEF NewValue, RetKind, TypeOK
<1>2. CASE LoopClose
  BY <1>2, <1>a, <1>b DEF LoopClose, Shape
<1>3. CASE SeparatorClose
  BY <1>3, <1>a DEF SeparatorClose, Shape, poolVars
<1>4. CASE UNCHANGED vars
  BY <1>4 DEF RetKind, vars
<1>5. QED
  BY <1>1, <1>2, <1>3, <1>4, <1>b
  DEF Next, Stopped, DecodeNoBuffer, DecodeUnexpected, BeginTooDeep, BeginArray,
      BeginObject, LoopNext, ChildFailed, KeyRefused, KeyRead, AddItem,
      AddToNull, SeparatorComma, SeparatorUnexpected, CheckTrailing, Raise,
      ReturnValue

(* Every step keeps KeyHere.                                               *)
LEMMA KeyHereNext ==
  ASSUME TypeOK, Shape, TypeOK', KeyHere, NameFirst, [Next]_vars
  PROVE  KeyHere'
<1> SUFFICES ASSUME NEW i \in 1..Len(frames'),
                    frames'[i].kind = "dict", frames'[i].at = "item",
                    i < Len(frames') \/ pc' \in {"value", "return"}
             PROVE  frames'[i].key # NoSlot
  BY DEF KeyHere
<1>a. frames \in Seq(Frame) /\ Len(frames') \in Nat
  BY DEF TypeOK
<1>1. CASE i < Len(frames')
  BY <1>1, FramesBelow DEF KeyHere, Pushes
<1>2. CASE i = Len(frames') /\ pc' \in {"value", "return"}
  <2>1. CASE Pushes
    BY <1>2, <2>1 DEF Pushes
  <2>2. CASE Pops
    <3>1. /\ i \in 1..Len(frames) /\ i < Len(frames)
          /\ frames'[i] = frames[i]
      BY <1>2, <1>a, <2>2, CallerFrames DEF Pops
    <3>2. QED
      BY <3>1 DEF KeyHere
  <2>3. CASE KeyRead
    <3> DEFINE f == [Top EXCEPT !.key = ret, !.at = "item"]
    <3>1. frames # <<>> /\ frames' = WithTop(f) /\ Top \in Frame /\ ret # NoSlot
      BY <2>3, <1>a, CallerFrames DEF KeyRead
    <3>2. f \in Frame /\ f.key = ret
      BY <3>1 DEF Frame, TypeOK
    <3> HIDE DEF f
    <3>3. frames'[i] = f
      BY <3>1, <3>2, <1>a, <1>2, ReplacedTop, ChangedTop
    <3>4. QED
      BY <3>1, <3>2, <3>3
  <2>4. CASE AddItem \/ SeparatorComma
    BY <1>2, <2>4 DEF AddItem, SeparatorComma
  <2>5. CASE KeepsFrames
    <3>1. i = Len(frames) /\ frames'[i] = Top /\ i \in 1..Len(frames)
      BY <2>5, <1>2 DEF KeepsFrames, Top
    <3>2. CASE pc \in {"value", "return"}
      BY <3>1, <3>2 DEF KeyHere, Top
    <3>3. CASE LoopNext
      BY <3>1, <3>3 DEF LoopNext, NameFirst
    <3>4. QED
      BY <2>5, <1>2, <3>2, <3>3 DEF KeepsFrames
  <2>6. CASE UNCHANGED vars
    BY <2>6, <1>2 DEF vars, KeyHere
  <2>7. QED
    BY <2>1, <2>2, <2>3, <2>4, <2>5, <2>6, FramesStep
<1>3. QED
  BY <1>a, <1>1, <1>2

(* Every step keeps NameFirst.                                             *)
LEMMA NameFirstNext ==
  ASSUME TypeOK, Shape, NameFirst, [Next]_vars
  PROVE  NameFirst'
<1>a. frames \in Seq(Frame)
  BY DEF TypeOK
<1>1. CASE Pushes
  BY <1>1, <1>a DEF Pushes, NameFirst, Top
<1>2. CASE SeparatorComma
  <2> DEFINE at == IF Top.kind = "dict" THEN "key" ELSE "item"
             f == [Top EXCEPT !.first = FALSE, !.at = at]
  <2>1. frames # <<>>
    BY <1>2 DEF SeparatorComma, Shape
  <2>2. frames' = WithTop(f)
    BY <1>2 DEF SeparatorComma
  <2>3. f \in Frame /\ f.kind = "dict" => f.at = "key"
    BY <1>a, <2>1, CallerFrames DEF Frame
  <2>4. f \in Frame
    BY <1>a, <2>1, CallerFrames DEF Frame
  <2> HIDE DEF f
  <2>5. Top' = f
    BY <1>a, <2>1, <2>2, <2>4, ReplacedTop
  <2>6. QED
    BY <2>3, <2>4, <2>5 DEF NameFirst
<1>3. CASE Pops \/ KeepsFrames \/ KeyRead \/ AddItem
  BY <1>3 DEF Pops, KeepsFrames, KeyRead, AddItem, NameFirst
<1>4. CASE UNCHANGED vars
  BY <1>4 DEF vars, NameFirst, Top
<1>5. QED
  BY <1>1, <1>2, <1>3, <1>4, FramesStep

(* The scanner never goes back.                                            *)
LEMMA PosGrows ==
  ASSUME TypeOK, [Next]_vars
  PROVE  pos' \in Nat /\ (pos' = pos \/ pos' = pos + 1)
  BY DEF TypeOK, Next, vars, textVars, Stopped, DecodeScalar, DecodeString,
         Scanned, ScannedTo,
      DecodeNothing, DecodeNoBuffer, DecodeUnexpected, BeginTooDeep, BeginArray,
         BeginObject, LoopClose, LoopNext, ChildFailed, KeyRefused, KeyRead,
         AddItem, AddToNull, SeparatorClose, SeparatorComma,
         SeparatorUnexpected, CheckTrailing, Raise, ReturnValue

LEMMA PlacedNext ==
  ASSUME TypeOK, Placed, [Next]_vars
  PROVE  Placed'
<1>1. input' = input /\ pos \in Nat
  BY NextInput DEF TypeOK
<1>2. QED
  BY <1>1, PosGrows DEF Placed

(***************************************************************************)
(* All that is used of a state, and of a step.                             *)
(***************************************************************************)
Good == IInv /\ OneOwner /\ AInv

(* What a step may use of the invariants, before and after it.             *)
LEMMA NextUse ==
  Good /\ [Next]_vars =>
    /\ TypeOK /\ Shape /\ Reported /\ OwnedInUse
    /\ TypeOK' /\ Shape' /\ Reported' /\ OwnedInUse'
<1> SUFFICES ASSUME Good, [Next]_vars
             PROVE  /\ TypeOK /\ Shape /\ Reported /\ OwnedInUse
                    /\ TypeOK' /\ Shape' /\ Reported' /\ OwnedInUse'
  OBVIOUS
<1>1. TypeOK /\ Shape /\ Reported /\ OneOwner /\ IInv
  BY DEF Good, IInv
<1>2. TypeOK' /\ Shape' /\ Reported' /\ OneOwner'
  BY <1>1, NextType, NextShape, NextReported, NextOwner
<1>3. OwnedInUse
  BY <1>1, OwnedIsInUse
<1>4. (TypeOK /\ OneOwner => OwnedInUse)'
  BY OwnedIsInUse, PTL
<1>5. QED
  BY <1>1, <1>2, <1>3, <1>4

(* Every step keeps the invariant.                                         *)
LEMMA NextAInv == Good /\ [Next]_vars => AInv'
<1> SUFFICES ASSUME Good, [Next]_vars PROVE AInv'
  OBVIOUS
<1>1. /\ TypeOK /\ Shape /\ OwnedInUse /\ TypeOK' /\ OwnedInUse'
      /\ ObjKinds /\ KeyKinds /\ RetKind /\ KeyHere /\ NameFirst /\ Placed
  BY NextUse DEF Good, AInv
<1>2. ObjKinds' /\ KeyKinds' /\ RetKind' /\ KeyHere' /\ NameFirst' /\ Placed'
  BY <1>1, ObjKindsNext, KeyKindsNext, RetKindNext, KeyHereNext, NameFirstNext,
     PlacedNext
<1>3. QED
  BY <1>2 DEF AInv

(***************************************************************************)
(* A text that is rejected stays so.                                       *)
(***************************************************************************)

(* A NULL on its way out has a message or an exception.                    *)
LEMMA NullRejects ==
  ASSUME Good, [Next]_vars, pc' = "return", ret' = NoSlot
  PROVE  Rejected'
  BY NextUse DEF Reported, Rejected

(* A name inside a doomed text dooms it for good.                          *)
LEMMA NestedStays ==
  ASSUME Good, [Next]_vars, NestedName
  PROVE  Rejected'
<1>a. frames \in Seq(Frame) /\ TypeOK /\ Shape /\ TypeOK'
  BY NextUse DEF TypeOK
<1>b. PICK i \in 1..Len(frames) : i < Len(frames) /\ frames[i].at = "key"
  BY <1>a DEF NestedName
<1>c. frames # <<>>
  BY <1>a, <1>b
<1>d. ASSUME NEW f \in Frame, frames' = WithTop(f) PROVE Rejected'
  <2>1. Len(frames') = Len(frames) /\ frames'[i] = frames[i]
    BY <1>a, <1>b, <1>c, <1>d, ReplacedTop
  <2>2. QED
    BY <2>1, <1>a, <1>b DEF NestedName, Doomed, Rejected
<1>1. CASE Pushes
  <2>1. PICK f : frames' = Append(frames, f)
    BY <1>1 DEF Pushes
  <2>2. i \in 1..Len(frames') /\ i < Len(frames') /\ frames'[i].at = "key"
    BY <2>1, <1>a, <1>b
  <2>3. QED
    BY <2>2, <1>a DEF NestedName, Doomed, Rejected
<1>2. CASE Pops
  <2>a. /\ Len(frames') = Len(frames) - 1 /\ i \in 1..Len(frames')
        /\ frames'[i].at = "key" /\ DOMAIN frames' = 1..Len(frames')
    BY <1>2, <1>a, <1>b, <1>c, CallerFrames DEF Pops
  <2>1. CASE i < Len(frames')
    BY <2>a, <2>1 DEF NestedName, Doomed, Rejected
  <2>2. CASE i = Len(frames')
    <3>1. CASE ret' = NoSlot
      BY <1>2, <3>1, NullRejects DEF Pops
    <3>2. CASE ret' # NoSlot
      <4>1. ret' = Top.obj /\ Len(frames) \in 1..Len(frames)
        BY <1>2, <1>a, <1>c, <3>2 DEF Pops
      <4>2. cell[ret'] \in {"list", "dict"}
        BY <3>2, <4>1 DEF Good, AInv, ObjKinds, Top
      <4>3. cell'[ret'] # "free" /\ cell[ret'] # "free" /\ ret' \in Slot
        BY <3>2, <4>2, NextUse DEF OwnedInUse, InUse
      <4>4. cell'[ret'] # "string"
        BY <1>a, <4>2, <4>3, KeptCells
      <4>5. frames' # <<>> /\ Top'.at = "key"
        BY <2>a, <2>2 DEF Top
      <4>6. QED
        BY <1>2, <3>2, <4>4, <4>5 DEF Pops, WrongName, Doomed, Rejected
    <3>3. QED
      BY <3>1, <3>2
  <2>3. QED
    BY <2>a, <2>1, <2>2
<1>3. CASE KeyRead \/ AddItem \/ SeparatorComma
  BY <1>3, <1>a, <1>d, TopStep
<1>4. CASE UNCHANGED frames
  BY <1>4, <1>a, <1>b DEF NestedName, Doomed, Rejected
<1>5. QED
  BY <1>1, <1>2, <1>3, <1>4, <1>a, FramesStep DEF KeepsFrames, vars

(* A name of a wrong type dooms the text, though only its use says so.     *)
LEMMA NameStays ==
  ASSUME Good, [Next]_vars, WrongName
  PROVE  Rejected'
<1>a. frames \in Seq(Frame) /\ TypeOK
  BY NextUse DEF TypeOK
<1>b. /\ pc = "return" /\ ret # NoSlot /\ frames # <<>>
      /\ Top.at = "key" /\ cell[ret] # "string"
  BY DEF WrongName
<1>1. CASE KeyRefused
  BY <1>1 DEF KeyRefused, Rejected
<1>2. CASE KeyRead
  <2> DEFINE f == [Top EXCEPT !.key = ret, !.at = "item"]
  <2>1. frames' = WithTop(f) /\ cell' = cell
    BY <1>2 DEF KeyRead, poolVars
  <2>2. f \in Frame /\ f.key = ret
    BY <1>a, <1>b, CallerFrames DEF Frame, TypeOK
  <2> HIDE DEF f
  <2>3. /\ frames'[Len(frames)] = f /\ Len(frames) \in DOMAIN frames'
    BY <1>a, <1>b, <2>1, <2>2, ReplacedTop, ChangedTop
  <2>4. QED
    BY <1>b, <2>1, <2>2, <2>3 DEF WrongKey, Doomed, Rejected
<1>3. CASE UNCHANGED vars
  BY <1>3 DEF vars, WrongName, Doomed, Rejected, Top
<1>4. QED
  BY <1>b, <1>1, <1>2, <1>3
  DEF Next, Stopped, DecodeScalar, DecodeString, Scanned, ScannedTo,
      DecodeNothing, DecodeNoBuffer,
      DecodeUnexpected, BeginTooDeep, BeginArray, BeginObject, LoopClose,
      LoopNext, ChildFailed, AddItem, AddToNull, SeparatorClose,
      SeparatorComma, SeparatorUnexpected, CheckTrailing, Raise, ReturnValue

(* A wrong name is held until the member is added to its dict.             *)
LEMMA KeyStays ==
  ASSUME Good, [Next]_vars, WrongKey
  PROVE  Rejected'
<1>a. frames \in Seq(Frame) /\ TypeOK /\ Shape /\ TypeOK'
  BY NextUse DEF TypeOK
<1>b. PICK i \in 1..Len(frames) :
        frames[i].key # NoSlot /\ cell[frames[i].key] # "string"
  BY <1>a DEF WrongKey
<1>c. frames # <<>> /\ cell[frames[i].key] \in {"list", "dict"}
  BY <1>a, <1>b DEF Good, AInv, KeyKinds
<1>d. ASSUME NEW j \in 1..Len(frames'), frames'[j].key = frames[i].key
      PROVE  Rejected'
  <2>1. /\ frames[i].key \in Slot /\ cell[frames[i].key] # "free"
        /\ cell'[frames[i].key] # "free"
    BY <1>b, <1>d, NextUse DEF OwnedInUse, InUse
  <2>2. cell'[frames'[j].key] # "string" /\ frames'[j].key # NoSlot
    BY <1>a, <1>b, <1>d, <2>1, KeptCells
  <2>3. QED
    BY <2>2, <1>a DEF WrongKey, Doomed, Rejected
<1>1. CASE Pushes
  <2>1. PICK f : frames' = Append(frames, f)
    BY <1>1 DEF Pushes
  <2>2. i \in 1..Len(frames') /\ frames'[i] = frames[i]
    BY <2>1, <1>a
  <2>3. QED
    BY <2>2, <1>d
<1>2. CASE Pops
  <2>1. CASE i < Len(frames)
    <3>1. i \in 1..Len(frames') /\ frames'[i] = frames[i]
      BY <1>2, <1>a, <1>c, <2>1, CallerFrames DEF Pops
    <3>2. QED
      BY <3>1, <1>d
  <2>2. CASE i = Len(frames)
    BY <1>2, <1>b, <2>2, NullRejects DEF Pops, Top
  <2>3. QED
    BY <1>a, <2>1, <2>2
<1>3. CASE KeyRead \/ AddItem \/ SeparatorComma
  <2>1. PICK f \in Frame :
          /\ frames' = WithTop(f)
          /\ SeparatorComma => f.key = Top.key
    BY <1>3, <1>a, TopStep
  <2>2. /\ Len(frames') = Len(frames) /\ frames'[Len(frames)] = f
        /\ \A j \in 1..(Len(frames) - 1) : frames'[j] = frames[j]
    BY <1>a, <1>c, <2>1, ReplacedTop, ChangedTop
  <2>3. CASE i < Len(frames)
    BY <2>2, <2>3, <1>d
  <2>4. CASE i = Len(frames)
    <3>1. Top.key = frames[i].key /\ Top.key # NoSlot
      BY <1>b, <2>4 DEF Top
    <3>2. CASE SeparatorComma
      BY <1>d, <2>1, <2>2, <2>4, <3>1, <3>2
    <3>3. ~KeyRead
      BY <1>a, <3>1, <2>4 DEF KeyRead, Shape, Top
    <3>4. CASE AddItem
      <4>1. Top.kind # "list"
        BY <1>a, <3>1, <2>4 DEF Shape, Top
      <4>2. cell[Top.key] \in {"list", "dict"}
        BY <1>c, <3>1
      <4>3. ObjectAddKey
        BY <3>4, <4>1 DEF AddItem
      <4>4. QED
        BY <4>2, <4>3 DEF ObjectAddKey, Rejected
    <3>5. QED
      BY <1>3, <3>2, <3>3, <3>4
  <2>5. QED
    BY <1>a, <2>3, <2>4
<1>4. CASE UNCHANGED frames
  BY <1>4, <1>b, <1>d
<1>5. QED
  BY <1>1, <1>2, <1>3, <1>4, <1>a, FramesStep DEF KeepsFrames, vars

(* A text that is rejected stays rejected.                                 *)
LEMMA RejectedStays == Good /\ [Next]_vars /\ Rejected => Rejected'
<1> SUFFICES ASSUME Good, [Next]_vars, Rejected PROVE Rejected'
  OBVIOUS
<1>1. CASE errorStr # "none"
  BY <1>1, NextUse, NextReasons DEF Rejected
<1>2. CASE pyErr # "none"
  BY <1>2, NextUse, ExceptionStays DEF Rejected
<1>3. CASE Overrun
  <2>1. /\ input' = input /\ pos \in Nat /\ pos' \in Nat /\ pos' >= pos
        /\ Len(input.text) \in Nat
    BY NextUse, NextInput, PosGrows, InputType DEF TypeOK
  <2>2. QED
    BY <1>3, <2>1 DEF Overrun, Rejected
<1>4. QED
  BY <1>1, <1>2, <1>3, NestedStays, NameStays, KeyStays DEF Rejected, Doomed

(***************************************************************************)
(* A text that is not rejected stays so unless something new is wrong.     *)
(***************************************************************************)
LEMMA KeysKept ==
  ASSUME Good, [Next]_vars, ~WrongKey, ~WrongName
  PROVE  ~WrongKey'
<1>a. TypeOK /\ Shape /\ TypeOK' /\ OwnedInUse /\ OwnedInUse'
  BY NextUse
<1>b. DOMAIN frames = 1..Len(frames) /\ DOMAIN frames' = 1..Len(frames')
  BY <1>a DEF TypeOK
<1> SUFFICES ASSUME NEW i \in 1..Len(frames'), frames'[i].key # NoSlot
             PROVE  cell'[frames'[i].key] = "string"
  BY <1>b DEF WrongKey
<1>1. frames'[i].key \in Slot /\ cell'[frames'[i].key] # "free"
  BY <1>a DEF OwnedInUse, InUse
<1>2. CASE i \in 1..Len(frames) /\ frames'[i].key = frames[i].key
  <2>1. cell[frames[i].key] = "string"
    BY <1>2, <1>b DEF WrongKey
  <2>2. QED
    BY <1>a, <1>1, <1>2, <2>1, KeptCells
<1>3. CASE KeyRead /\ frames'[i].key = ret
  BY <1>3 DEF KeyRead, poolVars, WrongName
<1>4. QED
  BY <1>a, <1>2, <1>3, ValuesFrom

(* No doomed name appears unless one is being decoded.                     *)
LEMMA NamesKept ==
  ASSUME Good, [Next]_vars, ~NestedName, Pushes => ~AtName
  PROVE  ~NestedName'
<1>a. TypeOK /\ Shape /\ TypeOK'
  BY NextUse
<1>b. DOMAIN frames = 1..Len(frames) /\ DOMAIN frames' = 1..Len(frames')
  BY <1>a DEF TypeOK
<1> SUFFICES ASSUME NEW i \in 1..Len(frames'), i < Len(frames')
             PROVE  frames'[i].at # "key"
  BY <1>b DEF NestedName
<1>1. /\ i \in 1..Len(frames) /\ frames'[i] = frames[i]
      /\ i < Len(frames) \/ (i = Len(frames) /\ Pushes)
  BY <1>a, FramesBelow
<1>2. CASE i < Len(frames)
  BY <1>1, <1>2, <1>b DEF NestedName
<1>3. CASE i = Len(frames) /\ Pushes
  <2>1. frames # <<>>
    BY <1>a, <1>1 DEF TypeOK
  <2>2. QED
    BY <2>1, <1>1, <1>3 DEF AtName, Top
<1>4. QED
  BY <1>1, <1>2, <1>3

(* A step that finds nothing wrong leaves the text unrejected.             *)
LEMMA GoesOn ==
  ASSUME Good, [Next]_vars, ~Rejected, errorStr' = "none", pyErr' = "none",
         ~WrongName', Pushes => ~AtName, ~Overrun'
  PROVE  ~Rejected'
  BY KeysKept, NamesKept DEF Rejected, Doomed

(* Below the innermost frame none decodes a name.                          *)
LEMMA NoNameBelow ==
  ASSUME Good, [Next]_vars, ~Rejected, Pops
  PROVE  ~AtName'
<1>a. frames \in Seq(Frame) /\ frames # <<>> /\ frames' = Caller
  BY NextUse DEF TypeOK, Pops
<1> SUFFICES ASSUME AtName' PROVE FALSE
  OBVIOUS
<1>1. /\ Len(frames') = Len(frames) - 1 /\ Len(frames) \in Nat
      /\ frames' \in Seq(Frame)
      /\ \A i \in 1..(Len(frames) - 1) : frames'[i] = frames[i]
  BY <1>a, CallerFrames
<1>2. Len(frames') \in 1..(Len(frames) - 1) /\ frames'[Len(frames')].at = "key"
  BY <1>1 DEF AtName, Top
<1>3. QED
  BY <1>a, <1>1, <1>2 DEF NestedName, Doomed, Rejected

(***************************************************************************)
(* What the acceptor sees of the decoder.                                  *)
(***************************************************************************)
Kinds == [i \in 1..Len(frames) |-> frames[i].kind]

(* The kind of every frame of a stack.                                     *)
LEMMA FrameKinds ==
  ASSUME NEW fs \in Seq(Frame)
  PROVE  \A i \in 1..Len(fs) : fs[i].kind \in {"list", "dict"}
<1>1. \A f \in Frame : f.kind \in {"list", "dict"}
  BY DEF Frame
<1>2. QED
  BY <1>1

(* The kinds of the frames are a sequence like the frames.                 *)
LEMMA KindsAre ==
  ASSUME TypeOK
  PROVE  /\ Kinds \in Seq({"list", "dict"})
         /\ Len(Kinds) = Len(frames)
         /\ Kinds = <<>> <=> frames = <<>>
         /\ \A i \in 1..Len(frames) : Kinds[i] = frames[i].kind
<1>1. frames \in Seq(Frame) /\ DOMAIN frames = 1..Len(frames) /\ Len(frames) \in Nat
  BY DEF TypeOK
<1>2. Kinds \in [1..Len(frames) -> {"list", "dict"}]
  <2>1. \A i \in 1..Len(frames) : frames[i].kind \in {"list", "dict"}
    BY <1>1, FrameKinds
  <2>2. QED
    BY <1>1, <2>1 DEF Kinds
<1>3. Kinds \in Seq({"list", "dict"}) /\ Len(Kinds) = Len(frames)
  BY <1>1, <1>2
<1>4. \A i \in 1..Len(frames) : Kinds[i] = frames[i].kind
  BY <1>1 DEF Kinds
<1>5. QED
  BY <1>1, <1>3, <1>4

(* The abstract state of a text that is not rejected.                      *)
LEMMA AcceptorIs ==
  ASSUME TypeOK, ~Rejected
  PROVE  /\ AcceptorState = Expects /\ AcceptorPos = pos /\ AcceptorStack = Kinds
         /\ Len(AcceptorStack) = Len(frames)
         /\ AcceptorStack = <<>> <=> frames = <<>>
         /\ frames # <<>> => /\ Acceptor!Innermost = Top.kind
                             /\ Acceptor!Closer = Closer(Top.kind)
<1>1. AcceptorState = Expects /\ AcceptorPos = pos /\ AcceptorStack = Kinds
  BY DEF AcceptorState, AcceptorPos, AcceptorStack, Kinds
<1>3. frames # <<>> => Acceptor!Innermost = Top.kind
  <2>1. frames # <<>> => Len(frames) \in 1..Len(frames)
    BY DEF TypeOK
  <2>2. QED
    BY <1>1, <2>1, KindsAre DEF Acceptor!Innermost, Top
<1>4. QED
  BY <1>1, <1>3, KindsAre DEF Acceptor!Closer, Closer

(* The token the acceptor looks at: where the decoder sees another one, the*)
(* text is at its end.                                                     *)
LastCut == {"string", "scalar", "bad"}
LEMMA PeekIs ==
  ASSUME Good, ~Rejected
  PROVE  \/ Acceptor!Peek = Peek
         \/ pos = Len(input.text) + 1 /\ Acceptor!Peek = "nul"
         \/ pos = Len(input.text) /\ input.cut /\ Acceptor!Peek \in LastCut
<1>1. /\ TypeOK /\ input \in Document /\ pos \in Nat /\ pos >= 1
      /\ Len(input.text) \in Nat /\ Len(input.memory) \in Nat
      /\ input.text \in Seq(Token)
  BY InputType DEF Good, IInv, AInv, Placed, TypeOK
<1>2. AcceptorPos = pos
  BY <1>1, AcceptorIs
<1>3. pos <= Len(input.text) + 1 /\ (input.cut => pos <= Len(input.text))
  BY <1>1 DEF Rejected, Overrun
<1>4. Len(input.text) <= Len(input.memory)
  BY <1>1, DocumentAssumption
<1>5. CASE pos <= Len(input.text)
  <2>1. pos \in DOMAIN input.text
    BY <1>1, <1>5
  <2>2. \/ input.memory[pos] = input.text[pos]
        \/ /\ input.cut /\ pos = Len(input.text)
           /\ {input.memory[pos], input.text[pos]} \subseteq LastCut
    BY <1>1, <2>1, DocumentAssumption DEF LastCut, RunsOn
  <2>3. Acceptor!Peek = input.text[pos] /\ Peek = input.memory[pos]
    BY <1>1, <1>2, <1>4, <1>5 DEF Acceptor!Peek, Peek
  <2>4. QED
    BY <2>2, <2>3
<1>6. CASE pos = Len(input.text) + 1
  BY <1>1, <1>2, <1>6 DEF Acceptor!Peek
<1>7. QED
  BY <1>1, <1>3, <1>5, <1>6

(* What is read within the text is what the text has there.                *)
LEMMA SamePeek ==
  ASSUME Good, [Next]_vars, ~Rejected, ~Overrun', pos' = pos + 1
  PROVE  Acceptor!Peek = Peek
<1>1. /\ input' = input /\ pos \in Nat /\ Len(input.text) \in Nat
  BY NextUse, NextInput, InputType DEF TypeOK
<1>2. /\ pos + 1 <= Len(input.text) + 1
      /\ input.cut => pos + 1 <= Len(input.text)
  BY <1>1 DEF Overrun
<1>3. QED
  BY <1>1, <1>2, PeekIs

(* A frame that is pushed adds its kind.                                   *)
LEMMA KindsPushed ==
  ASSUME TypeOK, NEW f \in Frame, frames' = Append(frames, f)
  PROVE  Kinds' = Append(Kinds, f.kind)
<1>1. /\ frames' \in Seq(Frame) /\ Len(frames') = Len(frames) + 1
      /\ frames'[Len(frames) + 1] = f
      /\ \A i \in 1..Len(frames) : frames'[i] = frames[i]
      /\ Len(frames) \in Nat /\ f.kind \in {"list", "dict"}
  BY PushedFrames DEF TypeOK, Frame
<1>2. Kinds' \in [1..(Len(frames) + 1) -> {"list", "dict"}]
  <2>1. Kinds' = [i \in 1..Len(frames') |-> frames'[i].kind]
    BY DEF Kinds
  <2>2. \A i \in 1..Len(frames') : frames'[i].kind \in {"list", "dict"}
    BY <1>1, FrameKinds
  <2>3. QED
    BY <1>1, <2>1, <2>2
<1>3. Kinds' \in Seq({"list", "dict"}) /\ Len(Kinds') = Len(frames) + 1
  BY <1>1, <1>2
<1>4. /\ Append(Kinds, f.kind) \in Seq({"list", "dict"})
      /\ Len(Append(Kinds, f.kind)) = Len(frames) + 1
      /\ \A i \in 1..Len(frames) : Append(Kinds, f.kind)[i] = frames[i].kind
      /\ Append(Kinds, f.kind)[Len(frames) + 1] = f.kind
  BY <1>1, KindsAre
<1>5. \A i \in 1..(Len(frames) + 1) : Kinds'[i] = frames'[i].kind
  BY <1>1 DEF Kinds
<1>6. \A i \in 1..Len(Kinds') : Kinds'[i] = Append(Kinds, f.kind)[i]
  BY <1>1, <1>3, <1>4, <1>5
<1>7. QED
  BY <1>3, <1>4, <1>6, SeqEqual

(* A frame that is popped takes its kind with it.                          *)
LEMMA KindsPopped ==
  ASSUME TypeOK, frames # <<>>, frames' = Caller
  PROVE  Kinds' = SubSeq(Kinds, 1, Len(Kinds) - 1)
<1>1. /\ frames' \in Seq(Frame) /\ Len(frames') = Len(frames) - 1
      /\ \A i \in 1..(Len(frames) - 1) : frames'[i] = frames[i]
      /\ Len(frames) \in Nat /\ Len(frames) - 1 \in Nat
  BY CallerFrames DEF TypeOK
<1>2. Kinds' \in [1..(Len(frames) - 1) -> {"list", "dict"}]
  <2>1. Kinds' = [i \in 1..Len(frames') |-> frames'[i].kind]
    BY DEF Kinds
  <2>2. \A i \in 1..Len(frames') : frames'[i].kind \in {"list", "dict"}
    BY <1>1, FrameKinds
  <2>3. QED
    BY <1>1, <2>1, <2>2
<1>3. Kinds' \in Seq({"list", "dict"}) /\ Len(Kinds') = Len(frames) - 1
  BY <1>1, <1>2
<1> DEFINE outer == SubSeq(Kinds, 1, Len(Kinds) - 1)
<1>4. /\ outer \in Seq({"list", "dict"})
      /\ Len(outer) = Len(frames) - 1
      /\ \A i \in 1..(Len(frames) - 1) : outer[i] = frames[i].kind
  BY <1>1, KindsAre
<1> HIDE DEF outer
<1>5. \A i \in 1..(Len(frames) - 1) : Kinds'[i] = frames'[i].kind
  BY <1>1 DEF Kinds
<1>6. \A i \in 1..Len(Kinds') : Kinds'[i] = outer[i]
  BY <1>1, <1>3, <1>4, <1>5
<1>7. Kinds' = outer
  BY <1>3, <1>4, <1>6, SeqEqual
<1>8. QED
  BY <1>7 DEF outer

(* A change of the innermost frame that keeps its kind keeps them all.     *)
LEMMA KindsSame ==
  ASSUME TypeOK, frames # <<>>, NEW f \in Frame, f.kind = Top.kind,
         frames' = WithTop(f)
  PROVE  Kinds' = Kinds
<1>1. /\ frames' \in Seq(Frame) /\ Len(frames') = Len(frames)
      /\ frames'[Len(frames)] = f
      /\ \A i \in 1..(Len(frames) - 1) : frames'[i] = frames[i]
      /\ Len(frames) \in Nat
  BY ReplacedTop, ChangedTop DEF TypeOK
<1>2. Kinds' \in [1..Len(frames) -> {"list", "dict"}]
  <2>1. Kinds' = [i \in 1..Len(frames') |-> frames'[i].kind]
    BY DEF Kinds
  <2>2. \A i \in 1..Len(frames') : frames'[i].kind \in {"list", "dict"}
    BY <1>1, FrameKinds
  <2>3. QED
    BY <1>1, <2>1, <2>2
<1>3. Kinds' \in Seq({"list", "dict"}) /\ Len(Kinds') = Len(frames)
  BY <1>1, <1>2
<1>4. \A i \in 1..Len(frames) : Kinds'[i] = frames'[i].kind
  BY <1>1 DEF Kinds
<1>5. \A i \in 1..Len(frames) : frames'[i].kind = frames[i].kind
  BY <1>1 DEF Top
<1>6. \A i \in 1..Len(Kinds') : Kinds'[i] = Kinds[i]
  BY <1>3, <1>4, <1>5, KindsAre
<1>7. QED
  BY <1>3, <1>6, KindsAre, SeqEqual

(***************************************************************************)
(* The steps of the acceptor, said of the decoder.                         *)
(***************************************************************************)
Step == Acceptor!Next \/ UNCHANGED Acceptor!vars

(* A step that consumes one token is Reads of the acceptor.                *)
LEMMA ReadsStep ==
  ASSUME ~Rejected, ~Rejected', NEW next, NEW kinds,
         pos' = pos + 1, Expects' = next, Kinds' = kinds,
         input' = input, faults' = faults
  PROVE  Acceptor!Reads(next, kinds)
  BY DEF Acceptor!Reads, NumberBehind, Excused, AcceptorState, AcceptorPos, AcceptorStack, Kinds

(* A step that changes nothing abstract stutters.                          *)
LEMMA SameStep ==
  ASSUME ~Rejected, ~Rejected', pos' = pos, Expects' = Expects, Kinds' = Kinds,
         input' = input, faults' = faults
  PROVE  Step
  BY DEF Step, Acceptor!vars, NumberBehind, Excused, AcceptorState, AcceptorPos, AcceptorStack, Kinds

(* A step into the rejected state is one of the acceptor's, or stutters.   *)
LEMMA RejectStep ==
  ASSUME Rejected', input' = input, faults \in Nat, faults' \in Nat,
         faults' >= faults,
         Rejected \/ (Expects # "accepted" /\
           (Acceptor!Unexpected \/ faults' > faults \/ input.cut))
  PROVE  Step
<1>1. /\ AcceptorPos' = 0 /\ AcceptorState' = "rejected" /\ AcceptorStack' = <<>>
      /\ AcceptorState # "accepted"
  BY DEF AcceptorPos, AcceptorState, AcceptorStack
<1>2. Excused' \in {Excused, TRUE}
  <2>1. Excused \in BOOLEAN /\ Excused' \in BOOLEAN
    BY Zenon DEF Excused
  <2>2. Excused => Excused'
    BY DEF Excused
  <2>3. QED
    BY <2>1, <2>2
<1>3. Rejected => AcceptorState = "rejected"
  BY DEF AcceptorState
<1>4. faults' > faults \/ input.cut => Excused'
  BY DEF Excused
<1>5. QED
  BY <1>1, <1>2, <1>3, <1>4 DEF NumberBehind, Step, Acceptor!Next, Acceptor!Reject

(* Only the pool and the calls into Python fail, and a failure is counted. *)
LEMMA FaultsGrow ==
  ASSUME TypeOK, [Next]_vars
  PROVE  input' = input /\ (faults' = faults \/ faults' = faults + 1)
<1>1. CASE DecodeScalar \/ DecodeString \/ DecodeNothing \/ BeginArray \/ BeginObject
  BY <1>1 DEF DecodeScalar, DecodeString, Scanned, ScannedTo,
      DecodeNothing, BeginArray, BeginObject, NewValue
<1>2. CASE AddItem
  BY <1>2, Zenon DEF AddItem, ArrayAddItem, ObjectAddKey, textVars
<1>3. QED
  BY <1>1, <1>2
  DEF Next, Stopped, vars, textVars, poolVars, DecodeNoBuffer, DecodeUnexpected,
      BeginTooDeep, LoopClose, LoopNext, ChildFailed, KeyRefused, KeyRead,
      AddToNull, SeparatorClose, SeparatorComma, SeparatorUnexpected,
      CheckTrailing, Raise, ReturnValue

(* Steps after the rejection.                                              *)
LEMMA StaysRejected ==
  ASSUME Good, [Next]_vars, Rejected
  PROVE  Step
<1>1. Rejected' /\ faults \in Nat /\ faults' \in Nat
  BY RejectedStays, NextUse DEF TypeOK
<1>2. input' = input /\ faults' >= faults
  BY <1>1, NextUse, FaultsGrow
<1>3. QED
  BY <1>1, <1>2, RejectStep

(* What is known in a text that is not rejected.                           *)
LEMMA GoodText ==
  ASSUME Good, [Next]_vars, ~Rejected
  PROVE  /\ TypeOK /\ Shape /\ TypeOK' /\ frames \in Seq(Frame)
         /\ errorStr = "none" /\ pyErr = "none" /\ objDepth = Len(frames)
         /\ pc \in {"return", "finish"} => ret # NoSlot
         /\ frames # <<>> => /\ Top \in Frame /\ Top.obj # NoSlot
                             /\ Top.kind = "list" => Top.at = "item"
         /\ input' = input /\ faults \in Nat /\ faults' \in Nat
         /\ faults' >= faults
<1>1. TypeOK /\ Shape /\ Reported /\ TypeOK' /\ DepthExact
  BY NextUse DEF Good, IInv
<1>2. errorStr = "none" /\ pyErr = "none"
  BY DEF Rejected
<1>3. frames # <<>> => /\ Top \in Frame /\ Top.obj # NoSlot
                       /\ Top.kind = "list" => Top.at = "item"
  <2>1. frames # <<>> => Len(frames) \in DOMAIN frames /\ Top \in Frame
    BY <1>1, CallerFrames DEF TypeOK
  <2>2. QED
    BY <1>1, <1>2, <2>1 DEF Shape, Reported, Top
<1>4. pc \in {"return", "finish"} => ret # NoSlot
  BY <1>1, <1>2 DEF Reported
<1>5. objDepth = Len(frames)
  BY <1>1, <1>2 DEF DepthExact
<1>6. /\ frames \in Seq(Frame) /\ faults \in Nat /\ faults' \in Nat
      /\ input' = input /\ faults' >= faults
  BY <1>1, FaultsGrow DEF TypeOK
<1>7. QED
  BY <1>1, <1>2, <1>3, <1>4, <1>5, <1>6

(***************************************************************************)
(* Each step of the decoder is one of the acceptor.                        *)
(***************************************************************************)

(* The text is found wrong, or something failed.                           *)
LEMMA Refuses ==
  ASSUME Good, [Next]_vars, ~Rejected, Rejected', Expects # "accepted",
         Acceptor!Unexpected \/ faults' > faults \/ input.cut
  PROVE  Step
  BY GoodText, RejectStep

(* Steps that read a scalar or a string.                                   *)
LEMMA ScannedStep ==
  ASSUME Good, [Next]_vars, ~Rejected, ~Overrun', DecodeScalar \/ DecodeString
  PROVE  Step
<1>a. PICK object \in {"scalar", "string"} : Scanned(object,
                              IF object = "string" THEN "utf8" ELSE "other")
  BY DEF DecodeScalar, DecodeString
<1>b. /\ pc = "value" /\ Peek = object /\ pos' = pos + 1 /\ pc' = "return"
      /\ NewValue(object, ret') /\ frames' = frames /\ errorStr' = errorStr
  BY <1>a DEF Scanned, ScannedTo
<1>c. /\ TypeOK /\ errorStr = "none" /\ pyErr = "none" /\ input' = input
      /\ faults \in Nat
  BY GoodText
<1>d. Expects = (IF AtName THEN "name" ELSE "value")
  BY <1>b DEF Expects
<1>e. AcceptorState = Expects /\ AcceptorStack = Kinds /\ Acceptor!Peek = Peek
  BY <1>b, <1>c, AcceptorIs, SamePeek
<1>1. CASE ret' = NoSlot
  <2>1. pyErr' = "CallError" /\ faults' > faults
    BY <1>b, <1>c, <1>1, SlotAssumption DEF NewValue, Live, FreeCell
  <2>2. QED
    BY <2>1, <1>d, Refuses DEF Rejected
<1>2. CASE ret' # NoSlot
  <2>1. cell'[ret'] = object /\ pyErr' = pyErr /\ faults' = faults
    BY <1>b, <1>c, <1>2 DEF NewValue, TypeOK
  <2>2. CASE AtName /\ object = "scalar"
    <3>1. WrongName'
      BY <1>b, <1>2, <2>1, <2>2 DEF AtName, WrongName, Top
    <3>2. Acceptor!Unexpected
      BY <1>b, <1>d, <1>e, <2>2 DEF Acceptor!Unexpected
    <3>3. QED
      BY <3>1, <3>2, <1>d, Refuses DEF Rejected, Doomed
  <2>3. CASE ~AtName \/ object = "string"
    <3>1. ~WrongName'
      BY <1>b, <2>1, <2>3 DEF AtName, WrongName, Top
    <3>2. ~Rejected'
      BY <1>b, <1>c, <2>1, <3>1, GoesOn DEF Pushes
    <3>3. Expects' = (IF AtName THEN "colon" ELSE "after") /\ Kinds' = Kinds
      BY <1>b DEF Expects, AtName, Top, Kinds
    <3>4. Acceptor!Reads(Expects', Kinds)
      BY <1>b, <1>c, <2>1, <3>2, <3>3, ReadsStep
    <3>5. Acceptor!Value \/ Acceptor!Name
      BY <1>b, <1>d, <1>e, <2>3, <3>3, <3>4 DEF Acceptor!Value, Acceptor!Name
    <3>6. QED
      BY <3>5 DEF Step, Acceptor!Next
  <2>4. QED
    BY <2>2, <2>3
<1>3. QED
  BY <1>1, <1>2

(* The step that takes nothing for a scalar, where the text ends.          *)
LEMMA NothingStep ==
  ASSUME Good, [Next]_vars, ~Rejected, DecodeNothing
  PROVE  Step
<1>a. /\ pc = "value" /\ Peek = "scalar" /\ pos' = pos /\ pc' = "return"
      /\ NewValue("scalar", ret') /\ frames' = frames /\ errorStr' = errorStr
      /\ pos = Len(input.text) + 1 /\ ~input.cut
  BY DEF DecodeNothing, ScannedTo, AtEnd
<1>b. /\ TypeOK /\ errorStr = "none" /\ pyErr = "none" /\ input' = input
      /\ faults \in Nat /\ Len(input.text) \in Nat /\ ~Overrun'
  BY <1>a, GoodText, InputType DEF Rejected, Overrun
<1>c. Expects = (IF AtName THEN "name" ELSE "value")
  BY <1>a DEF Expects
<1>d. /\ AcceptorState = Expects /\ AcceptorPos = pos /\ AcceptorStack = Kinds
      /\ Acceptor!Peek = "nul"
  BY <1>a, <1>b, AcceptorIs DEF Acceptor!Peek
<1>1. CASE ret' = NoSlot
  <2>1. pyErr' = "CallError" /\ faults' > faults
    BY <1>a, <1>b, <1>1, SlotAssumption DEF NewValue, Live, FreeCell
  <2>2. QED
    BY <2>1, <1>c, Refuses DEF Rejected
<1>2. CASE ret' # NoSlot
  <2>1. cell'[ret'] = "scalar" /\ pyErr' = pyErr /\ faults' = faults
    BY <1>a, <1>b, <1>2 DEF NewValue, TypeOK
  <2>2. CASE AtName
    <3>1. WrongName'
      BY <1>a, <1>2, <2>1, <2>2 DEF AtName, WrongName, Top
    <3>2. Acceptor!Unexpected
      BY <1>c, <1>d, <2>2 DEF Acceptor!Unexpected
    <3>3. QED
      BY <3>1, <3>2, <1>c, Refuses DEF Rejected, Doomed
  <2>3. CASE ~AtName
    <3>1. ~WrongName'
      BY <1>a, <2>1, <2>3 DEF AtName, WrongName, Top
    <3>2. ~Rejected'
      BY <1>a, <1>b, <2>1, <3>1, GoesOn DEF Pushes
    <3>3. Expects' = "after" /\ Kinds' = Kinds
      BY <1>a, <2>3 DEF Expects, AtName, Top, Kinds
    <3>4. NumberBehind
      <4>1. pos <= Len(input.memory) /\ input.memory[pos] = "scalar"
        BY <1>a DEF Peek
      <4>2. Len(input.memory) \in Nat
        BY <1>b, InputType
      <4>3. QED
        BY <1>a, <1>b, <4>1, <4>2 DEF NumberBehind
    <3>5. /\ AcceptorState' = "after" /\ AcceptorPos' = AcceptorPos
          /\ AcceptorStack' = AcceptorStack /\ Excused' = Excused
          /\ NumberBehind' = NumberBehind
      BY <1>a, <1>b, <1>d, <2>1, <3>2, <3>3
      DEF AcceptorState, AcceptorPos, AcceptorStack, Kinds, Excused, NumberBehind
    <3>6. Acceptor!Nothing
      BY <1>a, <1>b, <1>c, <1>d, <2>3, <3>4, <3>5 DEF Acceptor!Nothing
    <3>7. QED
      BY <3>6 DEF Step, Acceptor!Next
  <2>4. QED
    BY <2>2, <2>3
<1>3. QED
  BY <1>1, <1>2

(* Steps that refuse a token.                                              *)
LEMMA RefusedStep ==
  ASSUME Good, [Next]_vars, ~Rejected,
         DecodeNoBuffer \/ DecodeUnexpected \/ BeginTooDeep \/ SeparatorUnexpected
         \/ KeyRefused
  PROVE  Step
<1>a. /\ TypeOK /\ Shape /\ faults \in Nat /\ objDepth = Len(frames)
      /\ MaxDepth \in Nat
  BY GoodText, DepthAssumption
<1>b. /\ AcceptorState = Expects
      /\ Acceptor!Peek \in {Peek, "nul"} \/ input.cut
      /\ Len(AcceptorStack) = Len(frames)
      /\ AcceptorStack = <<>> <=> frames = <<>>
      /\ frames # <<>> => Acceptor!Closer = Closer(Top.kind)
  BY <1>a, AcceptorIs, PeekIs
<1>c. \A kind : Closer(kind) # "nul"
  BY DEF Closer
<1>1. CASE DecodeNoBuffer
  <2>1. /\ errorStr' = "no_buffer" /\ Expects \in {"name", "value"}
        /\ faults' > faults \/ pos > Len(input.text)
    BY <1>1, <1>a DEF DecodeNoBuffer, Expects
  <2>2. CASE pos > Len(input.text)
    <3>1. AcceptorPos = pos
      BY <1>a, AcceptorIs
    <3>2. Acceptor!Peek = "nul"
      BY <1>a, <2>2, <3>1 DEF Acceptor!Peek, TypeOK, Input
    <3>3. Acceptor!Unexpected
      BY <2>1, <3>2, <1>b DEF Acceptor!Unexpected
    <3>4. QED
      BY <2>1, <3>3, Refuses DEF Rejected
  <2>3. QED
    BY <2>1, <2>2, Refuses DEF Rejected
<1>2. CASE DecodeUnexpected
  <2>1. /\ errorStr' = "expected_value" /\ Expects \in {"name", "value"}
        /\ Peek \notin {"string", "scalar", "arrayBegin", "objectBegin"}
    BY <1>2 DEF DecodeUnexpected, Expects
  <2>2. Acceptor!Unexpected \/ input.cut
    BY <2>1, <1>b, <1>c DEF Acceptor!Unexpected
  <2>3. QED
    BY <2>1, <2>2, Refuses DEF Rejected
<1>3. CASE BeginTooDeep
  <2>1. /\ errorStr' = "depth_limit" /\ Expects \in {"name", "value"}
        /\ Peek \in {"arrayBegin", "objectBegin"} /\ objDepth + 1 > MaxDepth
    BY <1>3 DEF BeginTooDeep, TooDeep, Enter, Expects
  <2>2. Len(AcceptorStack) >= MaxDepth
    BY <2>1, <1>a, <1>b DEF TypeOK
  <2>3. Acceptor!Unexpected \/ input.cut
    BY <2>1, <2>2, <1>b, <1>c DEF Acceptor!Unexpected
  <2>4. QED
    BY <2>1, <2>3, Refuses DEF Rejected
<1>4. CASE SeparatorUnexpected
  <2>1. /\ errorStr' # "none" /\ Expects = "after" /\ frames # <<>>
        /\ Peek \notin {"comma", Closer(Top.kind)}
    BY <1>4, <1>a DEF SeparatorUnexpected, Expects, Shape
  <2>2. Acceptor!Unexpected \/ input.cut
    BY <2>1, <1>b, <1>c DEF Acceptor!Unexpected
  <2>3. QED
    BY <2>1, <2>2, Refuses DEF Rejected
<1>5. CASE KeyRefused
  <2>1. /\ errorStr' # "none" /\ Expects = "colon" /\ frames # <<>>
        /\ pc = "return" /\ ret # NoSlot /\ Top.at = "key"
        /\ ~NameIsString \/ Peek # "colon"
    BY <1>5 DEF KeyRefused, Expects, AtName
  <2>2. NameIsString
    <3>1. cell[ret] = "string"
      BY <2>1 DEF Rejected, Doomed, WrongName
    <3>2. QED
      BY <2>1, <3>1 DEF NameIsString, Good, AInv, RetKind
  <2>3. Acceptor!Unexpected \/ input.cut
    BY <2>1, <2>2, <1>b, <1>c DEF Acceptor!Unexpected
  <2>4. QED
    BY <2>1, <2>3, Refuses DEF Rejected
<1>6. QED
  BY <1>1, <1>2, <1>3, <1>4, <1>5

(* Steps that open a container.                                            *)
LEMMA BeginStep ==
  ASSUME Good, [Next]_vars, ~Rejected, ~Overrun', BeginArray \/ BeginObject
  PROVE  Step
<1>a. /\ TypeOK /\ errorStr = "none" /\ pyErr = "none" /\ input' = input
      /\ faults \in Nat /\ frames \in Seq(Frame) /\ objDepth = Len(frames)
      /\ MaxDepth \in Nat
  BY GoodText, DepthAssumption
<1>b. PICK c \in JSOBJ, kind \in {"list", "dict"} :
        /\ NewValue(kind, c)
        /\ frames' = Append(frames,
             [kind |-> kind, obj |-> c, key |-> NoSlot, first |-> TRUE,
              at |-> IF kind = "dict" THEN "key" ELSE "item"])
        /\ Peek = IF kind = "dict" THEN "objectBegin" ELSE "arrayBegin"
  <2>1. CASE BeginArray
    BY <2>1 DEF BeginArray
  <2>2. CASE BeginObject
    BY <2>2 DEF BeginObject
  <2>3. QED
    BY <2>1, <2>2
<1>c. /\ pc = "value" /\ pc' = "loop" /\ pos' = pos + 1 /\ errorStr' = errorStr
      /\ ~(objDepth + 1 > MaxDepth)
  BY DEF BeginArray, BeginObject, TooDeep, Enter
<1> DEFINE at == IF kind = "dict" THEN "key" ELSE "item"
           f == [kind |-> kind, obj |-> c, key |-> NoSlot, first |-> TRUE,
                 at |-> at]
<1>d. f \in Frame /\ frames' = Append(frames, f) /\ f.kind = kind /\ f.first = TRUE
  <2>1. frames' = Append(frames, f)
    BY <1>b, Zenon
  <2>2. at \in {"key", "item"}
    OBVIOUS
  <2> HIDE DEF at
  <2>3. f \in Frame /\ f.kind = kind /\ f.first = TRUE
    BY <2>2 DEF Frame, JSOBJ
  <2>4. QED
    BY <2>1, <2>3, Zenon
<1> HIDE DEF f
<1>e. /\ Expects = (IF AtName THEN "name" ELSE "value")
      /\ AcceptorState = Expects /\ AcceptorStack = Kinds /\ Acceptor!Peek = Peek
      /\ Len(AcceptorStack) = Len(frames)
  BY <1>a, <1>c, AcceptorIs, SamePeek DEF Expects
<1>1. CASE c = NoSlot
  <2>1. pyErr' = "CallError" /\ faults' > faults
    BY <1>a, <1>b, <1>1, SlotAssumption DEF NewValue, Live, FreeCell
  <2>2. QED
    BY <2>1, <1>e, Refuses DEF Rejected
<1>2. CASE c # NoSlot /\ AtName
  <2>1. /\ Len(frames) \in 1..Len(frames') /\ Len(frames) < Len(frames')
        /\ frames'[Len(frames)] = Top /\ DOMAIN frames' = 1..Len(frames')
    BY <1>a, <1>d, <1>2 DEF AtName, Top
  <2>2. NestedName'
    BY <2>1, <1>2 DEF NestedName, AtName
  <2>3. Acceptor!Unexpected
    BY <1>b, <1>e, <1>2 DEF Acceptor!Unexpected
  <2>4. QED
    BY <2>2, <2>3, <1>e, <1>2, Refuses DEF Rejected, Doomed
<1>3. CASE c # NoSlot /\ ~AtName
  <2>1. pyErr' = pyErr /\ faults' = faults
    BY <1>b, <1>3 DEF NewValue
  <2>2. ~Rejected'
    BY <1>a, <1>c, <1>3, <2>1, GoesOn DEF WrongName
  <2>3. Kinds' = Append(Kinds, kind)
    BY <1>a, <1>d, KindsPushed
  <2>4. Top' = f
    BY <1>a, <1>d, PushedFrames DEF Top
  <2>5. Expects' = "first"
    BY <1>c, <1>d, <2>4 DEF Expects
  <2>6. Acceptor!Reads("first", Append(Kinds, kind))
    BY <1>a, <1>c, <2>1, <2>2, <2>3, <2>5, ReadsStep
  <2>7. Len(AcceptorStack) < MaxDepth
    BY <1>a, <1>c, <1>e
  <2>8. Acceptor!Open
    BY <1>b, <1>e, <1>3, <2>6, <2>7 DEF Acceptor!Open, Acceptor!Opens
  <2>9. QED
    BY <2>8 DEF Step, Acceptor!Next
<1>4. QED
  BY <1>1, <1>2, <1>3

(* The end of a container: what a bracket that closes it leaves.           *)
LEMMA ClosedStep ==
  ASSUME Good, [Next]_vars, ~Rejected, ~Overrun', pc \in {"loop", "separator"},
         frames # <<>>, frames' = Caller, pc' = "return", ret' = Top.obj,
         Top.key = NoSlot, Peek = Closer(Top.kind), pos' = pos + 1,
         faults' = faults, errorStr' = errorStr, pyErr' = pyErr,
         Expects \in {"first", "after"}
  PROVE  Step
<1>a. TypeOK /\ errorStr = "none" /\ pyErr = "none" /\ input' = input
  BY GoodText
<1>b. Pops /\ ~Pushes
  BY DEF Pops, Pushes
<1>c. ~AtName'
  BY <1>b, NoNameBelow
<1>d. ~Rejected'
  BY <1>a, <1>b, <1>c, GoesOn DEF AtName, WrongName
<1>e. Expects' = "after"
  BY <1>c DEF Expects
<1>f. /\ AcceptorState = Expects /\ AcceptorStack = Kinds /\ Acceptor!Peek = Peek
      /\ AcceptorStack # <<>> /\ Acceptor!Closer = Closer(Top.kind)
  BY <1>a, AcceptorIs, SamePeek
<1>1. Kinds' = Acceptor!Outer
  BY <1>a, <1>f, KindsPopped DEF Acceptor!Outer
<1>2. Acceptor!Reads("after", Acceptor!Outer)
  BY <1>a, <1>d, <1>e, <1>1, ReadsStep
<1>3. Acceptor!Close
  BY <1>f, <1>2 DEF Acceptor!Close
<1>4. QED
  BY <1>3 DEF Step, Acceptor!Next

(* Steps at the start of the loop of a container.                          *)
LEMMA LoopStep ==
  ASSUME Good, [Next]_vars, ~Rejected, ~Overrun', LoopClose \/ LoopNext
  PROVE  Step
<1>a. /\ TypeOK /\ Shape /\ errorStr = "none" /\ pyErr = "none" /\ input' = input
      /\ faults' \in Nat
  BY GoodText
<1>b. /\ pc = "loop" /\ frames # <<>> /\ Top.key = NoSlot /\ Top \in Frame
      /\ Top.kind = "list" => Top.at = "item"
  BY <1>a, GoodText DEF LoopClose, LoopNext, Shape
<1>c. /\ Top.kind \in {"list", "dict"} /\ Top.first \in BOOLEAN
      /\ Top.kind = "dict" => Top.at = "key"
  BY <1>b DEF Frame, Good, AInv, NameFirst
<1>d. /\ AcceptorState = Expects /\ AcceptorPos = pos /\ AcceptorStack = Kinds
      /\ Acceptor!Peek \in {Peek, "nul"} \/ (input.cut /\ Acceptor!Peek \in LastCut)
      /\ AcceptorStack # <<>>
      /\ Acceptor!Closer = Closer(Top.kind) /\ Acceptor!Innermost = Top.kind
  BY <1>a, <1>b, AcceptorIs, PeekIs
<1>e. /\ Acceptor!Element = (IF Top.kind = "dict" THEN "name" ELSE "value")
      /\ Expects = (IF Top.first THEN "first" ELSE Acceptor!Element)
  BY <1>b, <1>c, <1>d DEF Acceptor!Element, Expects
<1>1. CASE LoopClose /\ Top.first
  <2>1. /\ frames' = Caller /\ pc' = "return" /\ ret' = Top.obj
        /\ Peek = Closer(Top.kind) /\ pos' = pos + 1
        /\ faults' = faults /\ errorStr' = errorStr /\ pyErr' = pyErr
    BY <1>1 DEF LoopClose
  <2>2. QED
    BY <2>1, <1>1, <1>b, <1>e, ClosedStep
<1>2. CASE LoopClose /\ ~Top.first
  <2>1. errorStr' # "none" /\ Peek \in {"arrayEnd", "objectEnd"}
    BY <1>2 DEF LoopClose, Closer
  <2>2. Expects \in {"name", "value"}
    BY <1>2, <1>e
  <2>3. Acceptor!Unexpected \/ input.cut
    BY <2>1, <2>2, <1>d DEF Acceptor!Unexpected
  <2>4. QED
    BY <2>1, <2>2, <2>3, Refuses DEF Rejected
<1>3. CASE LoopNext
  <2>1. /\ Peek # Closer(Top.kind) /\ pc' = "value" /\ frames' = frames
        /\ pos' = pos /\ faults' = faults /\ errorStr' = errorStr /\ pyErr' = pyErr
    BY <1>3 DEF LoopNext, textVars, errVars, poolVars
  <2>2. ~Rejected'
    BY <2>1, <1>a, <1>b, GoesOn DEF WrongName, Pushes
  <2>3. Kinds' = Kinds
    BY <2>1 DEF Kinds
  <2>4. Expects' = Acceptor!Element
    BY <2>1, <1>b, <1>c, <1>e DEF Expects, AtName, Top
  <2>5. CASE Top.first
    <3>1. Acceptor!Peek # Acceptor!Closer
      BY <2>1, <1>d DEF Closer, LastCut
    <3>2. Acceptor!Enter
      BY <2>1, <2>2, <2>3, <2>4, <2>5, <3>1, <1>a, <1>d, <1>e
      DEF Acceptor!Enter, NumberBehind, Excused, AcceptorState, AcceptorPos, AcceptorStack, Kinds
    <3>3. QED
      BY <3>2 DEF Step, Acceptor!Next
  <2>6. CASE ~Top.first
    BY <2>1, <2>2, <2>3, <2>4, <2>6, <1>a, <1>e, SameStep
  <2>7. QED
    BY <2>5, <2>6
<1>4. QED
  BY <1>1, <1>2, <1>3, <1>c

(* Steps at a separator.                                                   *)
LEMMA SeparatorStep ==
  ASSUME Good, [Next]_vars, ~Rejected, ~Overrun', SeparatorClose \/ SeparatorComma
  PROVE  Step
<1>a. /\ TypeOK /\ Shape /\ errorStr = "none" /\ pyErr = "none" /\ input' = input
  BY GoodText
<1>b. /\ pc = "separator" /\ frames # <<>> /\ Top.key = NoSlot /\ Top \in Frame
      /\ Expects = "after"
  BY <1>a, GoodText DEF SeparatorClose, SeparatorComma, Shape, Expects
<1>1. CASE SeparatorClose
  <2>1. /\ frames' = Caller /\ pc' = "return" /\ ret' = Top.obj
        /\ Peek = Closer(Top.kind) /\ pos' = pos + 1
        /\ faults' = faults /\ errorStr' = errorStr /\ pyErr' = pyErr
    BY <1>1 DEF SeparatorClose, errVars, poolVars
  <2>2. QED
    BY <2>1, <1>b, ClosedStep
<1>2. CASE SeparatorComma
  <2> DEFINE at == IF Top.kind = "dict" THEN "key" ELSE "item"
             f == [Top EXCEPT !.first = FALSE, !.at = at]
  <2>1. /\ Peek = "comma" /\ pos' = pos + 1 /\ pc' = "loop"
        /\ faults' = faults /\ errorStr' = errorStr /\ pyErr' = pyErr
    BY <1>2 DEF SeparatorComma, errVars, poolVars
  <2>2. frames' = WithTop(f)
    BY <1>2 DEF SeparatorComma
  <2>3. f \in Frame /\ f.kind = Top.kind /\ f.first = FALSE
    BY <1>b DEF Frame
  <2> HIDE DEF f
  <2>4. Top' = f /\ Kinds' = Kinds
    BY <2>2, <2>3, <1>a, <1>b, ReplacedTop, KindsSame DEF TypeOK
  <2>5. ~Rejected'
    BY <2>1, <1>a, <1>b, GoesOn DEF WrongName, Pushes
  <2>6. /\ AcceptorState = Expects /\ AcceptorStack = Kinds
        /\ Acceptor!Peek = Peek /\ AcceptorStack # <<>>
        /\ Acceptor!Innermost = Top.kind
    BY <2>1, <1>a, <1>b, AcceptorIs, SamePeek
  <2>7. Expects' = Acceptor!Element
    <3>1. f.kind \in {"list", "dict"}
      BY <2>3 DEF Frame
    <3>2. QED
      BY <3>1, <2>1, <2>3, <2>4, <2>6 DEF Expects, Acceptor!Element
  <2>8. Acceptor!Reads(Acceptor!Element, Kinds)
    BY <2>1, <2>4, <2>5, <2>7, <1>a, ReadsStep
  <2>9. Acceptor!Comma
    BY <2>1, <2>6, <2>8, <1>b DEF Acceptor!Comma
  <2>10. QED
    BY <2>9 DEF Step, Acceptor!Next
<1>3. QED
  BY <1>1, <1>2

(* Steps that take the name of a member.                                   *)
LEMMA KeyStep ==
  ASSUME Good, [Next]_vars, ~Rejected, ~Overrun', KeyRead
  PROVE  Step
<1>a. TypeOK /\ errorStr = "none" /\ pyErr = "none" /\ input' = input
  BY GoodText
<1>b. /\ pc = "return" /\ frames # <<>> /\ Top.at = "key" /\ Peek = "colon"
      /\ pos' = pos + 1 /\ pc' = "value" /\ faults' = faults
      /\ errorStr' = errorStr /\ pyErr' = pyErr
  BY DEF KeyRead, errVars, poolVars
<1> DEFINE f == [Top EXCEPT !.key = ret, !.at = "item"]
<1>c. frames' = WithTop(f)
  BY DEF KeyRead
<1>d. f \in Frame /\ f.kind = Top.kind /\ f.at = "item"
  BY <1>a, <1>b, CallerFrames DEF Frame, TypeOK
<1> HIDE DEF f
<1>1. Top' = f /\ Kinds' = Kinds
  BY <1>a, <1>b, <1>c, <1>d, ReplacedTop, KindsSame DEF TypeOK
<1>2. ~Rejected'
  BY <1>a, <1>b, GoesOn DEF WrongName, Pushes
<1>3. Expects = "colon" /\ Expects' = "value"
  BY <1>b, <1>d, <1>1 DEF Expects, AtName
<1>4. Acceptor!Reads("value", Kinds)
  BY <1>a, <1>b, <1>1, <1>2, <1>3, ReadsStep
<1>5. Acceptor!Colon
  BY <1>a, <1>b, <1>3, <1>4, AcceptorIs, SamePeek DEF Acceptor!Colon
<1>6. QED
  BY <1>5 DEF Step, Acceptor!Next

(* Steps that add an item to its container.                                *)
LEMMA ItemStep ==
  ASSUME Good, [Next]_vars, ~Rejected, ~Overrun', AddItem
  PROVE  Step
<1>a. /\ TypeOK /\ errorStr = "none" /\ pyErr = "none" /\ input' = input
      /\ faults \in Nat
  BY GoodText
<1>b. /\ pc = "return" /\ frames # <<>> /\ Top.at = "item" /\ pc' = "separator"
      /\ pos' = pos /\ errorStr' = errorStr /\ Top \in Frame
  BY GoodText DEF AddItem, textVars
<1>c. Expects = "after" /\ Expects' = "after"
  BY <1>b DEF Expects, AtName
<1>1. \/ pyErr' = pyErr /\ faults' = faults
      \/ pyErr' # "none" /\ faults' = faults + 1
  <2>1. CASE Top.kind = "list"
    BY <2>1 DEF AddItem, ArrayAddItem
  <2>2. CASE Top.kind # "list"
    <3>1. Len(frames) \in 1..Len(frames) /\ DOMAIN frames = 1..Len(frames)
      BY <1>a, <1>b DEF TypeOK
    <3>2. Top.kind = "dict"
      BY <2>2, <1>b DEF Frame
    <3>3. Top.key # NoSlot
      BY <3>1, <3>2, <1>b DEF Good, AInv, KeyHere, Top
    <3>4. cell[Top.key] = "string"
      BY <3>1, <3>3 DEF Rejected, Doomed, WrongKey, Top
    <3>5. ObjectAddKey
      BY <2>2 DEF AddItem
    <3>6. QED
      BY <3>4, <3>5 DEF ObjectAddKey
  <2>3. QED
    BY <2>1, <2>2
<1>2. CASE pyErr' # "none" /\ faults' = faults + 1
  BY <1>2, <1>a, <1>c, Refuses DEF Rejected
<1>3. CASE pyErr' = pyErr /\ faults' = faults
  <2>1. ~Rejected'
    BY <1>3, <1>a, <1>b, GoesOn DEF WrongName, Pushes
  <2>2. Kinds' = Kinds
    <3>1. PICK f \in Frame : frames' = WithTop(f) /\ f.kind = Top.kind
      BY GoodText, TopStep
    <3>2. QED
      BY <3>1, <1>a, <1>b, KindsSame
  <2>3. QED
    BY <1>3, <1>a, <1>b, <1>c, <2>1, <2>2, SameStep
<1>4. QED
  BY <1>1, <1>2, <1>3

(* Steps on the way out of the decoder.                                    *)
LEMMA EndStep ==
  ASSUME Good, [Next]_vars, ~Rejected, ~Overrun',
         ChildFailed \/ AddToNull \/ CheckTrailing \/ Raise \/ ReturnValue
  PROVE  Step
<1>a. /\ TypeOK /\ Shape /\ errorStr = "none" /\ pyErr = "none" /\ input' = input
      /\ pc \in {"return", "finish"} => ret # NoSlot
      /\ frames # <<>> => Top.obj # NoSlot
  BY GoodText
<1>b. /\ AcceptorState = Expects /\ AcceptorPos = pos /\ AcceptorStack = Kinds
      /\ AcceptorStack = <<>> <=> frames = <<>>
  BY <1>a, AcceptorIs
<1>1. ~ChildFailed /\ ~AddToNull /\ ~Raise
  BY <1>a DEF ChildFailed, AddToNull, Raise
<1>2. CASE CheckTrailing
  <2>1. /\ pc = "return" /\ frames = <<>> /\ frames' = frames /\ pc' = "finish"
        /\ pos' = pos /\ faults' = faults /\ pyErr' = pyErr
    BY <1>2 DEF CheckTrailing, textVars
  <2>2. Expects = "after" /\ Expects' = "accepted" /\ Kinds' = Kinds
    BY <2>1 DEF Expects, AtName, Kinds
  <2>3. CASE HasTrailing
    <3>1. errorStr' # "none" /\ (pos # Len(input.text) + 1 \/ input.cut)
      BY <1>2, <2>3 DEF CheckTrailing, HasTrailing, AtEnd
    <3>2. Acceptor!Unexpected \/ input.cut
      BY <3>1, <2>1, <2>2, <1>b DEF Acceptor!Unexpected
    <3>3. QED
      BY <3>1, <3>2, <2>2, Refuses DEF Rejected
  <2>4. CASE ~HasTrailing
    <3>1. errorStr' = errorStr /\ pos = Len(input.text) + 1
      BY <1>2, <1>a, <2>1, <2>4 DEF CheckTrailing, HasTrailing, AtEnd
    <3>2. ~Rejected'
      BY <3>1, <2>1, <1>a, GoesOn DEF WrongName, Pushes
    <3>3. Acceptor!Accept
      BY <3>1, <3>2, <2>1, <2>2, <1>a, <1>b
      DEF Acceptor!Accept, NumberBehind, Excused, AcceptorState, AcceptorPos, AcceptorStack, Kinds
    <3>4. QED
      BY <3>3 DEF Step, Acceptor!Next
  <2>5. QED
    BY <2>3, <2>4
<1>3. CASE ReturnValue
  <2>1. /\ pc = "finish" /\ pc' = "done" /\ frames' = frames /\ pos' = pos
        /\ faults' = faults /\ errorStr' = errorStr /\ pyErr' = pyErr
    BY <1>3 DEF ReturnValue, textVars, errVars
  <2>2. ~Rejected'
    BY <2>1, <1>a, GoesOn DEF WrongName, Pushes
  <2>3. Expects = "accepted" /\ Expects' = "accepted" /\ Kinds' = Kinds
    BY <2>1 DEF Expects, Kinds
  <2>4. QED
    BY <2>1, <2>2, <2>3, <1>a, SameStep
<1>4. QED
  BY <1>1, <1>2, <1>3

(* Steps that go on behind the text.                                       *)
LEMMA OverrunStep ==
  ASSUME Good, [Next]_vars, ~Rejected, Overrun'
  PROVE  Step
<1>1. /\ TypeOK /\ Shape /\ input' = input /\ pos \in Nat
      /\ Len(input.text) \in Nat /\ pos' \in {pos, pos + 1}
  BY NextUse, NextInput, InputType, PosGrows DEF TypeOK
<1>2. /\ pos' = pos + 1 /\ Rejected'
      /\ pos = Len(input.text) + 1 \/ input.cut
  BY <1>1 DEF Overrun, Rejected
<1>3. /\ Acceptor!Peek = "nul" \/ input.cut
  <2>1. CASE ~input.cut
    <3>1. pos = Len(input.text) + 1 /\ AcceptorPos = pos
      BY <1>1, <1>2, <2>1, AcceptorIs
    <3>2. QED
      BY <1>1, <3>1 DEF Acceptor!Peek
  <2>2. QED
    BY <2>1
<1>4. /\ AcceptorState = Expects
      /\ frames # <<>> => AcceptorStack # <<>>
      /\ frames # <<>> => Acceptor!Closer = Closer(Top.kind)
  BY <1>1, AcceptorIs
<1>5. \/ Expects \in {"name", "value", "first", "colon"}
      \/ Expects = "after" /\ frames # <<>>
  <2>1. CASE pc = "value"
    BY <2>1 DEF Expects
  <2>2. CASE pc = "loop"
    BY <2>2 DEF Expects
  <2>3. CASE pc = "separator"
    BY <2>3, <1>1 DEF Expects, Shape
  <2>4. CASE pc = "return" /\ frames # <<>>
    BY <2>4 DEF Expects
  <2>5. QED
    BY <1>1, <1>2, <2>1, <2>2, <2>3, <2>4
    DEF TypeOK, Next, vars, textVars, Stopped, DecodeScalar, DecodeString,
        Scanned, ScannedTo,
      DecodeNothing, DecodeNoBuffer, DecodeUnexpected, BeginTooDeep, BeginArray,
        BeginObject, LoopClose, LoopNext, ChildFailed, KeyRefused, KeyRead,
        AddItem, AddToNull, SeparatorClose, SeparatorComma,
        SeparatorUnexpected, CheckTrailing, Raise, ReturnValue
<1>6. Acceptor!Unexpected \/ input.cut
  BY <1>3, <1>4, <1>5 DEF Acceptor!Unexpected, Closer
<1>7. QED
  BY <1>2, <1>5, <1>6, Refuses

(* Every step of the decoder is a step of the acceptor or a stutter.       *)
LEMMA StepImplements == Good /\ [Next]_vars => Step
<1> SUFFICES ASSUME Good, [Next]_vars PROVE Step
  OBVIOUS
<1>1. CASE Rejected
  BY <1>1, StaysRejected
<1>2. CASE ~Rejected
  <2>1. CASE UNCHANGED vars
    <3>1. ~Rejected'
      BY <1>2, <2>1
      DEF vars, Rejected, Doomed, NestedName, WrongName, WrongKey, Top, Overrun
    <3>2. /\ pos' = pos /\ input' = input /\ faults' = faults
          /\ Expects' = Expects /\ Kinds' = Kinds
      BY <2>1 DEF vars, Expects, AtName, Top, Kinds
    <3>3. QED
      BY <3>1, <3>2, <1>2, SameStep
  <2>2. CASE Overrun'
    BY <1>2, <2>2, OverrunStep
  <2>3. QED
    BY <1>2, <2>1, <2>2, ScannedStep, NothingStep, RefusedStep, BeginStep,
       LoopStep, SeparatorStep,
       KeyStep, ItemStep, EndStep
    DEF Next, Stopped
<1>3. QED
  BY <1>1, <1>2

(***************************************************************************)
(* The theorem.                                                            *)
(***************************************************************************)
LEMMA InitImplements == Init => Acceptor!Init /\ AInv
<1> SUFFICES ASSUME Init PROVE Acceptor!Init /\ AInv
  OBVIOUS
<1>1. /\ input \in Input /\ input \in Document /\ Acceptor!Token = Token
      /\ input.text \in Seq(Token) /\ Len(input.text) \in Nat /\ input.cut \in BOOLEAN
      /\ input.cut => Len(input.text) # 0
  BY DocumentAssumption DEF Init, Input, Token, Acceptor!Token
<1>2. /\ frames = <<>> /\ Len(frames) = 0 /\ DOMAIN frames = {} /\ pc = "value"
      /\ ret = NoSlot /\ errorStr = "none" /\ pyErr = "none" /\ pos = 1
      /\ faults = 0
  BY DEF Init
<1>3. ~Rejected /\ Expects = "value" /\ Kinds = <<>>
  BY <1>1, <1>2
  DEF Overrun, Rejected, Doomed, NestedName, WrongName, WrongKey, Expects, AtName, Kinds
<1>4. AcceptorState = "value" /\ AcceptorPos = 1 /\ AcceptorStack = <<>>
  BY <1>2, <1>3 DEF AcceptorState, AcceptorPos, AcceptorStack, Kinds
<1>5. Excused \in BOOLEAN /\ NumberBehind \in BOOLEAN
  BY Zenon DEF Excused, NumberBehind
<1>6. AInv
  BY <1>1, <1>2 DEF AInv, Placed, ObjKinds, KeyKinds, RetKind, KeyHere, NameFirst
<1>7. QED
  BY <1>1, <1>4, <1>5, <1>6 DEF Acceptor!Init

(* Token by token the decoder accepts and rejects what JsonAcceptor does,  *)
(* whatever the text, the limit, the pool and the calls that fail.         *)
THEOREM AcceptorCorrect == Spec => ImplementsAcceptor
<1>1. Good /\ [Next]_vars => AInv'
  BY NextAInv
<1>2. Good /\ [Next]_vars => [Acceptor!Next]_(Acceptor!vars)
  BY StepImplements DEF Step
<1>3. Init => AInv
  BY InitImplements
<1>4. Init => Acceptor!Init
  BY InitImplements
<1>5. Spec => []AInv
  BY Inductive, OwnerCorrect, <1>1, <1>3, PTL DEF Spec, Good
<1>6. QED
  BY Inductive, OwnerCorrect, <1>2, <1>4, <1>5, PTL
  DEF Spec, Good, ImplementsAcceptor, Acceptor!Spec
==============================================================================
