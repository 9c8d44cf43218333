-------------------------- MODULE EncoderBufferProofs --------------------------
(***************************************************************************)
(* The buffer of the encoder is never overrun while the level is the depth *)
(* of the recursion, for every separator, indentation, buffer and nesting. *)
(*                                                                         *)
(* What a loop reserves for an item is computed when the container starts, *)
(* and used after anything was nested in the items before.  The invariant  *)
(* therefore ties the level, at every point of encode, to the number of    *)
(* open containers, and the reservation of every open container, not only  *)
(* of the innermost one, to its depth.                                     *)
(***************************************************************************)
EXTENDS EncoderBuffer, SequenceTheorems, TLAPS

(* Where encode is between level++ and level--.                            *)
Inside == {"encode", "value", "string", "raw"}

Sound == ~drifted /\ ~failed

(* After an error nothing but unwinding is left.                           *)
ErrorReturns == failed => pc \in {"return", "done"}

LevelIsDepth ==
  Sound => level = IF pc \in Inside THEN Len(frames) ELSE Len(frames) - 1

ReservesFit ==
  Sound => \A i \in DOMAIN frames :
             frames[i].reserve = Indentation(i) + ItemSep + 1

(* The loop of a container is at work only when there is one.              *)
LoopHasFrame == pc \in {"iter", "close"} => frames # <<>>

IInv == /\ TypeOK /\ ErrorReturns /\ LoopHasFrame
        /\ LevelIsDepth /\ ReservesFit /\ ReservedEnough

(* Indentation (Buffer_AppendIndentUnchecked) writes some number of bytes. *)
LEMMA IndentationType ==
  ASSUME indent \in Int, NEW l \in Int
  PROVE  Indentation(l) \in Nat
<1>1. CASE indent > 0 /\ l > 0
  <2>1. indent * l \in Nat BY <1>1
  <2> QED BY <1>1, <2>1 DEF Indentation
<1>2. CASE ~(indent > 0 /\ l > 0) BY <1>2 DEF Indentation
<1> QED BY <1>1, <1>2

(* Buffer_Reserve keeps a size a size, and makes room for what it is asked *)
(* for when the buffer was not overrun before.                             *)
LEMMA ReserveMakesRoom ==
  ASSUME TypeOK, NEW n \in Nat, Reserve(n)
  PROVE  /\ size' \in Nat \ {0}
         /\ InBounds => offset + n <= size'
<1> USE DEF TypeOK, InBounds
<1>1. CASE Free(n) BY <1>1 DEF Free, Reserve
<1>2. CASE ~Free(n)
  <2>1. offset <= size /\ size - offset < n BY <1>2 DEF Free
  <2>2. size' \in Grown(n) BY <1>2 DEF Reserve
  <2>3. CASE Debug
    <3>1. size' = offset + n BY <2>2, <2>3 DEF Grown
    <3> QED BY <3>1, <2>1
  <2>4. CASE ~Debug
    <3>1. size' \in (size + n)..(2 * (size + n) - 1)
      BY <2>2, <2>4 DEF Grown
    <3> QED BY <3>1, <2>1
  <2> QED BY <2>3, <2>4
<1> QED BY <1>1, <1>2

(* Buffer_Append* after a Buffer_Reserve stays in the buffer when it writes*)
(* no more than was reserved.                                              *)
LEMMA PutInRoom ==
  ASSUME TypeOK, NEW n \in Nat, NEW m \in Nat, Reserve(n), Put(m)
  PROVE  /\ size' \in Nat \ {0} /\ offset' \in Nat
         /\ InBounds /\ m <= n => InBounds'
<1>1. size' \in Nat \ {0} /\ (InBounds => offset + n <= size')
  BY ReserveMakesRoom
<1>2. offset' = offset + m BY DEF Put
<1> QED BY <1>1, <1>2 DEF TypeOK, InBounds

(* The stack that the return of the innermost container leaves.            *)
LEMMA CallerFrames ==
  ASSUME frames \in Seq(Frame), frames # <<>>
  PROVE  /\ Len(frames) \in Nat \ {0}
         /\ Top \in Frame
         /\ Caller \in Seq(Frame)
         /\ Len(Caller) = Len(frames) - 1
         /\ \A i \in 1..(Len(frames) - 1) : Caller[i] = frames[i]
<1>1. Len(frames) \in Nat \ {0}
  OBVIOUS
<1>2. \A i \in 1..Len(frames) : frames[i] \in Frame
  OBVIOUS
<1>3. Top \in Frame
  BY <1>1, <1>2 DEF Top
<1>4. DEFINE n == Len(frames) - 1
<1>5. n \in Nat /\ n + 1 = Len(frames)
  BY <1>1
<1>6. /\ Caller \in Seq(Frame)
      /\ Len(Caller) = IF 1 <= n THEN n - 1 + 1 ELSE 0
      /\ \A i \in 1..(n - 1 + 1) : Caller[i] = frames[1 + i - 1]
  <2>1. \A i \in 1..n : frames[i] \in Frame
    BY <1>2, <1>5
  <2>2. QED
    BY <1>5, <2>1, SubSeqProperties DEF Caller
<1> HIDE DEF n
<1>7. Len(Caller) = n
  BY <1>5, <1>6
<1>8. ASSUME NEW i \in 1..n PROVE Caller[i] = frames[i]
  <2>1. 1 + i - 1 = i /\ i \in 1..(n - 1 + 1)
    BY <1>5
  <2>2. QED
    BY <1>6, <2>1
<1>9. QED
  BY <1>1, <1>3, <1>6, <1>7, <1>8 DEF n

(* JSON_EncodeObject starts with an empty text and no container.           *)
LEMMA InitIInv == Init => IInv
<1> SUFFICES ASSUME Init PROVE IInv
  OBVIOUS
<1>1. TypeOK
  <2>1. indent \in Int
    BY IndentAssumption DEF Init
  <2>2. frames = <<>> /\ <<>> \in Seq(Frame)
    BY DEF Init
  <2>3. size \in Nat \ {0} /\ offset \in Nat /\ level \in Int /\ nodes \in Nat
    BY SizeAssumption DEF Init
  <2>4. QED
    BY <2>1, <2>2, <2>3 DEF Init, TypeOK
<1>2. ErrorReturns /\ LoopHasFrame
  BY DEF Init, ErrorReturns, LoopHasFrame
<1>3. LevelIsDepth
  <2>1. Len(frames) = 0 /\ level = 0 /\ pc \in Inside
    BY DEF Init, Inside
  <2>2. QED
    BY <2>1 DEF LevelIsDepth
<1>4. ReservesFit
  BY DEF Init, ReservesFit
<1>5. ReservedEnough
  BY SizeAssumption DEF Init, ReservedEnough, InBounds
<1>6. QED
  BY <1>1, <1>2, <1>3, <1>4, <1>5 DEF IInv

(* The level tells how far the next item of the innermost container is     *)
(* indented, and how much its container reserved for it.                   *)
LEMMA TopReserve ==
  ASSUME IInv, pc = "iter", ~drifted
  PROVE  /\ level + 1 = Len(frames)
         /\ Top.reserve = Indentation(level + 1) + ItemSep + 1
<1>1. ~failed /\ frames # <<>>
  BY DEF IInv, ErrorReturns, LoopHasFrame
<1>2. level = Len(frames) - 1
  BY <1>1 DEF IInv, LevelIsDepth, Sound, Inside
<1>3. Len(frames) \in Nat \ {0} /\ frames \in Seq(Frame)
  BY <1>1, CallerFrames DEF IInv, TypeOK
<1>4. level + 1 = Len(frames) /\ Len(frames) \in DOMAIN frames
  BY <1>2, <1>3
<1>5. Top.reserve = Indentation(Len(frames)) + ItemSep + 1
  BY <1>1, <1>4 DEF IInv, ReservesFit, Sound, Top
<1>6. QED
  BY <1>4, <1>5

(* Every step writes no more than it, or its container, has reserved.      *)
LEMMA NextBuffer ==
  ASSUME IInv, [Next]_vars
  PROVE  size' \in Nat \ {0} /\ offset' \in Nat /\ ReservedEnough'
<1>a. TypeOK
  BY DEF IInv
<1>b. drifted \in BOOLEAN /\ (drifted => drifted')
  BY <1>a DEF TypeOK, Next, vars, Stopped, EncodeTooDeep, EncodeItem,
     EncodeName, EncodeBadName, EncodeInvalid, EncodeFixed, BeginContainer,
     BeginString, NoString, EncodeString, EncodeBadString, EncodeRaw,
     NextItem, AbandonObject, EndIter, CloseContainer, ItemDone, Unwind,
     Finish
<1>c. ItemSep \in Nat /\ KeySep \in Nat /\ FixedMax \in Nat /\ MaxLen \in Nat
      /\ indent \in Int /\ level \in Int /\ offset \in Nat
      /\ size \in Nat \ {0}
  BY <1>a, SeparatorAssumption, SizeAssumption, BoundAssumption DEF TypeOK
<1>d. Newline \in 0..1
  BY DEF Newline
(* A step that reserves n bytes and writes at most as many.                *)
<1>e. ASSUME NEW n \in Nat, NEW m \in Nat, Reserve(n), Put(m),
             ~drifted => m <= n
      PROVE  size' \in Nat \ {0} /\ offset' \in Nat /\ ReservedEnough'
  <2>1. /\ size' \in Nat \ {0} /\ offset' \in Nat
        /\ InBounds /\ m <= n => InBounds'
    BY <1>a, <1>e, PutInRoom
  <2>2. ~drifted => InBounds
    BY DEF IInv, ReservedEnough
  <2>3. QED
    BY <2>1, <2>2, <1>b, <1>e DEF ReservedEnough
(* A step that reserves and writes nothing.                                *)
<1>f. ASSUME NEW n \in Nat, Reserve(n), UNCHANGED offset
      PROVE  size' \in Nat \ {0} /\ offset' \in Nat /\ ReservedEnough'
  <2>1. Put(0)
    BY <1>f, <1>c DEF Put
  <2>2. QED
    BY <1>e, <1>f, <2>1
<1>1. CASE EncodeName
  <2>0. PICK n \in 0..MaxLen : \E written \in Escaped(n) :
             /\ Reserve(ReserveString(n) + KeySep)
             /\ Put(1 + written + 1 + KeySep)
    BY <1>1 DEF EncodeName
  <2>1. PICK written \in Escaped(n) :
             /\ Reserve(ReserveString(n) + KeySep)
             /\ Put(1 + written + 1 + KeySep)
    BY <2>0
  <2>2. /\ ReserveString(n) + KeySep \in Nat
        /\ 1 + written + 1 + KeySep \in Nat
        /\ 1 + written + 1 + KeySep <= ReserveString(n) + KeySep
    BY <1>c, <2>1 DEF Escaped, ReserveString
  <2>3. QED
    BY <2>1, <2>2, <1>e
<1>2. CASE EncodeBadName
  <2>0. PICK n \in 1..MaxLen : \E written \in 0..(6 * (n - 1)) :
             Reserve(ReserveString(n) + KeySep) /\ Put(1 + written)
    BY <1>2 DEF EncodeBadName
  <2>1. PICK written \in 0..(6 * (n - 1)) :
             Reserve(ReserveString(n) + KeySep) /\ Put(1 + written)
    BY <2>0
  <2>2. /\ ReserveString(n) + KeySep \in Nat /\ 1 + written \in Nat
        /\ 1 + written <= ReserveString(n) + KeySep
    BY <1>c, <2>1 DEF ReserveString
  <2>3. QED
    BY <2>1, <2>2, <1>e
<1>3. CASE EncodeInvalid \/ BeginString
  <2>1. Reserve(FixedMax) /\ UNCHANGED offset
    BY <1>3 DEF EncodeInvalid, BeginString
  <2>2. QED
    BY <2>1, <1>c, <1>f
<1>4. CASE EncodeFixed
  <2>1. PICK written \in 1..FixedMax : Reserve(FixedMax) /\ Put(written)
    BY <1>4 DEF EncodeFixed
  <2>2. written \in Nat /\ written <= FixedMax
    BY <2>1, <1>c
  <2>3. QED
    BY <2>1, <2>2, <1>c, <1>e
<1>5. CASE BeginContainer
  <2>1. Reserve(FixedMax) /\ Put(1) /\ 1 <= FixedMax
    BY <1>5, SizeAssumption DEF BeginContainer
  <2>2. QED
    BY <2>1, <1>c, <1>e
<1>6. CASE EncodeString
  <2>0. PICK n \in 0..MaxLen : \E written \in Escaped(n) :
             Reserve(ReserveString(n)) /\ Put(1 + written + 1)
    BY <1>6 DEF EncodeString
  <2>1. PICK written \in Escaped(n) :
             Reserve(ReserveString(n)) /\ Put(1 + written + 1)
    BY <2>0
  <2>2. /\ ReserveString(n) \in Nat /\ 1 + written + 1 \in Nat
        /\ 1 + written + 1 <= ReserveString(n)
    BY <1>c, <2>1 DEF Escaped, ReserveString
  <2>3. QED
    BY <2>1, <2>2, <1>e
<1>7. CASE EncodeBadString
  <2>0. PICK n \in 1..MaxLen : \E written \in 0..(6 * (n - 1)) :
             Reserve(ReserveString(n)) /\ Put(1 + written)
    BY <1>7 DEF EncodeBadString
  <2>1. PICK written \in 0..(6 * (n - 1)) :
             Reserve(ReserveString(n)) /\ Put(1 + written)
    BY <2>0
  <2>2. /\ ReserveString(n) \in Nat /\ 1 + written \in Nat
        /\ 1 + written <= ReserveString(n)
    BY <1>c, <2>1 DEF ReserveString
  <2>3. QED
    BY <2>1, <2>2, <1>e
<1>8. CASE EncodeRaw
  <2>1. PICK n \in 0..MaxLen : Reserve(n) /\ Put(n)
    BY <1>8 DEF EncodeRaw
  <2>2. n \in Nat /\ n <= n
    BY <2>1, <1>c
  <2>3. QED
    BY <2>1, <2>2, <1>e
<1>9. CASE NextItem
  <2> DEFINE m == (IF Top.some THEN ItemSep ELSE 0) + Newline
                  + Indentation(level + 1)
  <2>1. pc = "iter" /\ Reserve(Top.reserve) /\ Put(m)
    BY <1>9 DEF NextItem
  <2>2. Indentation(level + 1) \in Nat
    BY <1>c, IndentationType
  <2>3. m \in Nat /\ m <= Indentation(level + 1) + ItemSep + 1
    BY <1>c, <1>d, <2>2
  <2>4. Top.reserve \in Nat
    <3>1. frames \in Seq(Frame) /\ frames # <<>>
      BY <1>a, <2>1 DEF IInv, TypeOK, LoopHasFrame
    <3>2. Top \in Frame
      BY <3>1, CallerFrames
    <3>3. QED
      BY <3>2 DEF Frame
  <2>5. ~drifted => m <= Top.reserve
    BY <2>1, <2>3, TopReserve
  <2> HIDE DEF m
  <2>6. QED
    BY <2>1, <2>3, <2>4, <2>5, <1>e
<1>10. CASE AbandonObject
  <2>1. pc = "iter" /\ Reserve(Top.reserve) /\ UNCHANGED offset
    BY <1>10 DEF AbandonObject
  <2>2. Top.reserve \in Nat
    <3>1. frames \in Seq(Frame) /\ frames # <<>>
      BY <1>a, <2>1 DEF IInv, TypeOK, LoopHasFrame
    <3>2. Top \in Frame
      BY <3>1, CallerFrames
    <3>3. QED
      BY <3>2 DEF Frame
  <2>3. QED
    BY <2>1, <2>2, <1>f
<1>11. CASE EndIter
  <2>1. CASE Top.some /\ indent > 0
    <3>1. /\ Reserve(Indentation(level) + 1)
          /\ Put(Newline + Indentation(level))
      BY <1>11, <2>1 DEF EndIter
    <3>2. Indentation(level) \in Nat
      BY <1>c, IndentationType
    <3>3. /\ Indentation(level) + 1 \in Nat
          /\ Newline + Indentation(level) \in Nat
          /\ Newline + Indentation(level) <= Indentation(level) + 1
      BY <3>2, <1>d
    <3>4. QED
      BY <3>1, <3>3, <1>e
  <2>2. CASE ~(Top.some /\ indent > 0)
    <3>1. UNCHANGED <<offset, size, drifted>>
      BY <1>11, <2>2 DEF EndIter
    <3>2. QED
      BY <3>1, <1>c DEF IInv, ReservedEnough, InBounds
  <2>3. QED
    BY <2>1, <2>2
<1>12. CASE CloseContainer
  <2>1. Reserve(1) /\ Put(1)
    BY <1>12 DEF CloseContainer
  <2>2. QED
    BY <2>1, <1>e
<1>13. CASE UNCHANGED <<offset, size>>
  BY <1>13, <1>b, <1>c DEF IInv, ReservedEnough, InBounds
<1>14. QED
  BY <1>1, <1>2, <1>3, <1>4, <1>5, <1>6, <1>7, <1>8, <1>9, <1>10, <1>11,
     <1>12, <1>13
  DEF Next, vars, Stopped, EncodeTooDeep, EncodeItem, NoString, ItemDone,
      Unwind, Finish

(* The other variables keep their types, and an error only unwinds.        *)
LEMMA NextControl ==
  ASSUME IInv, [Next]_vars
  PROVE  /\ indent' = indent /\ indent' \in Int
         /\ pc' \in {"encode", "value", "string", "raw", "iter", "close",
                     "return", "done"}
         /\ level' \in Int /\ nodes' \in Nat
         /\ failed' \in BOOLEAN /\ drifted' \in BOOLEAN
         /\ ErrorReturns'
<1>a. /\ indent \in Int /\ level \in Int /\ nodes \in Nat
      /\ failed \in BOOLEAN /\ drifted \in BOOLEAN
      /\ pc \in {"encode", "value", "string", "raw", "iter", "close",
                 "return", "done"}
      /\ failed => pc \in {"return", "done"}
  BY DEF IInv, TypeOK, ErrorReturns
<1>1. indent' = indent
  BY DEF Next, vars, Stopped, EncodeTooDeep, EncodeItem, EncodeName,
      EncodeBadName, EncodeInvalid, EncodeFixed, BeginContainer, BeginString,
      NoString, EncodeString, EncodeBadString, EncodeRaw, NextItem,
      AbandonObject, EndIter, CloseContainer, ItemDone, Unwind, Finish
<1>2. level' \in {level - 1, level, level + 1}
  BY <1>a, Zenon
  DEF Leave, Next, vars, Stopped, EncodeTooDeep, EncodeItem, EncodeName,
      EncodeBadName, EncodeInvalid, EncodeFixed, BeginContainer, BeginString,
      NoString, EncodeString, EncodeBadString, EncodeRaw, NextItem,
      AbandonObject, EndIter, CloseContainer, ItemDone, Unwind, Finish
<1>3. nodes' \in {nodes, nodes + 1}
  BY Zenon DEF Next, vars, Stopped, EncodeTooDeep, EncodeItem, EncodeName,
      EncodeBadName, EncodeInvalid, EncodeFixed, BeginContainer, BeginString,
      NoString, EncodeString, EncodeBadString, EncodeRaw, NextItem,
      AbandonObject, EndIter, CloseContainer, ItemDone, Unwind, Finish
<1>4. failed' \in {failed, TRUE} /\ drifted' \in {drifted, TRUE}
  BY Zenon DEF Next, vars, Stopped, EncodeTooDeep, EncodeItem, EncodeName,
      EncodeBadName, EncodeInvalid, EncodeFixed, BeginContainer, BeginString,
      NoString, EncodeString, EncodeBadString, EncodeRaw, NextItem,
      AbandonObject, EndIter, CloseContainer, ItemDone, Unwind, Finish
<1>5. pc' \in {"encode", "value", "string", "raw", "iter", "close", "return",
              "done"}
  BY <1>a DEF Next, vars, Stopped, EncodeTooDeep, EncodeItem, EncodeName,
      EncodeBadName, EncodeInvalid, EncodeFixed, BeginContainer, BeginString,
      NoString, EncodeString, EncodeBadString, EncodeRaw, NextItem,
      AbandonObject, EndIter, CloseContainer, ItemDone, Unwind, Finish
<1>6. failed' => pc' \in {"return", "done"}
  BY <1>a DEF Next, vars, Stopped, EncodeTooDeep, EncodeItem, EncodeName,
      EncodeBadName, EncodeInvalid, EncodeFixed, BeginContainer, BeginString,
      NoString, EncodeString, EncodeBadString, EncodeRaw, NextItem,
      AbandonObject, EndIter, CloseContainer, ItemDone, Unwind, Finish
<1>7. indent' \in Int /\ level' \in Int /\ nodes' \in Nat
  BY <1>a, <1>1, <1>2, <1>3
<1>8. failed' \in BOOLEAN /\ drifted' \in BOOLEAN
  BY <1>a, <1>4
<1>9. QED
  BY <1>1, <1>5, <1>6, <1>7, <1>8, Zenon DEF ErrorReturns

(* What a sequence of frames fits is about each of them: a step that takes *)
(* frames away, or changes the innermost one in nothing but its count,     *)
(* leaves the reservations as they were.                                   *)
LEMMA NextFrames ==
  ASSUME IInv, [Next]_vars
  PROVE  /\ frames' \in Seq(Frame)
         /\ LoopHasFrame' /\ LevelIsDepth' /\ ReservesFit'
<1>a. /\ TypeOK /\ frames \in Seq(Frame) /\ Len(frames) \in Nat
      /\ level \in Int /\ indent \in Int /\ indent' = indent
  BY NextControl DEF IInv, TypeOK
<1>b. Sound' => Sound
  BY DEF IInv, TypeOK, ErrorReturns, Sound, Next, vars, Stopped,
     EncodeTooDeep, EncodeItem, EncodeName, EncodeBadName, EncodeInvalid,
     EncodeFixed, BeginContainer, BeginString, NoString, EncodeString,
     EncodeBadString, EncodeRaw, NextItem, AbandonObject, EndIter,
     CloseContainer, ItemDone, Unwind, Finish
<1>c. \A i \in Int : Indentation(i)' = Indentation(i)
  BY <1>a DEF Indentation
(* The frames stay as they are.                                            *)
<1>d. ASSUME UNCHANGED frames PROVE ReservesFit'
  BY <1>a, <1>b, <1>c, <1>d DEF IInv, ReservesFit
(* The innermost container is left.                                        *)
<1>e. ASSUME frames # <<>>, frames' = Caller
      PROVE  /\ frames' \in Seq(Frame) /\ ReservesFit'
             /\ Len(frames') = Len(frames) - 1
  <2>1. /\ frames' \in Seq(Frame) /\ Len(frames') = Len(frames) - 1
        /\ \A i \in 1..(Len(frames) - 1) : frames'[i] = frames[i]
    BY <1>a, <1>e, CallerFrames
  <2>2. DOMAIN frames' = 1..(Len(frames) - 1) /\ DOMAIN frames = 1..Len(frames)
    BY <1>a, <2>1
  <2>3. ASSUME Sound', NEW i \in DOMAIN frames'
        PROVE  frames'[i].reserve = (Indentation(i) + ItemSep + 1)'
    <3>1. i \in DOMAIN frames /\ i \in Int /\ frames'[i] = frames[i]
      BY <1>a, <2>1, <2>2
    <3>2. frames[i].reserve = Indentation(i) + ItemSep + 1
      BY <1>b, <2>3, <3>1 DEF IInv, ReservesFit
    <3>3. QED
      BY <1>c, <3>1, <3>2
  <2>4. QED
    BY <2>1, <2>3 DEF ReservesFit
<1>1. CASE /\ UNCHANGED <<frames, level>>
           /\ pc \in Inside /\ pc' \in Inside
  BY <1>1, <1>a, <1>b, <1>d
  DEF IInv, LoopHasFrame, LevelIsDepth, Inside
<1>2. CASE EncodeTooDeep \/ EncodeBadName
  BY <1>2, <1>a, <1>d
  DEF EncodeTooDeep, EncodeBadName, LoopHasFrame, LevelIsDepth, Sound
<1>3. CASE EncodeInvalid \/ EncodeFixed \/ EncodeString \/ EncodeBadString
           \/ EncodeRaw
  <2>1. /\ UNCHANGED frames /\ level' = level - 1 /\ pc \in Inside
        /\ pc' = "return"
    BY <1>3 DEF EncodeInvalid, EncodeFixed, EncodeString, EncodeBadString,
       EncodeRaw, Leave, Inside
  <2>2. QED
    BY <2>1, <1>a, <1>b, <1>d
    DEF IInv, LoopHasFrame, LevelIsDepth, Inside
<1>4. CASE BeginContainer
  <2>1. /\ pc = "value" /\ pc' = "iter" /\ level' = level
        /\ failed' = failed /\ drifted' = drifted
        /\ \E kind \in {"array", "object"} :
             frames' = Append(frames, [kind |-> kind, reserve |-> ItemReserve,
                                       some |-> FALSE])
    BY <1>4 DEF BeginContainer
  <2>2. PICK kind \in {"array", "object"} :
             frames' = Append(frames, [kind |-> kind, reserve |-> ItemReserve,
                                       some |-> FALSE])
    BY <2>1
  <2> DEFINE f == [kind |-> kind, reserve |-> ItemReserve, some |-> FALSE]
  <2>3. ItemReserve \in Nat
    <3>1. indent \in Int /\ level + 1 \in Int
      BY <1>a
    <3>2. Indentation(level + 1) \in Nat
      BY <3>1, IndentationType
    <3>3. QED
      BY <3>2, SeparatorAssumption DEF ItemReserve
  <2>4. f \in Frame /\ f.reserve = ItemReserve
    BY <2>3 DEF Frame
  <2> HIDE DEF f
  <2>5. frames' = Append(frames, f)
    BY <2>2 DEF f
  <2>6. /\ frames' \in Seq(Frame) /\ frames' # <<>>
        /\ Len(frames') = Len(frames) + 1
        /\ frames'[Len(frames) + 1] = f
        /\ \A i \in 1..Len(frames) : frames'[i] = frames[i]
    BY <1>a, <2>4, <2>5
  <2>7. Sound => level = Len(frames)
    BY <2>1 DEF IInv, LevelIsDepth, Inside
  <2>8. LoopHasFrame' /\ LevelIsDepth'
    BY <1>a, <1>b, <2>1, <2>6, <2>7 DEF LoopHasFrame, LevelIsDepth, Inside
  <2>9. ASSUME Sound', NEW i \in DOMAIN frames'
        PROVE  frames'[i].reserve = (Indentation(i) + ItemSep + 1)'
    <3>1. i \in 1..(Len(frames) + 1)
      BY <1>a, <2>6
    <3>2. CASE i = Len(frames) + 1
      <4>1. i = level + 1 /\ i \in Int
        BY <1>a, <1>b, <2>7, <2>9, <3>2
      <4>2. frames'[i].reserve = Indentation(level + 1) + ItemSep + 1
        BY <2>4, <2>6, <3>2 DEF ItemReserve
      <4>3. QED
        BY <1>c, <4>1, <4>2
    <3>3. CASE i # Len(frames) + 1
      <4>1. i \in 1..Len(frames) /\ i \in Int /\ i \in DOMAIN frames
        BY <1>a, <3>1, <3>3
      <4>2. frames[i].reserve = Indentation(i) + ItemSep + 1
        BY <1>b, <2>9, <4>1 DEF IInv, ReservesFit
      <4>3. QED
        BY <1>c, <2>6, <4>1, <4>2
    <3>4. QED
      BY <3>2, <3>3
  <2>10. QED
    BY <2>6, <2>8, <2>9 DEF ReservesFit
<1>5. CASE NoString
  BY <1>5, <1>a, <1>d DEF NoString, LoopHasFrame, LevelIsDepth, Sound
<1>6. CASE NextItem
  <2>1. /\ UNCHANGED frames /\ level' = level + 1 /\ pc = "iter"
        /\ pc' = "encode"
    BY <1>6 DEF NextItem
  <2>2. QED
    BY <2>1, <1>a, <1>b, <1>d
    DEF IInv, LoopHasFrame, LevelIsDepth, Inside
<1>7. CASE AbandonObject \/ CloseContainer
  <2>1. /\ frames # <<>> /\ frames' = Caller /\ level' = level - 1
        /\ pc \in {"iter", "close"} /\ pc' = "return"
    BY <1>7 DEF IInv, LoopHasFrame, AbandonObject, CloseContainer, Leave
  <2>2. QED
    BY <2>1, <1>a, <1>b, <1>e
    DEF IInv, LoopHasFrame, LevelIsDepth, Inside
<1>8. CASE EndIter
  <2>1. /\ UNCHANGED <<frames, level>> /\ pc = "iter" /\ pc' = "close"
    BY <1>8 DEF EndIter
  <2>2. QED
    BY <2>1, <1>a, <1>b, <1>d
    DEF IInv, LoopHasFrame, LevelIsDepth, Inside
<1>9. CASE ItemDone
  <2>1. /\ frames # <<>> /\ level' = level
        /\ pc = "return" /\ pc' = "iter"
        /\ frames' = Append(Caller, [Top EXCEPT !.some = TRUE])
    BY <1>9 DEF ItemDone
  <2> DEFINE f == [Top EXCEPT !.some = TRUE]
  <2>2. /\ Caller \in Seq(Frame) /\ Len(Caller) = Len(frames) - 1
        /\ \A i \in 1..(Len(frames) - 1) : Caller[i] = frames[i]
        /\ Top \in Frame /\ Len(frames) \in Nat \ {0}
    BY <1>a, <2>1, CallerFrames
  <2>3. f \in Frame /\ f.reserve = Top.reserve
    BY <2>2 DEF Frame
  <2> HIDE DEF f
  <2>4. frames' = Append(Caller, f)
    BY <2>1 DEF f
  <2>5. /\ frames' \in Seq(Frame) /\ frames' # <<>>
        /\ Len(frames') = Len(frames)
        /\ frames'[Len(frames)] = f
        /\ \A i \in 1..(Len(frames) - 1) : frames'[i] = Caller[i]
    BY <2>2, <2>3, <2>4
  <2>6. LoopHasFrame' /\ LevelIsDepth'
    BY <1>a, <1>b, <2>1, <2>5
    DEF IInv, LoopHasFrame, LevelIsDepth, Inside
  <2>7. ASSUME Sound', NEW i \in DOMAIN frames'
        PROVE  frames'[i].reserve = (Indentation(i) + ItemSep + 1)'
    <3>1. i \in DOMAIN frames /\ i \in Int /\ i \in 1..Len(frames)
      BY <1>a, <2>5
    <3>2. frames'[i].reserve = frames[i].reserve
      <4>1. CASE i = Len(frames)
        BY <2>3, <2>5, <4>1 DEF Top
      <4>2. CASE i # Len(frames)
        BY <2>2, <2>5, <3>1, <4>2
      <4>3. QED
        BY <4>1, <4>2
    <3>3. frames[i].reserve = Indentation(i) + ItemSep + 1
      BY <1>b, <2>7, <3>1 DEF IInv, ReservesFit
    <3>4. QED
      BY <1>c, <3>1, <3>2, <3>3
  <2>8. QED
    BY <2>5, <2>6, <2>7 DEF ReservesFit
<1>10. CASE Unwind
  <2>1. frames # <<>> /\ frames' = Caller /\ failed' /\ pc' = "return"
    BY <1>10 DEF Unwind
  <2>2. QED
    BY <2>1, <1>e DEF LoopHasFrame, LevelIsDepth, Sound
<1>11. CASE Finish
  <2>1. /\ UNCHANGED <<frames, level>> /\ pc = "return" /\ pc' = "done"
    BY <1>11 DEF Finish
  <2>2. QED
    BY <2>1, <1>a, <1>b, <1>d
    DEF IInv, LoopHasFrame, LevelIsDepth, Inside
<1>12. CASE UNCHANGED vars
  BY <1>12, <1>a, <1>b, <1>d
  DEF IInv, vars, LoopHasFrame, LevelIsDepth, Inside
<1>13. ASSUME EncodeItem \/ EncodeName \/ BeginString
       PROVE  /\ UNCHANGED <<frames, level>>
              /\ pc \in Inside /\ pc' \in Inside
  BY <1>13 DEF EncodeItem, EncodeName, BeginString, Inside
<1>14. QED
  BY <1>1, <1>2, <1>3, <1>4, <1>5, <1>6, <1>7, <1>8, <1>9, <1>10, <1>11,
     <1>12, <1>13
  DEF Next, Stopped

(* The invariant holds in every run of encode.                             *)
LEMMA Inductive == Spec => []IInv
<1>1. IInv /\ [Next]_vars => IInv'
  BY NextBuffer, NextControl, NextFrames DEF IInv, TypeOK
<1>2. QED
  BY InitIInv, <1>1, PTL DEF Spec

(* Every variable has its type in every run of encode, whatever the        *)
(* indentation, the separators and the size of the buffer.                 *)
THEOREM BufferTypeCorrect == Spec => []TypeOK
<1>1. IInv => TypeOK
  BY DEF IInv
<1>2. QED
  BY Inductive, <1>1, PTL

(* What encode reserves covers what it appends: the text never reaches     *)
(* beyond the end of the buffer unless getStringValue has returned NULL.   *)
THEOREM ReservedCorrect == Spec => []ReservedEnough
<1>1. IInv => ReservedEnough
  BY DEF IInv
<1>2. QED
  BY Inductive, <1>1, PTL

(* The reservation of a container is still right for its next item,        *)
(* whatever was encoded since it was computed.                             *)
THEOREM ReserveStaysCorrect == Spec => []ReserveIsCurrent
<1>1. IInv => ReserveIsCurrent
  BY TopReserve DEF ReserveIsCurrent, ItemReserve
<1>2. QED
  BY Inductive, <1>1, PTL
==============================================================================
