----------------------------- MODULE EncoderProofs -----------------------------
(***************************************************************************)
(* Proofs about Encoder: what holds of dumps for every limit of recursion, *)
(* every size of the containers and every number of them, on both ABIs     *)
(* and with whatever failures are allowed, unless the theorem says so.     *)
(*                                                                         *)
(* The invariants about what is written speak of frames, level and text;   *)
(* how many handles and contexts are out is accounted for after them, as a *)
(* running total over the frames.                                          *)
(***************************************************************************)
EXTENDS Encoder, SequenceTheorems, TLAPS

Text == [open : Seq({"[", "{"}), last : Token \cup {"start"}, garbled : BOOLEAN]

Types ==
  /\ pc \in {"encode", "iter", "return", "done", "undefined"}
  /\ frames \in Seq(Frame)
  /\ level \in Int
  /\ errorMsg \in {"none", "too_deep", "bad_name", "invalid", "refused"}
  /\ text \in Text

(* Where there has to be a frame, and who speaks of an outcome.            *)
Shape ==
  /\ pc = "iter" => frames # <<>>
  /\ pc = "done" => frames = <<>>
  /\ outcome # "none" => pc = "done"

(* An error is on its way back.                                            *)
ErrorReturns == errorMsg # "none" => pc \in {"return", "done"}

(* Whatever forgets to restore the level leaves it too high.               *)
LevelAbove ==
  /\ pc = "encode" => level >= Len(frames)
  /\ pc \in {"iter", "return"} => level >= Len(frames) - 1

IInv == Types /\ Shape /\ ErrorReturns /\ LevelAbove /\ RecursionBound

(***************************************************************************)
(* The stack of frames.                                                    *)
(***************************************************************************)
LEMMA CallerFrames ==
  ASSUME frames \in Seq(Frame), frames # <<>>
  PROVE  /\ Len(frames) \in Nat /\ Len(frames) >= 1
         /\ Top \in Frame
         /\ Caller \in Seq(Frame)
         /\ Len(Caller) = Len(frames) - 1
         /\ \A i \in 1..(Len(frames) - 1) : Caller[i] = frames[i]
<1>1. Len(frames) \in Nat /\ Len(frames) >= 1
  OBVIOUS
<1>2. Top \in Frame
  BY <1>1 DEF Top
<1>3. \A i \in 1..(Len(frames) - 1) : frames[i] \in Frame
  BY <1>1
<1>4. /\ Caller \in Seq(Frame)
      /\ Len(Caller) = IF 1 <= Len(frames) - 1 THEN Len(frames) - 1 - 1 + 1 ELSE 0
      /\ \A i \in 1..(Len(frames) - 1 - 1 + 1) : Caller[i] = frames[1 + i - 1]
  BY <1>1, <1>3, SubSeqProperties DEF Caller
<1>5. Len(Caller) = Len(frames) - 1
  <2>1. PICK n \in Nat : n = Len(frames) /\ n >= 1
    BY <1>1
  <2>2. (IF 1 <= n - 1 THEN n - 1 - 1 + 1 ELSE 0) = n - 1
    BY <2>1
  <2>3. QED
    BY <2>1, <2>2, <1>4, Zenon
<1>6. ASSUME NEW i \in 1..(Len(frames) - 1) PROVE Caller[i] = frames[i]
  <2>1. 1 + i - 1 = i /\ i \in 1..(Len(frames) - 1 - 1 + 1)
    BY <1>1
  <2>2. QED
    BY <1>4, <2>1
<1>7. Caller \in Seq(Frame)
  BY <1>4
<1>8. QED
  BY <1>1, <1>2, <1>5, <1>6, <1>7

(* A change of the innermost frame.                                        *)
LEMMA ChangedTop ==
  ASSUME frames \in Seq(Frame), frames # <<>>, NEW f \in Frame
  PROVE  /\ WithTop(f) \in Seq(Frame)
         /\ WithTop(f) # <<>>
         /\ Len(WithTop(f)) = Len(frames)
         /\ WithTop(f)[Len(frames)] = f
         /\ \A i \in 1..(Len(frames) - 1) : WithTop(f)[i] = frames[i]
<1> DEFINE c == Caller
<1>1. /\ c \in Seq(Frame) /\ Len(c) = Len(frames) - 1 /\ Len(frames) \in Nat
      /\ \A i \in 1..(Len(frames) - 1) : c[i] = frames[i]
  BY CallerFrames
<1> HIDE DEF c
<1>2. /\ Append(c, f) \in Seq(Frame) /\ Append(c, f) # <<>>
      /\ Len(Append(c, f)) = Len(frames)
      /\ Append(c, f)[Len(frames)] = f
      /\ \A i \in 1..(Len(frames) - 1) : Append(c, f)[i] = frames[i]
  BY <1>1
<1>3. QED
  BY <1>2 DEF WithTop, c

(* The same containers are open and as many of them have written an item:  *)
(* what the user's code and the fetching of an item leave.                 *)
SameShape(fs) ==
  /\ fs \in Seq(Frame) /\ Len(fs) = Len(frames)
  /\ \A i \in 1..Len(frames) :
       fs[i].type = frames[i].type /\ fs[i].some = frames[i].some

(* The user's code shrinks containers and does nothing else to them.       *)
LEMMA UserKeepsShape ==
  ASSUME frames \in Seq(Frame), NEW called \in BOOLEAN, NEW fs \in AfterUser(called)
  PROVE  SameShape(fs)
<1>1. CASE fs = frames
  BY <1>1 DEF SameShape
<1>2. CASE fs # frames
  <2>1. PICK i \in DOMAIN frames : \E n \in 0..(frames[i].there - 1) :
          fs = [frames EXCEPT ![i].there = n]
    BY <1>2 DEF AfterUser
  <2>2. PICK n \in 0..(frames[i].there - 1) : fs = [frames EXCEPT ![i].there = n]
    BY <2>1
  <2>3. i \in 1..Len(frames) /\ frames[i] \in Frame
    OBVIOUS
  <2> DEFINE f == [frames[i] EXCEPT !.there = n]
  <2>4. n \in Nat
    BY <2>3 DEF Frame
  <2>5. f \in Frame /\ f.type = frames[i].type /\ f.some = frames[i].some
    BY <2>3, <2>4 DEF Frame
  <2>6. fs = [frames EXCEPT ![i] = f]
    BY <2>2
  <2> HIDE DEF f
  <2>7. fs \in Seq(Frame) /\ Len(fs) = Len(frames) /\ fs[i] = f
        /\ \A j \in 1..Len(frames) : j # i => fs[j] = frames[j]
    BY <2>3, <2>5, <2>6, ExceptSeq
  <2>8. QED
    BY <2>5, <2>7 DEF SameShape
<1>3. QED
  BY <1>1, <1>2

(* A change of the innermost frame that keeps its type and its some.       *)
LEMMA TopKeepsShape ==
  ASSUME frames \in Seq(Frame), frames # <<>>, NEW f \in Frame,
         f.type = Top.type, f.some = Top.some
  PROVE  SameShape(WithTop(f))
<1>1. /\ WithTop(f) \in Seq(Frame)
      /\ Len(WithTop(f)) = Len(frames) /\ Len(frames) \in Nat
      /\ WithTop(f)[Len(frames)] = f
      /\ \A i \in 1..(Len(frames) - 1) : WithTop(f)[i] = frames[i]
  BY ChangedTop
<1>2. ASSUME NEW i \in 1..Len(frames)
      PROVE  WithTop(f)[i].type = frames[i].type /\ WithTop(f)[i].some = frames[i].some
  <2>1. CASE i = Len(frames)
    BY <1>1, <2>1 DEF Top
  <2>2. CASE i \in 1..(Len(frames) - 1)
    BY <1>1, <2>2
  <2>3. QED
    BY <1>1, <2>1, <2>2
<1>3. QED
  BY <1>1, <1>2 DEF SameShape

(***************************************************************************)
(* The text.                                                               *)
(***************************************************************************)

(* Without its last element a sequence is a sequence.                      *)
LEMMA ButLast ==
  ASSUME NEW S, NEW s \in Seq(S), s # <<>>
  PROVE  /\ SubSeq(s, 1, Len(s) - 1) \in Seq(S)
         /\ Len(SubSeq(s, 1, Len(s) - 1)) = Len(s) - 1
         /\ \A i \in 1..(Len(s) - 1) : SubSeq(s, 1, Len(s) - 1)[i] = s[i]
<1>1. PICK n \in Nat : n = Len(s) - 1 /\ \A i \in 1..n : s[i] \in S
  OBVIOUS
<1>2. /\ SubSeq(s, 1, n) \in Seq(S)
      /\ Len(SubSeq(s, 1, n)) = IF 1 <= n THEN n - 1 + 1 ELSE 0
      /\ \A i \in 1..(n - 1 + 1) : SubSeq(s, 1, n)[i] = s[1 + i - 1]
  BY <1>1, SubSeqProperties
<1>3. (IF 1 <= n THEN n - 1 + 1 ELSE 0) = n
  BY <1>1
<1>4. ASSUME NEW i \in 1..n PROVE SubSeq(s, 1, n)[i] = s[i]
  <2>1. 1 + i - 1 = i /\ i \in 1..(n - 1 + 1)
    BY <1>1
  <2>2. QED
    BY <1>2, <2>1
<1>5. QED
  BY <1>1, <1>2, <1>3, <1>4

(* What a token leaves of the text.                                        *)
LEMMA WriteText ==
  ASSUME NEW t \in Text, NEW token \in Token
  PROVE  Write(t, token) \in Text
<1>1. t.open \in Seq({"[", "{"})
  BY DEF Text
<1>2. ASSUME NEW o \in Seq({"[", "{"}), NEW l \in Token \cup {"start"},
             NEW g \in BOOLEAN
      PROVE  [open |-> o, last |-> l, garbled |-> g] \in Text
  BY DEF Text
<1>3. token \in {"[", "{"} => Append(t.open, token) \in Seq({"[", "{"})
  <2>1. ASSUME NEW S, NEW s \in Seq(S), NEW e \in S PROVE Append(s, e) \in Seq(S)
    OBVIOUS
  <2>2. QED
    BY <1>1, <2>1, Zenon
<1>4. SubSeq(t.open, 1, Len(t.open) - 1) \in Seq({"[", "{"}) \/ t.open = <<>>
  BY <1>1, ButLast
<1> DEFINE open == IF token \in {"[", "{"} THEN Append(t.open, token)
                   ELSE IF token \in {"]", "}"} /\ t.open # <<>>
                     THEN SubSeq(t.open, 1, Len(t.open) - 1) ELSE t.open
           last == IF token \in {"]", "}"} THEN "value" ELSE token
           garbled == t.garbled \/ ~Allowed(t, token)
<1>5. open \in Seq({"[", "{"})
  BY <1>1, <1>3, <1>4
<1>6. last \in Token \cup {"start"}
  <2>1. "value" \in Token
    BY DEF Token
  <2>2. QED
    BY <2>1
<1>7. garbled \in BOOLEAN
  OBVIOUS
<1>8. Write(t, token) = [open |-> open, last |-> last, garbled |-> garbled]
  BY DEF Write
<1> HIDE DEF open, last, garbled
<1>9. QED
  BY <1>2, <1>5, <1>6, <1>7, <1>8, Zenon

(***************************************************************************)
(* A step is of one of eight kinds.  What follows is proved of the kinds,  *)
(* which keep of the actions what the properties depend on.                *)
(***************************************************************************)
Messages == {"none", "too_deep", "bad_name", "invalid", "refused"}
Bracket(f) == IF f.type = "dict" THEN "{" ELSE "["
Closing(f) == IF f.type = "dict" THEN "}" ELSE "]"
SomeRaised == raised # "none"

(* encode returns without having opened a container.                       *)
Returning ==
  /\ pc = "encode" /\ pc' = "return"
  /\ SameShape(frames')
  /\ level' \in {level, level - 1}
  /\ errorMsg' \in Messages
  /\ errorMsg' = "none" =>
       /\ errorMsg = "none"
       /\ level' = level - 1 \/ "string" \in Faults
       /\ \/ (SomeRaised' <=> SomeRaised) /\ text' = Write(text, "value")
          \/ SomeRaised' /\ ("string" \in Faults \/ "float" \in Faults)
  /\ text' \in {text, Write(text, "value")}
  /\ SomeRaised => SomeRaised'
  /\ outcome' = outcome

(* encode opens a container.                                               *)
Opening ==
  /\ pc = "encode" /\ pc' = "iter" /\ ~TooDeep
  /\ \E fs, f : /\ SameShape(fs) /\ f \in Frame /\ f.some = FALSE
                /\ frames' = Append(fs, f)
                /\ text' = Write(text, Bracket(f))
  /\ SomeRaised' <=> SomeRaised
  /\ UNCHANGED <<level, errorMsg, outcome>>

(* iterNext goes on to an item, or says so.                                *)
Fetching ==
  /\ pc = "iter" /\ pc' = "encode"
  /\ SameShape(frames')
  /\ level' = level + 1
  /\ text' = IF Top.type = "dict" THEN Write(Separate(text, Top), "key")
                                  ELSE Separate(text, Top)
  /\ SomeRaised => SomeRaised'
  /\ SomeRaised' => SomeRaised \/ Abi = "universal"
  /\ SomeRaised' \/ Top'.fetched
  /\ UNCHANGED <<errorMsg, outcome>>

(* An item was written.                                                    *)
Counting ==
  /\ pc = "return" /\ pc' = "iter" /\ frames # <<>> /\ errorMsg = "none"
  /\ frames' = WithTop([Top EXCEPT !.some = TRUE])
  /\ UNCHANGED <<level, errorMsg, text, raised, outcome>>

(* A container is left: as it should, after an error, or abandoned.        *)
Leaving ==
  /\ pc \in {"iter", "return"} /\ pc' = "return" /\ frames # <<>>
  /\ pc = "return" => errorMsg # "none"
  /\ frames' = Caller
  /\ level' = level - 1
  /\ text' \in {text, Write(text, Closing(Top))}
  /\ \/ text' = Write(text, Closing(Top)) /\ (SomeRaised' <=> SomeRaised)
     \/ (SomeRaised' <=> SomeRaised) /\ (errorMsg # "none" \/ (Abi = "cpython" /\ SortKeys))
     \/ SomeRaised' /\ (Abi = "universal" \/ "key" \in Faults)
  /\ SomeRaised => SomeRaised'
  /\ UNCHANGED <<errorMsg, outcome>>

(* dumps returns.                                                          *)
Ending ==
  /\ pc = "return" /\ pc' = "done" /\ frames = <<>>
  /\ outcome' = "text" => errorMsg = "none"
  /\ UNCHANGED <<frames, level, errorMsg, text, raised>>

(* The iteration reads what is not there.                                  *)
Halting ==
  /\ pc = "iter" /\ pc' = "undefined"
  /\ UNCHANGED <<frames, level, errorMsg, text, raised, outcome>>

Still == UNCHANGED <<pc, frames, level, errorMsg, text, raised, outcome>>

(* Values, refusals and failures return.                                   *)
LEMMA ReturningSteps ==
  ASSUME Types, \/ EncodeTooDeep \/ EncodeBadName \/ EncodeInvalid \/ EncodeValue
                \/ EncodeBadFloat \/ EncodeRefused \/ EncodeNoString
  PROVE  Returning
<1>1. frames \in Seq(Frame) /\ errorMsg \in Messages
  BY DEF Types, Messages
<1>2. SameShape(frames)
  BY <1>1 DEF SameShape
<1>3. CASE EncodeTooDeep
  BY <1>3, <1>2 DEF EncodeTooDeep, Returning, Messages, SomeRaised
<1>4. CASE EncodeBadName
  BY <1>4, <1>2 DEF EncodeBadName, Returning, Messages, SomeRaised
<1>5. CASE EncodeInvalid
  <2>1. SameShape(frames')
    BY <1>1, <1>2, <1>5, UserKeepsShape DEF EncodeInvalid
  <2>2. QED
    BY <1>5, <2>1 DEF EncodeInvalid, Invalid, Returning, Messages, SomeRaised
<1>6. CASE EncodeValue
  <2>1. SameShape(frames')
    BY <1>1, <1>6, UserKeepsShape DEF EncodeValue, Begin
  <2>2. QED
    BY <1>1, <1>6, <2>1 DEF EncodeValue, Begin, Returning, Kept, SomeRaised
<1>7. CASE EncodeBadFloat
  <2>1. SameShape(frames')
    BY <1>1, <1>7, UserKeepsShape DEF EncodeBadFloat, Begin
  <2>2. QED
    BY <1>1, <1>7, <2>1 DEF EncodeBadFloat, Begin, Returning, SomeRaised
<1>8. CASE EncodeRefused
  <2>1. SameShape(frames')
    <3>1. PICK d \in Chain : frames' \in AfterUser(d > 0)
      BY <1>8 DEF EncodeRefused
    <3>2. (d > 0) \in BOOLEAN
      OBVIOUS
    <3>3. QED
      BY <1>1, <3>1, <3>2, UserKeepsShape
  <2>2. QED
    BY <1>1, <1>8, <2>1
       DEF EncodeRefused, Begin, Returning, Messages, Kept, SomeRaised
<1>9. CASE EncodeNoString
  <2>1. SameShape(frames')
    BY <1>1, <1>9, UserKeepsShape DEF EncodeNoString, Begin
  <2>2. QED
    BY <1>1, <1>9, <2>1 DEF EncodeNoString, Begin, Returning, SomeRaised
<1>10. QED
  BY <1>3, <1>4, <1>5, <1>6, <1>7, <1>8, <1>9

(* Arrays, dicts and what toDict returned open a container.                *)
LEMMA OpeningSteps ==
  ASSUME Types, BeginArray \/ BeginObject
  PROVE  Opening
<1>1. PICK type \in {"list", "tuple", "dict"}, n \in 0..MaxSize, d \in Chain :
        Begin /\ BeginContainer(type, n, d)
  BY DEF BeginArray, BeginObject
<1> DEFINE keys == type = "dict" /\ KeyList
           frame == [type |-> type, index |-> 0, size |-> n, there |-> n,
                     some |-> FALSE, item |-> FALSE, name |-> FALSE,
                     newObj |-> d > 0 \/ keys, fetched |-> FALSE]
<1>2. PICK fs \in AfterUser(d > 0 \/ keys) : frames' = Append(fs, frame)
  BY <1>1 DEF BeginContainer
<1>3. SameShape(fs)
  <2>1. (d > 0 \/ keys) \in BOOLEAN
    OBVIOUS
  <2>2. QED
    BY <1>2, <2>1, UserKeepsShape DEF Types
<1>4. frame \in Frame /\ frame.some = FALSE /\ frame.type = type
  <2>1. n \in Nat
    BY BoundAssumption
  <2>2. ASSUME NEW b \in BOOLEAN
        PROVE  LET f == [type |-> type, index |-> 0, size |-> n, there |-> n,
                         some |-> FALSE, item |-> FALSE, name |-> FALSE,
                         newObj |-> b, fetched |-> FALSE]
               IN  f \in Frame /\ f.some = FALSE /\ f.type = type
    BY <2>1 DEF Frame
  <2>3. (d > 0 \/ keys) \in BOOLEAN
    OBVIOUS
  <2> HIDE DEF keys
  <2>4. QED
    BY <2>2, <2>3, Zenon
<1>5. text' = Write(text, Bracket(frame))
  BY <1>1, <1>4 DEF BeginContainer, Bracket
<1> HIDE DEF frame
<1>6. QED
  BY <1>1, <1>2, <1>3, <1>4, <1>5
     DEF Opening, Begin, BeginContainer, Kept, SomeRaised

(* iterNext with and without an item to give.                              *)
LEMMA FetchingSteps ==
  ASSUME Types, Shape, \/ FetchItem \/ FetchMissing \/ FetchMember
  PROVE  Fetching \/ Halting
<1>1. frames \in Seq(Frame) /\ frames # <<>>
  BY DEF Types, Shape, FetchItem, FetchMissing, FetchMember
<1>2. Top \in Frame
  BY <1>1, CallerFrames
<1>3. CASE FetchItem
  <2> DEFINE f == [Top EXCEPT !.index = NextIndex(Top), !.item = TRUE, !.fetched = TRUE]
  <2>1. f \in Frame /\ f.type = Top.type /\ f.some = Top.some /\ f.fetched
    <3>1. ASSUME NEW g \in Frame, NEW n \in Nat
          PROVE  LET h == [g EXCEPT !.index = n, !.item = TRUE, !.fetched = TRUE]
                 IN  /\ h \in Frame /\ h.type = g.type /\ h.some = g.some
                     /\ h.fetched
      BY DEF Frame
    <3>2. NextIndex(Top) \in Nat
      BY <1>2 DEF Frame, NextIndex
    <3>3. QED
      BY <1>2, <3>1, <3>2, Zenon
  <2>2. frames' = WithTop(f)
    BY <1>3 DEF FetchItem
  <2> HIDE DEF f
  <2>3. SameShape(frames')
    BY <1>1, <2>1, <2>2, TopKeepsShape
  <2>4. Top'.fetched
    BY <1>1, <2>1, <2>2, ChangedTop DEF Top
  <2>5. QED
    BY <1>3, <2>3, <2>4 DEF FetchItem, Fetching, SomeRaised
<1>4. CASE FetchMissing /\ Abi = "cpython"
  BY <1>4 DEF FetchMissing, Halting
<1>5. CASE FetchMissing /\ Abi # "cpython"
  <2> DEFINE f == [Top EXCEPT !.fetched = FALSE]
  <2>1. f \in Frame /\ f.type = Top.type /\ f.some = Top.some
    BY <1>2 DEF Frame
  <2>2. frames' = WithTop(f)
    BY <1>5 DEF FetchMissing
  <2> HIDE DEF f
  <2>3. SameShape(frames')
    BY <1>1, <2>1, <2>2, TopKeepsShape
  <2>4. QED
    BY <1>5, <2>3, AbiAssumption DEF FetchMissing, Fetching, SomeRaised
<1>6. CASE FetchMember
  <2> DEFINE f == [Top EXCEPT !.index = NextIndex(Top), !.name = TRUE,
                              !.item = TRUE, !.fetched = TRUE]
  <2>1. f \in Frame /\ f.type = Top.type /\ f.some = Top.some /\ f.fetched
    <3>1. ASSUME NEW g \in Frame, NEW n \in Nat
          PROVE  LET h == [g EXCEPT !.index = n, !.name = TRUE, !.item = TRUE,
                                    !.fetched = TRUE]
                 IN  /\ h \in Frame /\ h.type = g.type /\ h.some = g.some
                     /\ h.fetched
      BY DEF Frame
    <3>2. NextIndex(Top) \in Nat
      BY <1>2 DEF Frame, NextIndex
    <3>3. QED
      BY <1>2, <3>1, <3>2, Zenon
  <2>2. frames' = WithTop(f)
    BY <1>6 DEF FetchMember
  <2> HIDE DEF f
  <2>3. SameShape(frames')
    BY <1>1, <2>1, <2>2, TopKeepsShape
  <2>4. Top'.fetched
    BY <1>1, <2>1, <2>2, ChangedTop DEF Top
  <2>5. QED
    BY <1>6, <2>3, <2>4 DEF FetchMember, Fetching, SomeRaised
<1>7. QED
  BY <1>3, <1>4, <1>5, <1>6

(* The three ways out of the loop over the items.                          *)
LEMMA LeavingSteps ==
  ASSUME Types, Shape, AbandonDict \/ CloseContainer \/ Unwind
  PROVE  Leaving
<1>1. frames # <<>>
  BY DEF Shape, AbandonDict, CloseContainer, Unwind
<1>2. CASE AbandonDict
  <2>1. \/ (SomeRaised' <=> SomeRaised) /\ Abi = "cpython" /\ SortKeys
        \/ SomeRaised' /\ (Abi = "universal" \/ "key" \in Faults)
    <3>1. CASE /\ Top.index >= Top.there
               /\ IF Abi = "universal" THEN Raises
                                       ELSE UNCHANGED <<pyErr, raised>>
      <4>1. Top.index \in Nat /\ Top.there \in Nat
        BY <1>1, CallerFrames DEF Types, Frame
      <4>2. KeyList
        BY <1>2, <3>1, <4>1 DEF AbandonDict, HasNext
      <4>3. QED
        BY <3>1, <4>2, AbiAssumption DEF KeyList, Raises, SomeRaised
    <3>2. CASE "key" \in Faults /\ SomeRaised'
      BY <3>2
    <3>3. QED
      BY <1>2, <3>1, <3>2 DEF AbandonDict, Raises, SomeRaised
  <2>2. SomeRaised => SomeRaised'
    BY <1>2 DEF AbandonDict, Raises, SomeRaised
  <2>3. QED
    BY <1>1, <1>2, <2>1, <2>2 DEF AbandonDict, EndContainer, Leave, Leaving
<1>3. CASE CloseContainer
  BY <1>1, <1>3
     DEF CloseContainer, EndContainer, Leave, Leaving, Closing, SomeRaised
<1>4. CASE Unwind
  BY <1>1, <1>4 DEF Unwind, Failed, EndContainer, Leave, Leaving, SomeRaised
<1>5. QED
  BY <1>2, <1>3, <1>4

(* Every step is of one of the kinds.                                      *)
LEMMA StepKinds ==
  ASSUME Types, Shape, [Next]_vars
  PROVE  \/ Returning \/ Opening \/ Fetching \/ Counting
         \/ Leaving \/ Ending \/ Halting \/ Still
<1>1. CASE \/ EncodeTooDeep \/ EncodeBadName \/ EncodeInvalid \/ EncodeValue
           \/ EncodeBadFloat \/ EncodeRefused \/ EncodeNoString
  BY <1>1, ReturningSteps
<1>2. CASE BeginArray \/ BeginObject
  BY <1>2, OpeningSteps
<1>3. CASE FetchItem \/ FetchMissing \/ FetchMember
  BY <1>3, FetchingSteps
<1>4. CASE AbandonDict \/ CloseContainer \/ Unwind
  BY <1>4, LeavingSteps
<1>5. CASE NextItem
  BY <1>5 DEF NextItem, Failed, Counting
<1>6. CASE Finish
  <2>1. outcome' = "text" => errorMsg = "none"
    BY <1>6 DEF Finish
  <2>2. QED
    BY <1>6, <2>1 DEF Finish, Ending
<1>7. CASE Stopped \/ UNCHANGED vars
  BY <1>7 DEF Stopped, vars, Still
<1>8. QED
  BY <1>1, <1>2, <1>3, <1>4, <1>5, <1>6, <1>7 DEF Next

(***************************************************************************)
(* The inductive invariant.                                                *)
(***************************************************************************)

(* The frames after the user's code or iterNext.                           *)
LEMMA SameFrames ==
  ASSUME frames \in Seq(Frame), SameShape(frames')
  PROVE  /\ frames' \in Seq(Frame) /\ Len(frames') = Len(frames)
         /\ frames' = <<>> <=> frames = <<>>
         /\ frames # <<>> => Top'.type = Top.type /\ Top'.some = Top.some
<1>1. frames' \in Seq(Frame) /\ Len(frames') = Len(frames) /\ Len(frames) \in Nat
  BY DEF SameShape
<1>2. frames' = <<>> <=> frames = <<>>
  BY <1>1
<1>3. ASSUME frames # <<>> PROVE Top'.type = Top.type /\ Top'.some = Top.some
  <2>1. Top' = frames'[Len(frames)] /\ Len(frames) \in 1..Len(frames)
    BY <1>1, <1>3 DEF Top
  <2>2. QED
    BY <2>1 DEF SameShape, Top
<1>4. QED
  BY <1>1, <1>2, <1>3

(* The frames after a container was opened.                                *)
LEMMA OpenedFrames ==
  ASSUME frames \in Seq(Frame), NEW fs, SameShape(fs), NEW f \in Frame,
         frames' = Append(fs, f)
  PROVE  /\ frames' \in Seq(Frame) /\ frames' # <<>>
         /\ Len(frames') = Len(frames) + 1 /\ Top' = f
         /\ frames'[Len(frames) + 1] = f
         /\ \A i \in 1..Len(frames) : frames'[i] = fs[i]
<1>1. fs \in Seq(Frame) /\ Len(fs) = Len(frames) /\ Len(frames) \in Nat
  BY DEF SameShape
<1>2. /\ frames' \in Seq(Frame) /\ frames' # <<>>
      /\ Len(frames') = Len(frames) + 1
      /\ frames'[Len(frames) + 1] = f
      /\ \A i \in 1..Len(frames) : frames'[i] = fs[i]
  BY <1>1
<1>3. QED
  BY <1>2 DEF Top

(* The frames after an item was written.                                   *)
LEMMA CountedFrames ==
  ASSUME frames \in Seq(Frame), frames # <<>>,
         frames' = WithTop([Top EXCEPT !.some = TRUE])
  PROVE  /\ frames' \in Seq(Frame) /\ frames' # <<>> /\ Len(frames') = Len(frames)
         /\ Top'.type = Top.type /\ Top'.some = TRUE
         /\ \A i \in 1..Len(frames) : frames'[i].type = frames[i].type
<1> DEFINE f == [Top EXCEPT !.some = TRUE]
<1>1. Top \in Frame /\ Len(frames) \in Nat /\ Top = frames[Len(frames)]
  BY CallerFrames DEF Top
<1>2. f \in Frame /\ f.type = Top.type /\ f.some = TRUE
  BY <1>1 DEF Frame
<1>3. frames' = WithTop(f)
  OBVIOUS
<1> HIDE DEF f
<1>4. /\ frames' \in Seq(Frame) /\ frames' # <<>> /\ Len(frames') = Len(frames)
      /\ frames'[Len(frames)] = f
      /\ \A i \in 1..(Len(frames) - 1) : frames'[i] = frames[i]
  <2>1. /\ WithTop(f) \in Seq(Frame) /\ WithTop(f) # <<>>
        /\ Len(WithTop(f)) = Len(frames)
        /\ WithTop(f)[Len(frames)] = f
        /\ \A i \in 1..(Len(frames) - 1) : WithTop(f)[i] = frames[i]
    BY <1>2, ChangedTop
  <2>2. QED
    BY <1>3, <2>1
<1>5. Top' = f
  <2>1. Top' = frames'[Len(frames')]
    BY DEF Top
  <2>2. QED
    BY <1>4, <2>1
<1>6. ASSUME NEW i \in 1..Len(frames) PROVE frames'[i].type = frames[i].type
  <2>1. CASE i = Len(frames)
    BY <1>1, <1>2, <1>4, <2>1
  <2>2. CASE i \in 1..(Len(frames) - 1)
    BY <1>4, <2>2
  <2>3. QED
    BY <1>1, <2>1, <2>2
<1>7. QED
  BY <1>2, <1>4, <1>5, <1>6

(* The invariant holds when dumps starts.                                  *)
LEMMA InitInv == Init => IInv
<1> SUFFICES ASSUME Init PROVE IInv
  OBVIOUS
<1>1. text \in Text
  <2>1. <<>> \in Seq({"[", "{"}) /\ "start" \in Token \cup {"start"}
    OBVIOUS
  <2>2. QED
    BY <2>1 DEF Init, Text
<1>2. Types
  BY <1>1 DEF Init, Types
<1>3. QED
  BY <1>2, RecursionAssumption
     DEF Init, IInv, Shape, ErrorReturns, LevelAbove, RecursionBound

(* Every kind of step keeps the invariant.                                 *)
LEMMA InvNext ==
  ASSUME IInv, [Next]_vars
  PROVE  IInv'
<1> USE DEF IInv
<1>1. frames \in Seq(Frame) /\ Len(frames) \in Nat /\ level \in Int
      /\ errorMsg \in Messages /\ text \in Text /\ RecursionMax \in Nat
  BY RecursionAssumption DEF Types, Messages
<1>2. ASSUME NEW token \in Token PROVE Write(text, token) \in Text
  BY <1>1, WriteText
<1>3. CASE Returning
  <2>1. text' \in Text
    BY <1>1, <1>2, <1>3 DEF Returning, Token
  <2>2. QED
    BY <1>1, <1>3, <2>1, SameFrames
       DEF Returning, Types, Shape, ErrorReturns, LevelAbove, RecursionBound,
           Messages
<1>4. CASE Opening
  <2>1. PICK fs, f : /\ SameShape(fs) /\ f \in Frame
                     /\ frames' = Append(fs, f) /\ text' = Write(text, Bracket(f))
    BY <1>4 DEF Opening
  <2>2. frames' \in Seq(Frame) /\ frames' # <<>> /\ Len(frames') = Len(frames) + 1
    BY <1>1, <2>1, OpenedFrames
  <2>3. text' \in Text
    <3>1. Bracket(f) \in Token
      BY DEF Bracket, Token
    <3>2. QED
      BY <1>2, <2>1, <3>1
  <2>4. QED
    BY <1>1, <1>4, <2>2, <2>3
       DEF Opening, TooDeep, Types, Shape, ErrorReturns, LevelAbove,
           RecursionBound, Messages
<1>5. CASE Fetching
  <2>1. text' \in Text
    <3>1. Separate(text, Top) \in Text
      BY <1>1, <1>2 DEF Separate, Token
    <3>2. Write(Separate(text, Top), "key") \in Text
      BY <3>1, WriteText DEF Token
    <3>3. QED
      BY <1>5, <3>1, <3>2 DEF Fetching
  <2>2. QED
    BY <1>1, <1>5, <2>1, SameFrames
       DEF Fetching, Types, Shape, ErrorReturns, LevelAbove, RecursionBound
<1>6. CASE Counting
  BY <1>1, <1>6, CountedFrames
     DEF Counting, Types, Shape, ErrorReturns, LevelAbove, RecursionBound
<1>7. CASE Leaving
  <2>1. text' \in Text
    <3>1. Closing(Top) \in Token
      BY DEF Closing, Token
    <3>2. QED
      BY <1>1, <1>2, <1>7, <3>1 DEF Leaving
  <2>2. Caller \in Seq(Frame) /\ Len(Caller) = Len(frames) - 1
    BY <1>1, <1>7, CallerFrames DEF Leaving
  <2>3. QED
    BY <1>1, <1>7, <2>1, <2>2
       DEF Leaving, Types, Shape, ErrorReturns, LevelAbove, RecursionBound
<1>8. CASE Ending
  BY <1>1, <1>8
     DEF Ending, Types, Shape, ErrorReturns, LevelAbove, RecursionBound
<1>9. CASE Halting
  BY <1>1, <1>9
     DEF Halting, Types, Shape, ErrorReturns, LevelAbove, RecursionBound
<1>10. CASE Still
  BY <1>1, <1>10
     DEF Still, Types, Shape, ErrorReturns, LevelAbove, RecursionBound
<1>11. QED
  BY <1>3, <1>4, <1>5, <1>6, <1>7, <1>8, <1>9, <1>10, StepKinds

(* The invariant holds of every reachable state.                           *)
LEMMA Invariant == Spec => []IInv
  BY InitInv, InvNext, PTL DEF Spec

(* Whatever is encoded, no more than recursionMax + 1 containers are open, *)
(* although getStringValue's NULL leaves enc->level too high: it is never  *)
(* too low.                                                                *)
THEOREM LimitCorrect == Spec => []RecursionBound
<1>1. IInv => RecursionBound
  BY DEF IInv
<1>2. QED
  BY <1>1, Invariant, PTL

(* Once enc->errorMsg is set encode is not entered again.                  *)
THEOREM StopsCorrect == Spec => StopsAtFirstError
<1>1. ASSUME IInv, [Next]_vars
      PROVE  [errorMsg # "none" => pc' # "encode"]_vars
  <2>1. CASE UNCHANGED vars
    BY <2>1
  <2>2. CASE ~UNCHANGED vars
    <3>1. \/ Returning \/ Opening \/ Fetching \/ Counting
          \/ Leaving \/ Ending \/ Halting \/ Still
      BY <1>1, StepKinds DEF IInv
    <3>2. QED
      BY <1>1, <3>1
         DEF IInv, ErrorReturns, Returning, Opening, Fetching, Counting,
             Leaving, Ending, Halting, Still
  <2>3. QED
    BY <2>1, <2>2
<1>2. QED
  BY <1>1, Invariant, PTL DEF Spec, StopsAtFirstError

(* Without a failing getStringValue every return of encode that goes on    *)
(* restores the level it was entered with.                                 *)
THEOREM LevelCorrect ==
  ASSUME "string" \notin Faults
  PROVE  Spec => []LevelExact
<1>1. Init => LevelExact
  <2>1. Len(<<>>) = 0
    OBVIOUS
  <2>2. QED
    BY <2>1 DEF Init, LevelExact
<1>2. ASSUME IInv, LevelExact, [Next]_vars PROVE LevelExact'
  <2>1. frames \in Seq(Frame) /\ Len(frames) \in Nat /\ level \in Int
    BY <1>2 DEF IInv, Types
  <2>2. CASE Returning
    BY <1>2, <2>1, <2>2, SameFrames DEF Returning, LevelExact
  <2>3. CASE Opening
    <3>1. PICK fs, f : SameShape(fs) /\ f \in Frame /\ frames' = Append(fs, f)
      BY <2>3 DEF Opening
    <3>2. Len(frames') = Len(frames) + 1
      BY <2>1, <3>1, OpenedFrames
    <3>3. QED
      BY <1>2, <2>1, <2>3, <3>2 DEF Opening, LevelExact
  <2>4. CASE Fetching
    BY <1>2, <2>1, <2>4, SameFrames DEF Fetching, LevelExact
  <2>5. CASE Counting
    BY <1>2, <2>1, <2>5, CountedFrames DEF Counting, LevelExact
  <2>6. CASE Leaving
    <3>1. Len(Caller) = Len(frames) - 1
      BY <2>1, <2>6, CallerFrames DEF Leaving
    <3>2. QED
      BY <1>2, <2>1, <2>6, <3>1 DEF Leaving, LevelExact
  <2>7. CASE Ending \/ Halting \/ Still
    BY <1>2, <2>7 DEF Ending, Halting, Still, LevelExact
  <2>8. QED
    BY <1>2, <2>2, <2>3, <2>4, <2>5, <2>6, <2>7, StepKinds DEF IInv
<1>3. QED
  BY <1>1, <1>2, Invariant, PTL DEF Spec

(***************************************************************************)
(* The text.                                                               *)
(***************************************************************************)
Brackets(fs) ==
  [i \in DOMAIN fs |-> IF fs[i].type = "dict" THEN "{" ELSE "["]

(* The last token fits what encode is about to do, and so does the item.   *)
Fits ==
  /\ pc = "encode" =>
       IF frames = <<>> THEN text.last = "start"
       ELSE IF Top.type = "dict" THEN text.last = "key"
       ELSE text.last \in {"[", ","}
  /\ pc = "encode" /\ frames # <<>> => Top.fetched
  /\ pc = "iter" => IF Top.some THEN text.last = "value"
                                ELSE text.last = Bracket(Top)
  /\ pc \in {"return", "done"} => text.last = "value"

(* As long as nothing went wrong the text is the beginning of a JSON text. *)
JsonInv ==
  ~SomeRaised /\ errorMsg = "none" =>
    ~text.garbled /\ text.open = Brackets(frames) /\ Fits

(* A function on 1..n is a sequence.                                       *)
LEMMA FunctionIsSeq ==
  ASSUME NEW S, NEW n \in Nat, NEW b \in [1..n -> S]
  PROVE  b \in Seq(S) /\ Len(b) = n
  OBVIOUS

(* The brackets of a stack of frames.                                      *)
LEMMA BracketsOf ==
  ASSUME NEW fs \in Seq(Frame)
  PROVE  /\ Len(fs) \in Nat
         /\ Brackets(fs) \in Seq({"[", "{"}) /\ Len(Brackets(fs)) = Len(fs)
         /\ Brackets(fs) = <<>> <=> fs = <<>>
         /\ \A i \in 1..Len(fs) : Brackets(fs)[i] = Bracket(fs[i])
<1>1. Len(fs) \in Nat /\ DOMAIN fs = 1..Len(fs)
  OBVIOUS
<1>2. /\ Brackets(fs) \in [1..Len(fs) -> {"[", "{"}]
      /\ \A i \in 1..Len(fs) : Brackets(fs)[i] = Bracket(fs[i])
  BY <1>1 DEF Brackets, Bracket
<1>3. Brackets(fs) \in Seq({"[", "{"}) /\ Len(Brackets(fs)) = Len(fs)
  BY <1>1, <1>2, FunctionIsSeq
<1>4. Brackets(fs) = <<>> <=> fs = <<>>
  BY <1>1, <1>3, EmptySeq
<1>5. QED
  BY <1>1, <1>2, <1>3, <1>4

(* The innermost bracket is that of the innermost frame.                   *)
LEMMA InnermostBracket ==
  ASSUME frames \in Seq(Frame), frames # <<>>
  PROVE  /\ Brackets(frames) # <<>>
         /\ Brackets(frames)[Len(Brackets(frames))] = Bracket(Top)
<1>1. Len(frames) \in 1..Len(frames)
  OBVIOUS
<1>2. QED
  BY <1>1, BracketsOf DEF Top

(* Frames of the same types have the same brackets.                        *)
LEMMA BracketsKept ==
  ASSUME frames \in Seq(Frame), NEW fs \in Seq(Frame), Len(fs) = Len(frames),
         \A i \in 1..Len(frames) : fs[i].type = frames[i].type
  PROVE  Brackets(fs) = Brackets(frames)
<1> DEFINE S == {"[", "{"}
<1>1. /\ Brackets(fs) \in Seq(S) /\ Len(Brackets(fs)) = Len(frames)
      /\ \A i \in 1..Len(frames) : Brackets(fs)[i] = Bracket(fs[i])
  BY BracketsOf
<1>2. /\ Brackets(frames) \in Seq(S) /\ Len(Brackets(frames)) = Len(frames)
      /\ \A i \in 1..Len(frames) : Brackets(frames)[i] = Bracket(frames[i])
  BY BracketsOf
<1> HIDE DEF S
<1>3. ASSUME NEW i \in 1..Len(frames) PROVE Brackets(fs)[i] = Brackets(frames)[i]
  <2>1. Bracket(fs[i]) = Bracket(frames[i])
    BY DEF Bracket
  <2>2. QED
    BY <1>1, <1>2, <2>1
<1>4. QED
  BY <1>1, <1>2, <1>3, SeqEqual

(* An opened container adds its bracket.                                   *)
LEMMA BracketsPushed ==
  ASSUME frames \in Seq(Frame), NEW fs, SameShape(fs), NEW f \in Frame
  PROVE  Brackets(Append(fs, f)) = Append(Brackets(frames), Bracket(f))
<1> DEFINE n == Len(frames) + 1
           S == {"[", "{"}
<1>1. fs \in Seq(Frame) /\ Len(fs) = Len(frames) /\ Len(frames) \in Nat
  BY DEF SameShape
<1>2. /\ Append(fs, f) \in Seq(Frame) /\ Len(Append(fs, f)) = n
      /\ \A i \in 1..Len(frames) : Append(fs, f)[i] = fs[i]
      /\ Append(fs, f)[n] = f
  BY <1>1
<1>3. Bracket(f) \in S
  BY DEF Bracket
<1>4. /\ Brackets(frames) \in Seq(S) /\ Len(Brackets(frames)) = Len(frames)
      /\ \A i \in 1..Len(frames) : Brackets(frames)[i] = Bracket(frames[i])
  BY BracketsOf
<1>5. /\ Brackets(Append(fs, f)) \in Seq(S)
      /\ Len(Brackets(Append(fs, f))) = n
      /\ \A i \in 1..n : Brackets(Append(fs, f))[i] = Bracket(Append(fs, f)[i])
  BY <1>2, BracketsOf
<1> HIDE DEF S
<1>6. /\ Append(Brackets(frames), Bracket(f)) \in Seq(S)
      /\ Len(Append(Brackets(frames), Bracket(f))) = n
      /\ \A i \in 1..Len(frames) :
           Append(Brackets(frames), Bracket(f))[i] = Brackets(frames)[i]
      /\ Append(Brackets(frames), Bracket(f))[n] = Bracket(f)
  BY <1>1, <1>3, <1>4
<1>7. ASSUME NEW i \in 1..n
      PROVE  Brackets(Append(fs, f))[i] = Append(Brackets(frames), Bracket(f))[i]
  <2>1. CASE i = n
    BY <1>1, <1>2, <1>5, <1>6, <2>1
  <2>2. CASE i \in 1..Len(frames)
    <3>1. Bracket(fs[i]) = Bracket(frames[i])
      BY <2>2 DEF SameShape, Bracket
    <3>2. Brackets(Append(fs, f))[i] = Bracket(fs[i])
      BY <1>1, <1>2, <1>5, <2>2
    <3>3. QED
      BY <1>4, <1>6, <2>2, <3>1, <3>2
  <2>3. i = n \/ i \in 1..Len(frames)
    BY <1>1
  <2>4. QED
    BY <2>1, <2>2, <2>3
<1>8. QED
  BY <1>1, <1>5, <1>6, <1>7, SeqEqual

(* A container that is left takes its bracket with it.                     *)
LEMMA BracketsPopped ==
  ASSUME frames \in Seq(Frame), frames # <<>>
  PROVE  Brackets(Caller) = SubSeq(Brackets(frames), 1, Len(Brackets(frames)) - 1)
<1> DEFINE n == Len(frames) - 1
           S == {"[", "{"}
<1>1. /\ Caller \in Seq(Frame) /\ Len(Caller) = n /\ n \in Nat
      /\ \A i \in 1..n : Caller[i] = frames[i]
  BY CallerFrames
<1>2. /\ Brackets(frames) \in Seq(S) /\ Len(Brackets(frames)) = Len(frames)
      /\ Brackets(frames) # <<>>
      /\ \A i \in 1..Len(frames) : Brackets(frames)[i] = Bracket(frames[i])
  BY BracketsOf
<1>3. /\ Brackets(Caller) \in Seq(S) /\ Len(Brackets(Caller)) = n
      /\ \A i \in 1..n : Brackets(Caller)[i] = Bracket(Caller[i])
  BY <1>1, BracketsOf
<1> HIDE DEF S
<1>4. /\ SubSeq(Brackets(frames), 1, Len(Brackets(frames)) - 1) \in Seq(S)
      /\ Len(SubSeq(Brackets(frames), 1, Len(Brackets(frames)) - 1)) = n
      /\ \A i \in 1..n : SubSeq(Brackets(frames), 1, Len(Brackets(frames)) - 1)[i]
                           = Brackets(frames)[i]
  BY <1>2, ButLast
<1>5. \A i \in 1..n : i \in 1..Len(frames)
  BY <1>1
<1>6. QED
  BY <1>1, <1>2, <1>3, <1>4, <1>5, SeqEqual

(* What Write does to the fields of a text.                                *)
LEMMA WriteFields ==
  ASSUME NEW t, NEW token
  PROVE  /\ token \in {"[", "{"} => Write(t, token).open = Append(t.open, token)
         /\ token \in {"]", "}"} /\ t.open # <<>> =>
              Write(t, token).open = SubSeq(t.open, 1, Len(t.open) - 1)
         /\ token \notin {"[", "{", "]", "}"} => Write(t, token).open = t.open
         /\ token \in {"]", "}"} => Write(t, token).last = "value"
         /\ token \notin {"]", "}"} => Write(t, token).last = token
         /\ Write(t, token).garbled <=> (t.garbled \/ ~Allowed(t, token))
  BY DEF Write

(* What the innermost frame makes of the bracket the text stands in.       *)
LEMMA Inside ==
  ASSUME frames \in Seq(Frame), frames # <<>>,
         NEW t, t.open = Brackets(frames)
  PROVE  /\ t.open # <<>> /\ t.open[Len(t.open)] = Bracket(Top)
         /\ Top.type = "dict" => t.open[Len(t.open)] = "{"
         /\ Top.type # "dict" => t.open[Len(t.open)] = "["
<1>1. t.open # <<>> /\ t.open[Len(t.open)] = Bracket(Top)
  BY InnermostBracket
<1>2. QED
  BY <1>1 DEF Bracket

(* Where encode starts a value may stand.                                  *)
LEMMA ValueAllowed ==
  ASSUME frames \in Seq(Frame), pc = "encode", text.open = Brackets(frames), Fits,
         NEW token \in {"value", "[", "{"}
  PROVE  Allowed(text, token)
<1>1. CASE frames = <<>>
  BY <1>1 DEF Fits, Allowed
<1>2. CASE frames # <<>> /\ Top.type = "dict"
  BY <1>2 DEF Fits, Allowed
<1>3. CASE frames # <<>> /\ Top.type # "dict"
  <2>1. text.open # <<>> /\ text.open[Len(text.open)] = "["
    BY <1>3, Inside
  <2>2. text.last \in {"[", ","}
    BY <1>3 DEF Fits
  <2>3. QED
    BY <2>1, <2>2 DEF Allowed
<1>4. QED
  BY <1>1, <1>2, <1>3

(* A container may be closed where the next item is looked for.            *)
LEMMA ClosingAllowed ==
  ASSUME frames \in Seq(Frame), frames # <<>>, pc = "iter",
         text.open = Brackets(frames), Fits
  PROVE  Allowed(text, Closing(Top))
<1>1. text.last \in {"value", Bracket(Top)}
  BY DEF Fits
<1>2. CASE Top.type = "dict"
  BY <1>1, <1>2, Inside DEF Bracket, Closing, Allowed
<1>3. CASE Top.type # "dict"
  BY <1>1, <1>3, Inside DEF Bracket, Closing, Allowed
<1>4. QED
  BY <1>2, <1>3

(* The separator and the name of an item stand where they may.             *)
LEMMA ItemAllowed ==
  ASSUME frames \in Seq(Frame), frames # <<>>, pc = "iter", ~text.garbled,
         text.open = Brackets(frames), Fits,
         NEW t, t = IF Top.type = "dict" THEN Write(Separate(text, Top), "key")
                                         ELSE Separate(text, Top)
  PROVE  /\ ~t.garbled /\ t.open = text.open
         /\ t.last \in IF Top.type = "dict" THEN {"key"} ELSE {"[", ","}
<1> DEFINE u == Separate(text, Top)
<1>1. text.last \in {"value", Bracket(Top)} /\ (Top.some => text.last = "value")
      /\ (~Top.some => text.last = Bracket(Top))
  BY DEF Fits
<1>2. ~u.garbled /\ u.open = text.open /\ u.last \in {Bracket(Top), ","}
  <2>1. CASE Top.some
    <3>1. Allowed(text, ",")
      BY <1>1, <2>1, Inside DEF Bracket, Allowed
    <3>2. QED
      BY <2>1, <3>1, WriteFields DEF Separate
  <2>2. CASE ~Top.some
    BY <1>1, <2>2 DEF Separate
  <2>3. QED
    BY <2>1, <2>2
<1> HIDE DEF u
<1>3. CASE Top.type = "dict"
  <2>1. Allowed(u, "key")
    <3>1. u.open # <<>> /\ u.open[Len(u.open)] = "{"
      BY <1>2, <1>3, Inside
    <3>2. u.last \in {"{", ","}
      BY <1>2, <1>3 DEF Bracket
    <3>3. QED
      BY <3>1, <3>2 DEF Allowed
  <2>2. t = Write(u, "key")
    BY <1>3 DEF u
  <2>3. /\ Write(u, "key").open = u.open /\ Write(u, "key").last = "key"
        /\ Write(u, "key").garbled <=> (u.garbled \/ ~Allowed(u, "key"))
    BY WriteFields
  <2>4. QED
    BY <1>2, <1>3, <2>1, <2>2, <2>3
<1>4. CASE Top.type # "dict"
  <2>1. t = u
    BY <1>4 DEF u
  <2>2. QED
    BY <1>2, <1>4, <2>1 DEF Bracket
<1>5. QED
  BY <1>3, <1>4

(* Every kind of step keeps the beginning of a JSON text.                  *)
LEMMA JsonNext ==
  ASSUME IInv, JsonInv, [Next]_vars, Abi = "universal" \/ ~SortKeys
  PROVE  JsonInv'
<1> SUFFICES ASSUME ~SomeRaised', errorMsg' = "none"
             PROVE  ~text'.garbled /\ text'.open = Brackets(frames)' /\ Fits'
  BY DEF JsonInv
<1>1. frames \in Seq(Frame) /\ Len(frames) \in Nat
  BY DEF IInv, Types
<1>2. CASE Returning
  <2>1. ~text.garbled /\ text.open = Brackets(frames) /\ Fits
    BY <1>2 DEF Returning, JsonInv
  <2>2. text' = Write(text, "value") /\ pc = "encode" /\ pc' = "return"
    BY <1>2 DEF Returning
  <2>3. Brackets(frames') = Brackets(frames)
    BY <1>1, <1>2, BracketsKept DEF Returning, SameShape
  <2>4. Allowed(text, "value")
    BY <1>1, <2>1, <2>2, ValueAllowed
  <2>5. ~text'.garbled /\ text'.open = text.open /\ text'.last = "value"
    BY <2>1, <2>2, <2>4, WriteFields
  <2>6. QED
    BY <2>1, <2>2, <2>3, <2>5 DEF Fits
<1>3. CASE Opening
  <2>1. ~text.garbled /\ text.open = Brackets(frames) /\ Fits
    BY <1>3 DEF Opening, JsonInv
  <2>2. PICK fs, f : /\ SameShape(fs) /\ f \in Frame /\ f.some = FALSE
                     /\ frames' = Append(fs, f) /\ text' = Write(text, Bracket(f))
    BY <1>3 DEF Opening
  <2>3. Brackets(frames') = Append(Brackets(frames), Bracket(f))
    BY <1>1, <2>2, BracketsPushed
  <2>4. Bracket(f) \in {"[", "{"}
    BY DEF Bracket
  <2>5. Allowed(text, Bracket(f))
    BY <1>1, <1>3, <2>1, <2>4, ValueAllowed DEF Opening
  <2>6. /\ ~text'.garbled /\ text'.open = Append(text.open, Bracket(f))
        /\ text'.last = Bracket(f)
    BY <2>1, <2>2, <2>4, <2>5, WriteFields
  <2>7. Top' = f
    BY <1>1, <2>2, OpenedFrames
  <2>8. Fits'
    <3>1. Bracket(f) = Bracket(Top)'
      BY <2>7 DEF Bracket
    <3>2. QED
      BY <1>3, <2>2, <2>6, <2>7, <3>1 DEF Fits, Opening
  <2>9. QED
    BY <2>1, <2>3, <2>6, <2>8
<1>4. CASE Fetching
  <2>1. /\ ~text.garbled /\ text.open = Brackets(frames) /\ Fits
        /\ pc = "iter" /\ frames # <<>>
    BY <1>4 DEF Fetching, JsonInv, IInv, Shape
  <2>2. Brackets(frames') = Brackets(frames)
    BY <1>1, <1>4, BracketsKept DEF Fetching, SameShape
  <2>3. /\ ~text'.garbled /\ text'.open = text.open
        /\ text'.last \in IF Top.type = "dict" THEN {"key"} ELSE {"[", ","}
    BY <1>1, <1>4, <2>1, ItemAllowed DEF Fetching
  <2>4. /\ frames' # <<>> /\ Top'.type = Top.type /\ pc' = "encode"
        /\ Top'.fetched
    BY <1>1, <1>4, <2>1, SameFrames DEF Fetching
  <2>5. QED
    BY <2>1, <2>2, <2>3, <2>4 DEF Fits
<1>5. CASE Counting
  <2>1. /\ ~text.garbled /\ text.open = Brackets(frames) /\ Fits
        /\ pc = "return" /\ frames # <<>> /\ text' = text /\ pc' = "iter"
    BY <1>5 DEF Counting, JsonInv, SomeRaised
  <2>2. /\ frames' \in Seq(Frame) /\ Len(frames') = Len(frames) /\ Top'.some = TRUE
        /\ \A i \in 1..Len(frames) : frames'[i].type = frames[i].type
    BY <1>1, <1>5, <2>1, CountedFrames DEF Counting
  <2>3. Brackets(frames') = Brackets(frames)
    BY <1>1, <2>2, BracketsKept
  <2>4. QED
    BY <2>1, <2>2, <2>3 DEF Fits
<1>6. CASE Leaving
  <2>1. errorMsg = "none" /\ pc = "iter" /\ pc' = "return" /\ frames # <<>>
        /\ frames' = Caller
    BY <1>6 DEF Leaving
  <2>2. text' = Write(text, Closing(Top)) /\ ~SomeRaised
    BY <1>6, <2>1, AbiAssumption DEF Leaving
  <2>3. ~text.garbled /\ text.open = Brackets(frames) /\ Fits
    BY <2>1, <2>2 DEF JsonInv
  <2>4. Allowed(text, Closing(Top))
    BY <1>1, <2>1, <2>3, ClosingAllowed
  <2>5. Brackets(frames') = SubSeq(text.open, 1, Len(text.open) - 1)
    BY <1>1, <2>1, <2>3, BracketsPopped
  <2>6. text.open # <<>> /\ Closing(Top) \in {"]", "}"}
    BY <1>1, <2>1, <2>3, Inside DEF Closing
  <2>7. /\ ~text'.garbled /\ text'.last = "value"
        /\ text'.open = SubSeq(text.open, 1, Len(text.open) - 1)
    BY <2>2, <2>3, <2>4, <2>6, WriteFields
  <2>8. QED
    BY <2>1, <2>5, <2>7 DEF Fits
<1>7. CASE Ending
  BY <1>7 DEF Ending, JsonInv, Fits, Brackets, SomeRaised
<1>8. CASE Halting
  BY <1>8 DEF Halting, JsonInv, Fits, Brackets, SomeRaised
<1>9. CASE Still
  <2>1. Fits' <=> Fits
    BY <1>9 DEF Still, Fits, Top, Bracket
  <2>2. QED
    BY <1>9, <2>1 DEF Still, JsonInv, Brackets, SomeRaised
<1>10. QED
  BY <1>2, <1>3, <1>4, <1>5, <1>6, <1>7, <1>8, <1>9, StepKinds DEF IInv

(* Nothing is written when dumps starts.                                   *)
LEMMA InitJson == Init => JsonInv
<1> SUFFICES ASSUME Init PROVE JsonInv
  OBVIOUS
<1>1. <<>> \in Seq(Frame)
  OBVIOUS
<1>2. Brackets(<<>>) = <<>>
  BY <1>1, BracketsOf
<1>3. QED
  BY <1>2 DEF Init, JsonInv, Fits, SomeRaised

(* Built for the universal ABI, or without sort_keys, whatever fails is    *)
(* known before the brackets go wrong: by an exception or a message.       *)
THEOREM RaisedOrJsonCorrect ==
  ASSUME Abi = "universal" \/ ~SortKeys
  PROVE  Spec => []RaisedOrJson
<1>1. JsonInv => RaisedOrJson
  BY DEF JsonInv, RaisedOrJson, Brackets, Fits, SomeRaised
<1>2. QED
  BY <1>1, InitJson, JsonNext, Invariant, PTL DEF Spec

(***************************************************************************)
(* The exceptions.                                                         *)
(***************************************************************************)

(* What is to be told is pending, or errorMsg says so.                     *)
FateInv ==
  /\ raised = "pending" => pyErr
  /\ raised = "refused" => errorMsg # "none"
  /\ outcome = "text" => raised \notin {"refused", "pending"}
  /\ pc # "done" => outcome = "none"

(* Every action keeps FateInv.                                             *)
LEMMA FateNext == FateInv /\ [Next]_vars => FateInv'
<1> SUFFICES ASSUME FateInv, [Next]_vars PROVE FateInv'
  OBVIOUS
<1> USE DEF FateInv
<1>1. CASE EncodeTooDeep \/ EncodeBadName
  BY <1>1 DEF EncodeTooDeep, EncodeBadName
<1>2. CASE EncodeInvalid
  BY <1>2 DEF EncodeInvalid, Invalid
<1>3. CASE EncodeValue
  BY <1>3 DEF EncodeValue, Begin, Kept
<1>4. CASE EncodeBadFloat \/ EncodeNoString
  BY <1>4 DEF EncodeBadFloat, EncodeNoString, Begin
<1>5. CASE EncodeRefused
  BY <1>5 DEF EncodeRefused, Begin, Kept
<1>6. CASE BeginArray \/ BeginObject
  <2>1. PICK type \in {"list", "tuple", "dict"}, n \in 0..MaxSize, d \in Chain :
          Begin /\ BeginContainer(type, n, d)
    BY <1>6 DEF BeginArray, BeginObject
  <2>2. /\ raised' = Kept(pyErr') /\ pc' = "iter" /\ pc = "encode"
        /\ UNCHANGED <<errorMsg, outcome>>
    BY <2>1 DEF Begin, BeginContainer
  <2>3. QED
    BY <2>2 DEF Kept
<1>7. CASE FetchItem \/ FetchMember \/ FetchMissing
  BY <1>7 DEF FetchItem, FetchMember, FetchMissing
<1>8. CASE AbandonDict
  BY <1>8 DEF AbandonDict, Raises, EndContainer
<1>9. CASE CloseContainer \/ Unwind \/ NextItem
  BY <1>9 DEF CloseContainer, Unwind, NextItem, EndContainer
<1>10. CASE Finish
  BY <1>10 DEF Finish
<1>11. CASE Stopped \/ UNCHANGED vars
  BY <1>11 DEF Stopped, vars
<1>12. QED
  BY <1>1, <1>2, <1>3, <1>4, <1>5, <1>6, <1>7, <1>8, <1>9, <1>10, <1>11 DEF Next

(* Built for either ABI, with any options and whatever fails, dumps returns*)
(* a text only when no value was refused, and when what iterNext, a string *)
(* or a float raised was cleared by a look-up of a later value.            *)
THEOREM RaisedCorrect == Spec => []RaisedMeansError
<1>1. Init => FateInv
  BY DEF Init, FateInv
<1>2. FateInv => RaisedMeansError
  BY DEF FateInv, RaisedMeansError
<1>3. QED
  BY <1>1, <1>2, FateNext, PTL DEF Spec

(* On the CPython ABI without sort_keys, where neither a key nor a string  *)
(* nor a float fails, what raises sets errorMsg.                           *)
RaisedInv ==
  /\ SomeRaised => errorMsg # "none"
  /\ outcome = "text" => errorMsg = "none" /\ pc = "done"

(* Every kind of step keeps RaisedInv.                                     *)
LEMMA RaisedNext ==
  ASSUME IInv, RaisedInv, [Next]_vars,
         Abi = "cpython", ~SortKeys, Faults \subseteq {"shrink"}
  PROVE  RaisedInv'
<1>1. /\ "string" \notin Faults /\ "float" \notin Faults /\ "key" \notin Faults
      /\ Abi # "universal"
  OBVIOUS
<1>2. \/ Returning \/ Opening \/ Fetching \/ Counting
      \/ Leaving \/ Ending \/ Halting \/ Still
  BY StepKinds DEF IInv
<1>3. SomeRaised' => errorMsg' # "none"
  <2>1. CASE Counting \/ Ending \/ Halting \/ Still
    BY <2>1 DEF RaisedInv, Counting, Ending, Halting, Still, SomeRaised
  <2>2. QED
    BY <1>1, <1>2, <2>1 DEF RaisedInv, Returning, Opening, Fetching, Leaving
<1>4. outcome' = "text" => errorMsg' = "none" /\ pc' = "done"
  BY <1>1, <1>2
     DEF RaisedInv, Returning, Opening, Fetching, Counting, Leaving, Ending,
         Halting, Still
<1>5. QED
  BY <1>3, <1>4 DEF RaisedInv

(* RaisedInv holds of every reachable state.                               *)
LEMMA RaisedInvariant ==
  ASSUME Abi = "cpython", ~SortKeys, Faults \subseteq {"shrink"}
  PROVE  Spec => []RaisedInv
<1>1. Init => RaisedInv
  BY DEF Init, RaisedInv, SomeRaised
<1>2. IInv /\ RaisedInv /\ [Next]_vars => RaisedInv'
  BY RaisedNext
<1>3. QED
  BY <1>1, <1>2, Invariant, PTL DEF Spec

(* There the text that dumps returns is JSON.                              *)
THEOREM TextCorrect ==
  ASSUME Abi = "cpython", ~SortKeys, Faults \subseteq {"shrink"}
  PROVE  Spec => []TextIsJson
<1>1. ASSUME IInv, RaisedInv, JsonInv PROVE TextIsJson
  <2>1. SUFFICES ASSUME outcome = "text"
                 PROVE  ~text.garbled /\ text.open = <<>> /\ text.last = "value"
    BY DEF TextIsJson
  <2>2. pc = "done" /\ errorMsg = "none" /\ ~SomeRaised
    BY <1>1, <2>1 DEF RaisedInv
  <2>3. frames = <<>> /\ frames \in Seq(Frame)
    BY <1>1, <2>2 DEF IInv, Shape, Types
  <2>4. ~text.garbled /\ text.open = Brackets(frames) /\ text.last = "value"
    BY <1>1, <2>2 DEF JsonInv, Fits
  <2>5. Brackets(frames) = <<>>
    BY <2>3, BracketsOf
  <2>6. QED
    BY <2>4, <2>5
<1>2. IInv /\ JsonInv /\ [Next]_vars => JsonInv'
  BY JsonNext
<1>3. QED
  BY <1>1, <1>2, InitJson, RaisedInvariant, Invariant, PTL DEF Spec

(***************************************************************************)
(* The handles and the type contexts.  s[i] is how many handles are open   *)
(* below the i-th frame, the one on the object given to dumps included.    *)
(***************************************************************************)
IsTotal(s, fs) ==
  /\ s \in [1..(Len(fs) + 1) -> Nat \ {0}]
  /\ s[1] = 1
  /\ \A i \in 1..Len(fs) : s[i + 1] = s[i] + FrameHandles(fs[i])

(* h is the number of handles that the frames fs and the call hold.        *)
Held(fs, h) == \E s : IsTotal(s, fs) /\ h = s[Len(fs) + 1]

(* What keeps the encoder from forgetting a handle: every string can be    *)
(* had, and no list of keys replaces what default returned.                *)
Tidy == "string" \notin Faults /\ (KeyList => ~HasDefault)

(* Nothing that a frame holds is closed but by the frame; x handles and y  *)
(* contexts are forgotten.  The call's own handle is the last one closed.  *)
Balance(fs, open, taken) ==
  \E x, y \in Nat : /\ Held(fs, open - x)
                    /\ taken = Len(fs) + y
                    /\ Tidy => x = 0 /\ y = 0
Accounts == Balance(frames, handles + If(pc = "done"), contexts)

(* A frame holds no less than nothing.                                     *)
LEMMA HandlesOfFrame ==
  ASSUME NEW f \in Frame
  PROVE  FrameHandles(f) \in Nat
<1>1. ASSUME NEW b \in BOOLEAN PROVE If(b) \in {0, 1}
  BY DEF If
<1>2. If(f.name) \in {0, 1} /\ If(f.newObj) \in {0, 1}
  BY <1>1 DEF Frame
<1>3. If(f.type = "dict") \in {0, 1}
  BY <1>1
<1>4. ItemHandles(f) \in {0, 1}
  BY DEF ItemHandles, If
<1>5. QED
  BY <1>2, <1>3, <1>4 DEF FrameHandles

(* With no frame there is the object given to dumps.                       *)
LEMMA HeldByNone ==
  ASSUME NEW h
  PROVE  Held(<<>>, h) <=> h = 1
<1>1. ASSUME Held(<<>>, h) PROVE h = 1
  BY <1>1 DEF Held, IsTotal
<1>2. ASSUME h = 1 PROVE Held(<<>>, h)
  <2> DEFINE s == [i \in 1..1 |-> 1]
  <2>1. IsTotal(s, <<>>) /\ s[1] = 1
    BY DEF IsTotal
  <2>2. QED
    BY <1>2, <2>1 DEF Held
<1>3. QED
  BY <1>1, <1>2

(* The numbers are positive: the object given to dumps is counted.         *)
LEMMA HeldIsPositive ==
  ASSUME NEW fs \in Seq(Frame), NEW h, Held(fs, h)
  PROVE  h \in Nat /\ h >= 1
<1>1. PICK s : IsTotal(s, fs) /\ h = s[Len(fs) + 1]
  BY DEF Held
<1>2. QED
  BY <1>1 DEF IsTotal

(* Frames that hold as much are as good.                                   *)
LEMMA HeldBySame ==
  ASSUME NEW fs \in Seq(Frame), NEW gs \in Seq(Frame), Len(gs) = Len(fs),
         \A i \in 1..Len(fs) : FrameHandles(gs[i]) = FrameHandles(fs[i]),
         NEW h, Held(fs, h)
  PROVE  Held(gs, h)
<1>1. PICK s : IsTotal(s, fs) /\ h = s[Len(fs) + 1]
  BY DEF Held
<1>2. IsTotal(s, gs)
  BY <1>1 DEF IsTotal
<1>3. QED
  BY <1>1, <1>2 DEF Held

(* One more frame.                                                         *)
LEMMA HeldByMore ==
  ASSUME NEW fs \in Seq(Frame), NEW f \in Frame, NEW h, Held(fs, h)
  PROVE  Held(Append(fs, f), h + FrameHandles(f))
<1>1. PICK s : IsTotal(s, fs) /\ h = s[Len(fs) + 1]
  BY DEF Held
<1> DEFINE gs == Append(fs, f)
           n == Len(fs)
           k == FrameHandles(f)
           t == [i \in 1..(n + 2) |-> IF i = n + 2 THEN h + k ELSE s[i]]
<1>2. n \in Nat /\ Len(gs) = n + 1 /\ gs[n + 1] = f
      /\ \A i \in 1..n : gs[i] = fs[i]
  OBVIOUS
<1>3. k \in Nat /\ h \in Nat /\ h >= 1
  BY <1>1, HandlesOfFrame, HeldIsPositive
<1>4. \A i \in 1..(n + 1) : s[i] \in Nat \ {0} /\ t[i] = s[i]
  BY <1>1, <1>2 DEF IsTotal
<1>5. t[n + 2] = h + k
  BY <1>2
<1>6. s[1] = 1 /\ \A i \in 1..n : s[i + 1] = s[i] + FrameHandles(fs[i])
  BY <1>1 DEF IsTotal
<1>7. \A i \in 1..(n + 2) : t[i] \in Nat \ {0}
  <2>1. h + k \in Nat \ {0}
    BY <1>3
  <2>2. \A i \in 1..(n + 2) : i \in 1..(n + 1) \/ i = n + 2
    BY <1>2
  <2> HIDE DEF t, k
  <2>3. QED
    BY <1>4, <1>5, <2>1, <2>2, Zenon
<1>8. DOMAIN t = 1..(n + 2) /\ t = [i \in 1..(n + 2) |-> t[i]]
  OBVIOUS
<1> HIDE DEF t, gs, k
<1>9. t \in [1..(Len(gs) + 1) -> Nat \ {0}]
  BY <1>2, <1>7, <1>8
<1>10. t[1] = 1
  BY <1>2, <1>4, <1>6
<1>11. ASSUME NEW i \in 1..Len(gs) PROVE t[i + 1] = t[i] + FrameHandles(gs[i])
  <2>1. CASE i \in 1..n
    BY <1>2, <1>4, <1>6, <2>1
  <2>2. CASE i = n + 1
    <3>1. t[i] = h /\ t[i + 1] = h + k
      BY <1>1, <1>2, <1>4, <1>5, <2>2
    <3>2. FrameHandles(gs[i]) = k
      BY <1>2, <2>2 DEF k
    <3>3. QED
      BY <3>1, <3>2
  <2>3. QED
    BY <1>2, <2>1, <2>2
<1>12. Held(gs, h + k)
  BY <1>2, <1>5, <1>9, <1>10, <1>11 DEF Held, IsTotal
<1>13. QED
  BY <1>12 DEF gs, k

(* One frame less.                                                         *)
LEMMA HeldByCaller ==
  ASSUME frames \in Seq(Frame), frames # <<>>, NEW h, Held(frames, h)
  PROVE  Held(Caller, h - FrameHandles(Top))
<1>1. PICK s : IsTotal(s, frames) /\ h = s[Len(frames) + 1]
  BY DEF Held
<1> DEFINE n == Len(frames)
           c == Caller
           t == [i \in 1..n |-> s[i]]
<1>2. /\ n \in Nat /\ n >= 1 /\ Top \in Frame /\ Len(c) = n - 1
      /\ \A i \in 1..(n - 1) : c[i] = frames[i]
  BY CallerFrames
<1>3. \A i \in 1..n : s[i] \in Nat \ {0} /\ s[i + 1] = s[i] + FrameHandles(frames[i])
  BY <1>1, <1>2 DEF IsTotal
<1>4. FrameHandles(Top) \in Nat
  BY <1>2, HandlesOfFrame
<1>5. s[n] = h - FrameHandles(Top)
  BY <1>1, <1>2, <1>3, <1>4 DEF Top
<1>6. s[1] = 1
  BY <1>1 DEF IsTotal
<1> HIDE DEF c, n
<1>7. IsTotal(t, c)
  BY <1>2, <1>3, <1>6 DEF IsTotal
<1>8. t[Len(c) + 1] = s[n]
  BY <1>2
<1>9. Held(c, h - FrameHandles(Top))
  BY <1>5, <1>7, <1>8 DEF Held
<1>10. QED
  BY <1>9 DEF c

(* Another innermost frame.                                                *)
LEMMA HeldByChanged ==
  ASSUME frames \in Seq(Frame), frames # <<>>, NEW f \in Frame,
         NEW h, Held(frames, h)
  PROVE  Held(WithTop(f), h - FrameHandles(Top) + FrameHandles(f))
<1>1. Caller \in Seq(Frame)
  BY CallerFrames
<1>2. Held(Caller, h - FrameHandles(Top))
  BY HeldByCaller
<1>3. QED
  BY <1>1, <1>2, HeldByMore DEF WithTop

(* The same containers are open and each holds as much.                    *)
SameHandles(fs) ==
  /\ fs \in Seq(Frame) /\ Len(fs) = Len(frames)
  /\ \A i \in 1..Len(frames) : FrameHandles(fs[i]) = FrameHandles(frames[i])

(* The user's code closes nothing.                                         *)
LEMMA UserKeepsHandles ==
  ASSUME frames \in Seq(Frame), NEW called \in BOOLEAN, NEW fs \in AfterUser(called)
  PROVE  SameHandles(fs)
<1>1. fs \in Seq(Frame) /\ Len(fs) = Len(frames)
  BY UserKeepsShape DEF SameShape
<1>2. CASE fs = frames
  BY <1>1, <1>2 DEF SameHandles
<1>3. CASE fs # frames
  <2>1. PICK i \in DOMAIN frames : \E n \in 0..(frames[i].there - 1) :
          fs = [frames EXCEPT ![i].there = n]
    BY <1>3 DEF AfterUser
  <2>2. PICK n \in 0..(frames[i].there - 1) : fs = [frames EXCEPT ![i].there = n]
    BY <2>1
  <2>3. i \in 1..Len(frames) /\ frames[i] \in Frame
    OBVIOUS
  <2> DEFINE f == [frames[i] EXCEPT !.there = n]
  <2>4. /\ f.type = frames[i].type /\ f.item = frames[i].item
        /\ f.name = frames[i].name /\ f.newObj = frames[i].newObj
    BY <2>3 DEF Frame
  <2>5. fs = [frames EXCEPT ![i] = f]
    BY <2>2
  <2> HIDE DEF f
  <2>6. FrameHandles(f) = FrameHandles(frames[i])
    BY <2>4 DEF FrameHandles, ItemHandles
  <2>7. fs[i] = f /\ \A j \in 1..Len(frames) : j # i => fs[j] = frames[j]
    BY <2>3, <2>5
  <2>8. QED
    BY <1>1, <2>6, <2>7 DEF SameHandles
<1>4. QED
  BY <1>2, <1>3

(* What a step does to the frames and to what is open: nothing, but that   *)
(* it may forget something; or it opens, changes or leaves the innermost   *)
(* frame.                                                                  *)
Keeping ==
  /\ {pc, pc'} \cap {"done"} = {}
  /\ SameHandles(frames')
  /\ \E x, y \in Nat : /\ handles' = handles + x
                       /\ contexts' = contexts + y
                       /\ Tidy => x = 0 /\ y = 0
Pushing ==
  /\ {pc, pc'} \cap {"done"} = {}
  /\ contexts' = contexts + 1
  /\ \E fs, f : /\ SameHandles(fs) /\ f \in Frame
                /\ frames' = Append(fs, f)
                /\ \E x \in Nat : /\ handles' = handles + FrameHandles(f) + x
                                  /\ Tidy => x = 0
Turning ==
  /\ {pc, pc'} \cap {"done"} = {} /\ frames # <<>>
  /\ contexts' = contexts
  /\ \E f \in Frame : /\ frames' = WithTop(f)
                      /\ handles' = handles - FrameHandles(Top) + FrameHandles(f)
Dropping ==
  /\ pc # "done" /\ frames # <<>>
  /\ EndContainer
Returned ==
  /\ pc # "done" /\ pc' = "done" /\ frames' = frames
  /\ handles' = handles - 1
  /\ contexts' = contexts
Resting == UNCHANGED <<pc, frames, handles, contexts>>

(* What is open and what is taken are numbers.                             *)
Numbers == handles \in Int /\ contexts \in Int

(* Values, refusals and failures forget what a string that cannot be had   *)
(* left behind, and what default returned when its keys cannot be sorted.  *)
LEMMA KeepingSteps ==
  ASSUME frames \in Seq(Frame), Numbers,
         \/ EncodeTooDeep \/ EncodeBadName \/ EncodeInvalid \/ EncodeValue
         \/ EncodeBadFloat \/ EncodeRefused \/ EncodeNoString
  PROVE  Keeping
<1>1. SameHandles(frames) /\ handles + 0 = handles /\ contexts + 0 = contexts
  BY DEF SameHandles, Numbers
<1>2. ASSUME NEW called \in BOOLEAN, frames' \in AfterUser(called)
      PROVE  SameHandles(frames')
  BY <1>2, UserKeepsHandles
<1>3. CASE EncodeTooDeep \/ EncodeBadName
  BY <1>1, <1>3 DEF EncodeTooDeep, EncodeBadName, Keeping
<1>4. CASE EncodeInvalid /\ arg = "null"
  BY <1>1, <1>4 DEF EncodeInvalid, Keeping
<1>5. CASE EncodeInvalid /\ arg # "null"
  <2>1. PICK d \in Chain, lost \in BOOLEAN : /\ lost => d > 0 /\ SortKeys
                                             /\ handles' = handles + If(lost)
    BY <1>5 DEF EncodeInvalid
  <2>2. If(lost) \in Nat /\ (Tidy => If(lost) = 0)
    BY <2>1, OptionAssumption DEF Chain, Tidy, KeyList, If
  <2>3. SameHandles(frames')
    BY <1>2, <1>5 DEF EncodeInvalid
  <2>4. QED
    BY <1>1, <1>5, <2>1, <2>2, <2>3 DEF EncodeInvalid, Keeping
<1>6. CASE EncodeValue
  <2>1. SameHandles(frames')
    <3>1. PICK d \in Chain, user \in BOOLEAN : frames' \in AfterUser(user \/ d > 0)
      BY <1>6 DEF EncodeValue
    <3>2. (user \/ d > 0) \in BOOLEAN
      OBVIOUS
    <3>3. QED
      BY <1>2, <3>1, <3>2
  <2>2. QED
    BY <1>1, <1>6, <2>1 DEF EncodeValue, Begin, Keeping
<1>7. CASE EncodeBadFloat
  <2>1. SameHandles(frames')
    BY <1>2, <1>7 DEF EncodeBadFloat
  <2>2. QED
    BY <1>1, <1>7, <2>1 DEF EncodeBadFloat, Begin, Keeping
<1>8. CASE EncodeRefused
  <2>1. SameHandles(frames')
    <3>1. PICK d \in Chain : frames' \in AfterUser(d > 0)
      BY <1>8 DEF EncodeRefused
    <3>2. (d > 0) \in BOOLEAN
      OBVIOUS
    <3>3. QED
      BY <1>2, <3>1, <3>2
  <2>2. QED
    BY <1>1, <1>8, <2>1 DEF EncodeRefused, Begin, Keeping
<1>9. CASE EncodeNoString
  <2>1. PICK d \in Chain, owns \in BOOLEAN :
          /\ frames' \in AfterUser(owns \/ d > 0)
          /\ contexts' = contexts + If(owns \/ d > 0)
          /\ handles' = handles + If(owns) + If(d > 0)
    BY <1>9 DEF EncodeNoString
  <2>2. (owns \/ d > 0) \in BOOLEAN
    OBVIOUS
  <2>3. SameHandles(frames')
    BY <1>2, <2>1, <2>2
  <2>4. /\ If(owns \/ d > 0) \in Nat /\ If(owns) + If(d > 0) \in Nat
        /\ handles' = handles + (If(owns) + If(d > 0))
    BY <2>1 DEF If, Numbers
  <2>5. ~Tidy
    BY <1>9 DEF EncodeNoString, Tidy
  <2>6. QED
    BY <1>9, <2>1, <2>3, <2>4, <2>5 DEF EncodeNoString, Begin, Keeping
<1>10. QED
  BY <1>3, <1>4, <1>5, <1>6, <1>7, <1>8, <1>9

(* A container holds its dict, and what default returned or the list of    *)
(* its keys: the one forgets the other.                                    *)
LEMMA PushingSteps ==
  ASSUME frames \in Seq(Frame), Numbers, BeginArray \/ BeginObject
  PROVE  Pushing
<1>1. PICK type \in {"list", "tuple", "dict"}, n \in 0..MaxSize, d \in Chain :
        Begin /\ BeginContainer(type, n, d)
  BY DEF BeginArray, BeginObject
<1> DEFINE keys == type = "dict" /\ KeyList
           frame == [type |-> type, index |-> 0, size |-> n, there |-> n,
                     some |-> FALSE, item |-> FALSE, name |-> FALSE,
                     newObj |-> d > 0 \/ keys, fetched |-> FALSE]
           u == If(d > 0) + If(keys) - If(d > 0 \/ keys)
<1>2. PICK fs \in AfterUser(d > 0 \/ keys) : frames' = Append(fs, frame)
  BY <1>1 DEF BeginContainer
<1>3. handles' = handles + If(type = "dict") + If(d > 0) + If(keys)
  BY <1>1 DEF BeginContainer
<1>4. (d > 0 \/ keys) \in BOOLEAN /\ keys \in BOOLEAN /\ (d > 0) \in BOOLEAN
  OBVIOUS
<1>5. keys => KeyList
  OBVIOUS
<1>6. SameHandles(fs)
  BY <1>2, <1>4, UserKeepsHandles
<1> HIDE DEF keys
<1>7. n \in Nat
  BY BoundAssumption
<1>8. frame \in Frame
  BY <1>4, <1>7 DEF Frame
<1>9. /\ frame.type = type /\ ~frame.item /\ ~frame.name
      /\ frame.newObj = (d > 0 \/ keys)
  OBVIOUS
<1> HIDE DEF frame
<1>13. FrameHandles(frame) = If(d > 0 \/ keys) + If(type = "dict")
  <2>1. ItemHandles(frame) = 0 /\ If(frame.name) = 0
    BY <1>9 DEF ItemHandles, If
  <2>2. If(d > 0 \/ keys) \in Nat /\ If(type = "dict") \in Nat
    BY DEF If
  <2>3. QED
    BY <1>9, <2>1, <2>2 DEF FrameHandles
<1>10. u \in Nat /\ handles' = handles + FrameHandles(frame) + u
  BY <1>3, <1>4, <1>13 DEF If, Numbers
<1>11. Tidy => u = 0
  BY <1>4, <1>5 DEF Tidy, Chain, If
<1> HIDE DEF u
<1>12. QED
  BY <1>1, <1>2, <1>6, <1>8, <1>10, <1>11 DEF Begin, BeginContainer, Pushing

(* The item of a frame gives way to another one, and so does the name.     *)
LEMMA TurningSteps ==
  ASSUME frames \in Seq(Frame), Numbers, Shape,
         FetchItem \/ FetchMissing \/ FetchMember \/ NextItem
  PROVE  Turning \/ Keeping
<1>1. frames # <<>>
  BY DEF Shape, FetchItem, FetchMissing, FetchMember, NextItem
<1>2. Top \in Frame /\ FrameHandles(Top) \in Nat
  BY <1>1, CallerFrames, HandlesOfFrame
<1>3. /\ ItemHandles(Top) \in Nat /\ If(Top.name) \in Nat
      /\ If(Top.newObj) \in Nat /\ If(Top.type = "dict") \in Nat
      /\ If(Abi = "universal") \in Nat
  BY DEF ItemHandles, If
<1>4. ASSUME NEW f \in Frame, f.type = Top.type, f.newObj = Top.newObj,
             f.item, f.name = Top.name
      PROVE  handles - FrameHandles(Top) + FrameHandles(f) = Replaced
  <2>1. ItemHandles(f) = If(Abi = "universal")
    BY <1>4 DEF ItemHandles, If
  <2>2. QED
    BY <1>3, <1>4, <2>1 DEF FrameHandles, Replaced, Numbers
<1>5. ASSUME NEW f \in Frame, f.type = Top.type, f.newObj = Top.newObj,
             f.item, f.name
      PROVE  handles - FrameHandles(Top) + FrameHandles(f)
               = Replaced - If(Top.name) + 1
  <2>1. ItemHandles(f) = If(Abi = "universal") /\ If(f.name) = 1
    BY <1>5 DEF ItemHandles, If
  <2>2. FrameHandles(f)
          = If(Abi = "universal") + 1 + If(Top.newObj) + If(Top.type = "dict")
    BY <1>5, <2>1, Zenon DEF FrameHandles
  <2>3. QED
    BY <1>3, <2>2 DEF FrameHandles, Replaced, Numbers
<1>6. ASSUME NEW f \in Frame, f.type = Top.type, f.newObj = Top.newObj,
             f.item = Top.item, f.name = Top.name
      PROVE  handles - FrameHandles(Top) + FrameHandles(f) = handles
  <2>1. FrameHandles(f) = FrameHandles(Top)
    BY <1>6 DEF FrameHandles, ItemHandles
  <2>2. QED
    BY <1>2, <2>1 DEF Numbers
<1>7. ASSUME NEW n \in Nat
      PROVE  LET f == [Top EXCEPT !.index = n, !.item = TRUE, !.fetched = TRUE]
                 g == [Top EXCEPT !.index = n, !.name = TRUE, !.item = TRUE,
                                  !.fetched = TRUE]
             IN  /\ f \in Frame /\ f.type = Top.type /\ f.newObj = Top.newObj
                 /\ f.item /\ f.name = Top.name
                 /\ g \in Frame /\ g.type = Top.type /\ g.newObj = Top.newObj
                 /\ g.item /\ g.name
  BY <1>2 DEF Frame
<1>8. ASSUME NEW b \in BOOLEAN
      PROVE  LET f == [Top EXCEPT !.some = b]
                 g == [Top EXCEPT !.fetched = b]
             IN  /\ f \in Frame /\ f.type = Top.type /\ f.newObj = Top.newObj
                 /\ f.item = Top.item /\ f.name = Top.name
                 /\ g \in Frame /\ g.type = Top.type /\ g.newObj = Top.newObj
                 /\ g.item = Top.item /\ g.name = Top.name
  BY <1>2 DEF Frame
<1>9. NextIndex(Top) \in Nat
  BY <1>2 DEF Frame, NextIndex
<1>10. CASE FetchItem
  <2> DEFINE f == [Top EXCEPT !.index = NextIndex(Top), !.item = TRUE,
                              !.fetched = TRUE]
  <2>1. /\ f \in Frame /\ f.type = Top.type /\ f.newObj = Top.newObj
        /\ f.item /\ f.name = Top.name
    BY <1>7, <1>9, Zenon
  <2>2. frames' = WithTop(f) /\ handles' = Replaced
    BY <1>10 DEF FetchItem
  <2> HIDE DEF f
  <2>3. QED
    BY <1>1, <1>4, <1>10, <2>1, <2>2 DEF FetchItem, Turning
<1>11. CASE FetchMember
  <2> DEFINE f == [Top EXCEPT !.index = NextIndex(Top), !.name = TRUE,
                              !.item = TRUE, !.fetched = TRUE]
  <2>1. /\ f \in Frame /\ f.type = Top.type /\ f.newObj = Top.newObj
        /\ f.item /\ f.name
    BY <1>7, <1>9, Zenon
  <2>2. frames' = WithTop(f) /\ handles' = Replaced - If(Top.name) + 1
    BY <1>11 DEF FetchMember
  <2> HIDE DEF f
  <2>3. QED
    BY <1>1, <1>5, <1>11, <2>1, <2>2 DEF FetchMember, Turning
<1>12. CASE FetchMissing /\ Abi = "cpython"
  <2>1. SameHandles(frames) /\ handles + 0 = handles /\ contexts + 0 = contexts
    BY DEF SameHandles, Numbers
  <2>2. QED
    BY <1>12, <2>1 DEF FetchMissing, Keeping
<1>13. CASE FetchMissing /\ Abi # "cpython"
  <2> DEFINE f == [Top EXCEPT !.fetched = FALSE]
  <2>1. /\ f \in Frame /\ f.type = Top.type /\ f.newObj = Top.newObj
        /\ f.item = Top.item /\ f.name = Top.name
    BY <1>8
  <2>2. frames' = WithTop(f) /\ handles' = handles
    BY <1>13 DEF FetchMissing
  <2> HIDE DEF f
  <2>3. QED
    BY <1>1, <1>6, <1>13, <2>1, <2>2 DEF FetchMissing, Turning
<1>14. CASE NextItem
  <2> DEFINE f == [Top EXCEPT !.some = TRUE]
  <2>1. /\ f \in Frame /\ f.type = Top.type /\ f.newObj = Top.newObj
        /\ f.item = Top.item /\ f.name = Top.name
    BY <1>8
  <2>2. frames' = WithTop(f) /\ handles' = handles
    BY <1>14 DEF NextItem
  <2> HIDE DEF f
  <2>3. QED
    BY <1>1, <1>6, <1>14, <2>1, <2>2 DEF NextItem, Turning
<1>15. QED
  BY <1>10, <1>11, <1>12, <1>13, <1>14

(* Every step is of one of the kinds.                                      *)
LEMMA AccountKinds ==
  ASSUME frames \in Seq(Frame), Numbers, Shape, [Next]_vars
  PROVE  Keeping \/ Pushing \/ Turning \/ Dropping \/ Returned \/ Resting
<1>1. CASE \/ EncodeTooDeep \/ EncodeBadName \/ EncodeInvalid \/ EncodeValue
           \/ EncodeBadFloat \/ EncodeRefused \/ EncodeNoString
  BY <1>1, KeepingSteps
<1>2. CASE BeginArray \/ BeginObject
  BY <1>2, PushingSteps
<1>3. CASE FetchItem \/ FetchMissing \/ FetchMember \/ NextItem
  BY <1>3, TurningSteps
<1>4. CASE AbandonDict \/ CloseContainer \/ Unwind
  BY <1>4 DEF AbandonDict, CloseContainer, Unwind, Shape, Dropping
<1>5. CASE Finish
  BY <1>5 DEF Finish, Returned
<1>6. CASE Stopped \/ UNCHANGED vars
  BY <1>6 DEF Stopped, vars, Resting
<1>7. QED
  BY <1>1, <1>2, <1>3, <1>4, <1>5, <1>6 DEF Next

(* Frames that hold as much, while something may be forgotten.             *)
LEMMA BalanceKept ==
  ASSUME frames \in Seq(Frame), NEW o \in Int, NEW n \in Int,
         Balance(frames, o, n), NEW gs, SameHandles(gs),
         NEW u \in Nat, NEW v \in Nat, Tidy => u = 0 /\ v = 0
  PROVE  Balance(gs, o + u, n + v)
<1>1. PICK x \in Nat, y \in Nat : /\ Held(frames, o - x) /\ n = Len(frames) + y
                                  /\ Tidy => x = 0 /\ y = 0
  BY DEF Balance
<1>2. Held(gs, o - x)
  BY <1>1, HeldBySame DEF SameHandles
<1>3. (o + u) - (x + u) = o - x
  OBVIOUS
<1>4. n + v = Len(gs) + (y + v)
  BY <1>1 DEF SameHandles
<1>5. x + u \in Nat /\ y + v \in Nat
  OBVIOUS
<1>6. Tidy => x + u = 0 /\ y + v = 0
  BY <1>1
<1>7. QED
  BY <1>2, <1>3, <1>4, <1>5, <1>6 DEF Balance

(* A frame more.                                                           *)
LEMMA BalancePushed ==
  ASSUME NEW fs \in Seq(Frame), NEW o \in Int, NEW n \in Int,
         Balance(fs, o, n), NEW f \in Frame
  PROVE  Balance(Append(fs, f), o + FrameHandles(f), n + 1)
<1>1. PICK x \in Nat, y \in Nat : /\ Held(fs, o - x) /\ n = Len(fs) + y
                                  /\ Tidy => x = 0 /\ y = 0
  BY DEF Balance
<1>2. Held(Append(fs, f), (o - x) + FrameHandles(f))
  BY <1>1, HeldByMore
<1>3. (o + FrameHandles(f)) - x = (o - x) + FrameHandles(f)
  BY HandlesOfFrame
<1>4. n + 1 = Len(Append(fs, f)) + y
  BY <1>1
<1>5. QED
  BY <1>1, <1>2, <1>3, <1>4 DEF Balance

(* A frame less.                                                           *)
LEMMA BalancePopped ==
  ASSUME frames \in Seq(Frame), frames # <<>>, NEW o \in Int, NEW n \in Int,
         Balance(frames, o, n)
  PROVE  Balance(Caller, o - FrameHandles(Top), n - 1)
<1>1. PICK x \in Nat, y \in Nat : /\ Held(frames, o - x) /\ n = Len(frames) + y
                                  /\ Tidy => x = 0 /\ y = 0
  BY DEF Balance
<1>2. Held(Caller, (o - x) - FrameHandles(Top))
  BY <1>1, HeldByCaller
<1>3. (o - FrameHandles(Top)) - x = (o - x) - FrameHandles(Top)
  BY CallerFrames, HandlesOfFrame
<1>4. n - 1 = Len(Caller) + y
  <2>1. Len(Caller) = Len(frames) - 1 /\ Len(frames) \in Nat
    BY CallerFrames
  <2>2. QED
    BY <1>1, <2>1
<1>5. QED
  BY <1>1, <1>2, <1>3, <1>4 DEF Balance

(* No more is closed than was opened, and no more given back than taken.   *)
LEMMA BalanceIsPositive ==
  ASSUME NEW fs \in Seq(Frame), NEW o \in Int, NEW n, Balance(fs, o, n)
  PROVE  o >= 1 /\ n \in Nat
<1>1. PICK x \in Nat, y \in Nat : Held(fs, o - x) /\ n = Len(fs) + y
  BY DEF Balance
<1>2. o - x >= 1
  BY <1>1, HeldIsPositive
<1>3. QED
  BY <1>1, <1>2

(* Without frames and with nothing forgotten, there is the object that was *)
(* given to dumps.                                                         *)
LEMMA BalanceOfNone ==
  ASSUME Tidy, NEW o \in Int, NEW n, Balance(<<>>, o, n)
  PROVE  o = 1 /\ n = 0
<1>1. PICK x \in Nat, y \in Nat : /\ Held(<<>>, o - x) /\ n = Len(<<>>) + y
                                  /\ x = 0 /\ y = 0
  BY DEF Balance
<1>2. o - x = 1
  BY <1>1, HeldByNone
<1>3. QED
  BY <1>1, <1>2

(* A step that leaves the frames their handles.                            *)
LEMMA AccountsKept ==
  ASSUME frames \in Seq(Frame), Numbers, Accounts, Keeping
  PROVE  Accounts' /\ Numbers'
<1>1. PICK u \in Nat, v \in Nat : /\ handles' = handles + u /\ contexts' = contexts + v
                                  /\ Tidy => u = 0 /\ v = 0
  BY DEF Keeping
<1>2. If(pc = "done") = 0 /\ If(pc' = "done") = 0
  BY DEF Keeping, If
<1>3. Balance(frames, handles, contexts)
  <2>1. handles + If(pc = "done") = handles
    BY <1>2 DEF Numbers
  <2>2. QED
    BY <2>1 DEF Accounts
<1>4. Balance(frames', handles + u, contexts + v)
  BY <1>1, <1>3, BalanceKept DEF Keeping, Numbers
<1>5. handles' + If(pc' = "done") = handles + u
  BY <1>1, <1>2 DEF Numbers
<1>6. QED
  BY <1>1, <1>4, <1>5 DEF Accounts, Numbers

(* A step that opens a frame.                                              *)
LEMMA AccountsPushed ==
  ASSUME frames \in Seq(Frame), Numbers, Accounts, Pushing
  PROVE  Accounts' /\ Numbers'
<1>1. PICK fs, f : /\ SameHandles(fs) /\ f \in Frame
                   /\ frames' = Append(fs, f)
                   /\ \E x \in Nat : /\ handles' = handles + FrameHandles(f) + x
                                     /\ Tidy => x = 0
  BY DEF Pushing
<1>2. PICK u \in Nat : handles' = handles + FrameHandles(f) + u /\ (Tidy => u = 0)
  BY <1>1
<1>3. If(pc = "done") = 0 /\ If(pc' = "done") = 0
  BY DEF Pushing, If
<1>4. Balance(frames, handles, contexts)
  <2>1. handles + If(pc = "done") = handles
    BY <1>3 DEF Numbers
  <2>2. QED
    BY <2>1 DEF Accounts
<1>5. Balance(fs, handles + u, contexts)
  <2>1. Balance(fs, handles + u, contexts + 0)
    BY <1>1, <1>2, <1>4, BalanceKept DEF Numbers
  <2>2. contexts + 0 = contexts
    BY DEF Numbers
  <2>3. QED
    BY <2>1, <2>2
<1>6. fs \in Seq(Frame) /\ handles + u \in Int /\ FrameHandles(f) \in Nat
  BY <1>1, HandlesOfFrame DEF SameHandles, Numbers
<1>7. Balance(frames', handles + u + FrameHandles(f), contexts + 1)
  BY <1>1, <1>5, <1>6, BalancePushed DEF Numbers
<1>8. handles' + If(pc' = "done") = handles + u + FrameHandles(f) /\ handles' \in Int
  BY <1>2, <1>3, <1>6 DEF Numbers
<1>9. contexts' = contexts + 1
  BY DEF Pushing
<1>10. QED
  BY <1>7, <1>8, <1>9 DEF Accounts, Numbers

(* A step that changes the innermost frame.                                *)
LEMMA AccountsTurned ==
  ASSUME frames \in Seq(Frame), Numbers, Accounts, Turning
  PROVE  Accounts' /\ Numbers'
<1>1. PICK f \in Frame : /\ frames' = WithTop(f)
                         /\ handles' = handles - FrameHandles(Top) + FrameHandles(f)
  BY DEF Turning
<1>2. If(pc = "done") = 0 /\ If(pc' = "done") = 0 /\ frames # <<>>
  BY DEF Turning, If
<1>3. Balance(frames, handles, contexts)
  <2>1. handles + If(pc = "done") = handles
    BY <1>2 DEF Numbers
  <2>2. QED
    BY <2>1 DEF Accounts
<1>4. /\ FrameHandles(f) \in Nat /\ FrameHandles(Top) \in Nat
      /\ Caller \in Seq(Frame)
  BY <1>2, CallerFrames, HandlesOfFrame
<1>5. Balance(Caller, handles - FrameHandles(Top), contexts - 1)
  BY <1>2, <1>3, BalancePopped DEF Numbers
<1>6. Balance(frames', handles - FrameHandles(Top) + FrameHandles(f), contexts - 1 + 1)
  <2>1. handles - FrameHandles(Top) \in Int /\ contexts - 1 \in Int
    BY <1>4 DEF Numbers
  <2>2. QED
    BY <1>1, <1>4, <1>5, <2>1, BalancePushed DEF WithTop
<1>7. contexts - 1 + 1 = contexts' /\ contexts' \in Int
  BY DEF Turning, Numbers
<1>8. /\ handles' + If(pc' = "done") = handles - FrameHandles(Top) + FrameHandles(f)
      /\ handles' \in Int
  BY <1>1, <1>2, <1>4 DEF Numbers
<1>9. QED
  BY <1>6, <1>7, <1>8 DEF Accounts, Numbers

(* A step that leaves a frame.                                             *)
LEMMA AccountsDropped ==
  ASSUME frames \in Seq(Frame), Numbers, Accounts, Dropping
  PROVE  Accounts' /\ Numbers'
<1>1. If(pc = "done") = 0 /\ If(pc' = "done") = 0 /\ frames # <<>>
  BY DEF Dropping, EndContainer, If
<1>2. Balance(frames, handles, contexts)
  <2>1. handles + If(pc = "done") = handles
    BY <1>1 DEF Numbers
  <2>2. QED
    BY <2>1 DEF Accounts
<1>3. /\ frames' = Caller
      /\ handles' = handles - FrameHandles(Top) /\ contexts' = contexts - 1
  BY DEF Dropping, EndContainer
<1>4. Balance(frames', handles', contexts')
  BY <1>1, <1>2, <1>3, BalancePopped DEF Numbers
<1>5. FrameHandles(Top) \in Nat
  BY <1>1, CallerFrames, HandlesOfFrame
<1>6. Numbers' /\ handles' + If(pc' = "done") = handles'
  BY <1>1, <1>3, <1>5 DEF Numbers
<1>7. QED
  BY <1>4, <1>6 DEF Accounts

(* The return of dumps, and steps of no account.                           *)
LEMMA AccountsReturned ==
  ASSUME Numbers, Accounts, Returned \/ Resting
  PROVE  Accounts' /\ Numbers'
<1>1. CASE Returned
  <2>1. If(pc = "done") = 0 /\ If(pc' = "done") = 1
    BY <1>1 DEF Returned, If
  <2>2. handles' + If(pc' = "done") = handles + If(pc = "done") /\ handles' \in Int
    BY <1>1, <2>1 DEF Returned, Numbers
  <2>3. QED
    BY <1>1, <2>2 DEF Accounts, Returned, Numbers
<1>2. CASE Resting
  BY <1>2 DEF Resting, Accounts, Numbers
<1>3. QED
  BY <1>1, <1>2

(* The accounts and the numbers are invariants.                            *)
LEMMA AccountsInvariant == Spec => [](Accounts /\ Numbers)
<1>1. ASSUME Init PROVE Accounts /\ Numbers
  <2>1. Held(<<>>, 1 + 0 - 0)
    BY HeldByNone
  <2>2. Balance(<<>>, 1 + 0, 0)
    BY <2>1 DEF Balance
  <2>3. If(pc = "done") = 0
    BY <1>1 DEF Init, If
  <2>4. QED
    BY <1>1, <2>2, <2>3 DEF Init, Accounts, Numbers
<1>2. ASSUME IInv, Accounts, Numbers, [Next]_vars PROVE (Accounts /\ Numbers)'
  <2>1. frames \in Seq(Frame) /\ Shape
    BY <1>2 DEF IInv, Types
  <2>2. QED
    BY <1>2, <2>1, AccountKinds, AccountsKept, AccountsPushed, AccountsTurned,
       AccountsDropped, AccountsReturned
<1>3. QED
  BY <1>1, <1>2, Invariant, PTL DEF Spec

(* When dumps returns, nothing is left open and no context is missing, but *)
(* for what a NULL string leaves and for what the list of keys replaces.   *)
THEOREM HandlesCorrect ==
  ASSUME "string" \notin Faults, KeyList => ~HasDefault
  PROVE  Spec => []NoHandleLeak
<1>1. ASSUME IInv, Accounts, Numbers PROVE NoHandleLeak
  <2>1. SUFFICES ASSUME pc = "done" PROVE handles = 0 /\ contexts = 0
    BY DEF NoHandleLeak
  <2>2. frames = <<>> /\ If(pc = "done") = 1 /\ Tidy
    BY <1>1, <2>1 DEF IInv, Shape, If, Tidy
  <2>3. Balance(<<>>, handles + 1, contexts) /\ handles + 1 \in Int
    BY <1>1, <2>2 DEF Accounts, Numbers
  <2>4. handles + 1 = 1 /\ contexts = 0
    BY <2>2, <2>3, BalanceOfNone
  <2>5. QED
    BY <1>1, <2>4 DEF Numbers
<1>2. QED
  BY <1>1, Invariant, AccountsInvariant, PTL

(* The variables the other invariants leave out.                           *)
OtherTypes ==
  /\ arg \in {"object", "null"}
  /\ pyErr \in BOOLEAN
  /\ nodes \in 0..MaxNodes
  /\ raised \in Fate
  /\ outcome \in {"none", "text", "exception"}

(* They keep their types.                                                  *)
LEMMA OtherTypesNext ==
  ASSUME OtherTypes, [Next]_vars
  PROVE  OtherTypes'
<1> USE DEF OtherTypes, Fate, Kept
<1>1. CASE EncodeTooDeep \/ EncodeBadName \/ EncodeInvalid
  BY <1>1 DEF EncodeTooDeep, EncodeBadName, EncodeInvalid
<1>2. CASE EncodeValue
  BY <1>2 DEF EncodeValue, Pending
<1>3. CASE EncodeBadFloat \/ EncodeRefused
  BY <1>3 DEF EncodeBadFloat, EncodeRefused, Pending
<1>4. CASE EncodeNoString
  BY <1>4, BoundAssumption DEF EncodeNoString
<1>5. CASE BeginArray \/ BeginObject
  <2>1. PICK type \in {"list", "tuple", "dict"}, n \in 0..MaxSize, d \in Chain :
          BeginContainer(type, n, d)
    BY <1>5 DEF BeginArray, BeginObject
  <2>2. /\ nodes' = nodes + 1 + n /\ nodes + 1 + n <= MaxNodes
        /\ pyErr' = Pending(d) /\ raised' = Kept(pyErr')
        /\ UNCHANGED <<arg, outcome>>
    BY <2>1 DEF BeginContainer
  <2>3. QED
    BY <2>2, BoundAssumption DEF Pending
<1>6. CASE FetchItem \/ FetchMissing \/ FetchMember
  BY <1>6 DEF FetchItem, FetchMissing, FetchMember
<1>7. CASE AbandonDict
  BY <1>7 DEF AbandonDict, Raises, EndContainer
<1>8. CASE CloseContainer \/ Unwind \/ NextItem
  BY <1>8 DEF CloseContainer, Unwind, NextItem, EndContainer
<1>9. CASE Finish
  BY <1>9 DEF Finish
<1>10. CASE Stopped \/ UNCHANGED vars
  BY <1>10 DEF Stopped, vars
<1>11. QED
  BY <1>1, <1>2, <1>3, <1>4, <1>5, <1>6, <1>7, <1>8, <1>9, <1>10 DEF Next

(* Every variable has its type, whatever fails: no handle is closed twice  *)
(* and no context is given back twice.                                     *)
THEOREM TypeCorrect == Spec => []TypeOK
<1>1. Init => OtherTypes
  <2>1. 0 \in 0..MaxNodes
    BY BoundAssumption
  <2>2. QED
    BY <2>1 DEF Init, OtherTypes, Fate
<1>2. ASSUME IInv, Accounts, Numbers, OtherTypes PROVE TypeOK
  <2>1. frames \in Seq(Frame) /\ handles + If(pc = "done") \in Int
    BY <1>2 DEF IInv, Types, Numbers, If
  <2>2. handles + If(pc = "done") >= 1 /\ contexts \in Nat
    BY <1>2, <2>1, BalanceIsPositive DEF Accounts
  <2>3. If(pc = "done") \in {0, 1}
    BY DEF If
  <2>4. handles \in Nat
    BY <1>2, <2>2, <2>3 DEF Numbers
  <2>5. /\ text.open \in Seq({"[", "{"}) /\ text.last \in Token \cup {"start"}
        /\ text.garbled \in BOOLEAN
    BY <1>2 DEF IInv, Types, Text
  <2>6. QED
    BY <1>2, <2>2, <2>4, <2>5 DEF IInv, Types, OtherTypes, TypeOK
<1>3. QED
  BY <1>1, <1>2, OtherTypesNext, Invariant, AccountsInvariant, PTL DEF Spec
==============================================================================
