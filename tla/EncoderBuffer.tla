---------------------------- MODULE EncoderBuffer ----------------------------
(***************************************************************************)
(* The output buffer of the JSON encoder of UltraJSON                      *)
(* (lib/ultrajsonenc.c): what encode reserves, and what it then appends    *)
(* without looking at the end of the buffer.                               *)
(*                                                                         *)
(* Bytes are counted, not spelled: a string of n bytes takes between n and *)
(* 6 * n once escaped, and any number of items may follow.  The callbacks  *)
(* of the binding choose what comes next, as in the module Encoder; a      *)
(* failure to allocate is not modelled.                                    *)
(***************************************************************************)
EXTENDS Integers, Sequences

CONSTANTS
  Indents,      (* The values of the option indent.                        *)
  ItemSep,      (* enc->itemSeparatorLength                                *)
  KeySep,       (* enc->keySeparatorLength                                 *)
  RecursionMax, (* enc->recursionMax                                       *)
  FixedMax,     (* 128: what numbers, literals and brackets take at most.  *)
  BufferSize,   (* The size of the buffer the caller provides.             *)
  Debug,        (* Whether DEBUG is defined: growth by just what is needed.*)
  Faults,       (* {"string"} when getStringValue may return NULL.         *)
  MaxLen,       (* The longest string.                                     *)
  MaxNodes      (* How many items there are in all.                        *)

ASSUME IndentAssumption == Indents \subseteq Int
ASSUME SeparatorAssumption == ItemSep \in Nat /\ KeySep \in Nat
ASSUME RecursionAssumption == RecursionMax \in Nat \ {0}
ASSUME SizeAssumption == FixedMax \in Nat \ {0} /\ BufferSize \in Nat \ {0}
ASSUME DebugAssumption == Debug \in BOOLEAN
ASSUME FaultAssumption == Faults \subseteq {"string"}
ASSUME BoundAssumption == MaxLen \in Nat /\ MaxNodes \in Nat

VARIABLES
  indent,   (* enc->indent: no line breaks when it is not positive.        *)
  pc,       (* Where encode is.                                            *)
  frames,   (* The activations of encode that iterate a container.         *)
  level,    (* enc->level                                                  *)
  failed,   (* enc->errorMsg is not NULL.                                  *)
  offset,   (* enc->offset - enc->start                                    *)
  size,     (* enc->end - enc->start                                       *)
  nodes,    (* Items so far.                                               *)
  drifted   (* History: encode returned for a NULL of getStringValue.      *)

vars == <<indent, pc, frames, level, failed, offset, size, nodes, drifted>>

Frame == [kind : {"array", "object"},
          reserve : Nat,            (* per_item_reserve, reserve_size      *)
          some : BOOLEAN]           (* count > 0                           *)

Top == frames[Len(frames)]
Caller == SubSeq(frames, 1, Len(frames) - 1)

(***************************************************************************)
(* The buffer.                                                             *)
(***************************************************************************)

(* Buffer_Realloc: the first doubling of the size that has cbNeeded bytes  *)
(* more than the size, not more than the offset.                           *)
Grown(cbNeeded) ==
  IF Debug
    THEN {offset + cbNeeded}
    ELSE {s \in (size + cbNeeded)..(2 * (size + cbNeeded) - 1) :
            \E k \in 1..cbNeeded : s = size * 2^k}

(* Buffer_Reserve: the free space is compared as a size_t.                 *)
Free(n) == offset > size \/ size - offset >= n
Reserve(n) == IF Free(n) THEN UNCHANGED size ELSE size' \in Grown(n)

Put(n) == offset' = offset + n

(* RESERVE_STRING, and what an escaped string may take.                    *)
ReserveStringTight(n) == 6 * n
ReserveString(n) == 2 + 6 * n
Escaped(n) == n..(6 * n)

(* The line breaks and the indentation of one line.                        *)
Newline == IF indent > 0 THEN 1 ELSE 0
Indentation(l) == IF indent > 0 /\ l > 0 THEN indent * l ELSE 0

(* What is reserved for the separator, the newline and the indentation of  *)
(* every item, computed once when the container starts.                    *)
ItemReserveShort == Indentation(level + 1) + ItemSep
ItemReserve == Indentation(level + 1) + ItemSep + 1

LeaveKept == level
Leave == level - 1

Init ==
  /\ indent \in Indents
  /\ pc = "encode"
  /\ frames = <<>>
  /\ level = 0
  /\ failed = FALSE
  /\ offset = 0
  /\ size = BufferSize
  /\ nodes = 0
  /\ drifted = FALSE

(***************************************************************************)
(* The entry of encode, and the name of a member.                          *)
(***************************************************************************)
EncodeTooDeep ==
  /\ pc = "encode"
  /\ level > RecursionMax
  /\ failed' = TRUE
  /\ pc' = "return"
  /\ UNCHANGED <<indent, frames, level, offset, size, nodes, drifted>>

Named == frames # <<>> /\ Top.kind = "object"

EncodeItem ==
  /\ pc = "encode" /\ level <= RecursionMax
  /\ ~Named
  /\ pc' = "value"
  /\ UNCHANGED <<indent, frames, level, failed, offset, size, nodes, drifted>>

EncodeName ==
  /\ pc = "encode" /\ level <= RecursionMax
  /\ Named
  /\ \E n \in 0..MaxLen : \E written \in Escaped(n) :
       /\ Reserve(ReserveString(n) + KeySep)
       /\ Put(1 + written + 1 + KeySep)
  /\ pc' = "value"
  /\ UNCHANGED <<indent, frames, level, failed, nodes, drifted>>

(* The escaping refuses the name after some of it was written.             *)
EncodeBadName ==
  /\ pc = "encode" /\ level <= RecursionMax
  /\ Named
  /\ \E n \in 1..MaxLen : \E written \in 0..(6 * (n - 1)) :
       /\ Reserve(ReserveString(n) + KeySep)
       /\ Put(1 + written)
  /\ failed' = TRUE
  /\ pc' = "return"
  /\ UNCHANGED <<indent, frames, level, nodes, drifted>>

(***************************************************************************)
(* The value, once beginTypeContext has told its type.                     *)
(***************************************************************************)

(* JT_INVALID, or a double that dconv refuses.                             *)
EncodeInvalid ==
  /\ pc = "value"
  /\ Reserve(FixedMax)
  /\ failed' = TRUE
  /\ level' = level - 1
  /\ pc' = "return"
  /\ UNCHANGED <<indent, frames, offset, nodes, drifted>>

(* Numbers and literals.                                                   *)
EncodeFixed ==
  /\ pc = "value"
  /\ Reserve(FixedMax)
  /\ \E written \in 1..FixedMax : Put(written)
  /\ level' = Leave
  /\ pc' = "return"
  /\ UNCHANGED <<indent, frames, failed, nodes, drifted>>

BeginContainer ==
  /\ pc = "value"
  /\ Reserve(FixedMax)
  /\ Put(1)
  /\ \E kind \in {"array", "object"} :
       frames' = Append(frames, [kind |-> kind, reserve |-> ItemReserve,
                                 some |-> FALSE])
  /\ pc' = "iter"
  /\ UNCHANGED <<indent, level, failed, nodes, drifted>>

BeginString ==
  /\ pc = "value"
  /\ Reserve(FixedMax)
  /\ pc' \in {"string", "raw"}
  /\ UNCHANGED <<indent, frames, level, failed, offset, nodes, drifted>>

(* getStringValue returns NULL: encode returns with its level.             *)
NoString ==
  /\ pc \in {"string", "raw"}
  /\ "string" \in Faults
  /\ drifted' = TRUE
  /\ pc' = "return"
  /\ UNCHANGED <<indent, frames, level, failed, offset, size, nodes>>

EncodeString ==
  /\ pc = "string"
  /\ \E n \in 0..MaxLen : \E written \in Escaped(n) :
       /\ Reserve(ReserveString(n))
       /\ Put(1 + written + 1)
  /\ level' = Leave
  /\ pc' = "return"
  /\ UNCHANGED <<indent, frames, failed, nodes, drifted>>

EncodeBadString ==
  /\ pc = "string"
  /\ \E n \in 1..MaxLen : \E written \in 0..(6 * (n - 1)) :
       /\ Reserve(ReserveString(n))
       /\ Put(1 + written)
  /\ failed' = TRUE
  /\ level' = Leave
  /\ pc' = "return"
  /\ UNCHANGED <<indent, frames, nodes, drifted>>

EncodeRaw ==
  /\ pc = "raw"
  /\ \E n \in 0..MaxLen : Reserve(n) /\ Put(n)
  /\ level' = Leave
  /\ pc' = "return"
  /\ UNCHANGED <<indent, frames, failed, nodes, drifted>>

(***************************************************************************)
(* The loop over the items of a container.                                 *)
(***************************************************************************)
NextItem ==
  /\ pc = "iter" /\ nodes < MaxNodes
  /\ Reserve(Top.reserve)
  /\ Put((IF Top.some THEN ItemSep ELSE 0) + Newline
               + Indentation(level + 1))
  /\ level' = level + 1
  /\ nodes' = nodes + 1
  /\ pc' = "encode"
  /\ UNCHANGED <<indent, frames, failed, drifted>>

(* iterNext of an object returns -1.                                       *)
AbandonObject ==
  /\ pc = "iter" /\ Top.kind = "object"
  /\ Reserve(Top.reserve)
  /\ frames' = Caller
  /\ level' = Leave
  /\ pc' = "return"
  /\ UNCHANGED <<indent, failed, offset, nodes, drifted>>

EndIter ==
  /\ pc = "iter"
  /\ IF Top.some /\ indent > 0
       THEN /\ Reserve(Indentation(level) + 1)
            /\ Put(Newline + Indentation(level))
       ELSE UNCHANGED <<offset, size>>
  /\ pc' = "close"
  /\ UNCHANGED <<indent, frames, level, failed, nodes, drifted>>

CloseContainer ==
  /\ pc = "close"
  /\ Reserve(1)
  /\ Put(1)
  /\ frames' = Caller
  /\ level' = Leave
  /\ pc' = "return"
  /\ UNCHANGED <<indent, failed, nodes, drifted>>

(* encode returned to the loop of its caller, or to JSON_EncodeObject.     *)
ItemDone ==
  /\ pc = "return" /\ frames # <<>> /\ ~failed
  /\ frames' = Append(Caller, [Top EXCEPT !.some = TRUE])
  /\ pc' = "iter"
  /\ UNCHANGED <<indent, level, failed, offset, size, nodes, drifted>>

Unwind ==
  /\ pc = "return" /\ frames # <<>> /\ failed
  /\ frames' = Caller
  /\ level' = Leave
  /\ UNCHANGED <<indent, pc, failed, offset, size, nodes, drifted>>

Finish ==
  /\ pc = "return" /\ frames = <<>>
  /\ pc' = "done"
  /\ UNCHANGED <<indent, frames, level, failed, offset, size, nodes, drifted>>

Stopped == pc = "done" /\ UNCHANGED vars

Next ==
  \/ EncodeTooDeep \/ EncodeItem \/ EncodeName \/ EncodeBadName
  \/ EncodeInvalid \/ EncodeFixed \/ BeginContainer \/ BeginString
  \/ NoString \/ EncodeString \/ EncodeBadString \/ EncodeRaw
  \/ NextItem \/ AbandonObject \/ EndIter \/ CloseContainer
  \/ ItemDone \/ Unwind \/ Finish
  \/ Stopped

Spec == Init /\ [][Next]_vars

(***************************************************************************)
(*                              Properties                                 *)
(***************************************************************************)

(* Every variable has its type.                                            *)
TypeOK ==
  /\ indent \in Int
  /\ pc \in {"encode", "value", "string", "raw", "iter", "close", "return",
             "done"}
  /\ frames \in Seq(Frame)
  /\ level \in Int
  /\ failed \in BOOLEAN
  /\ offset \in Nat
  /\ size \in Nat \ {0}
  /\ nodes \in Nat
  /\ drifted \in BOOLEAN

(* Nothing is written beyond the end of the buffer: the assertion of every *)
(* Buffer_Append*Unchecked of a DEBUG build.                               *)
InBounds == offset <= size

(* What encode reserves covers all it appends before it reserves again,    *)
(* whatever was nested in between, as long as the level is the depth.      *)
ReservedEnough == ~drifted => InBounds

(* The reservation of an open container, computed when it started, is      *)
(* still the one its next item needs.                                      *)
ReserveIsCurrent ==
  ~drifted /\ pc = "iter" => Top.reserve = ItemReserve
==============================================================================
