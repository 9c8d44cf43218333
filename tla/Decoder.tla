------------------------------- MODULE Decoder -------------------------------
(***************************************************************************)
(* The JSON decoder of UltraJSON (lib/ultrajsondec.c) driving the callbacks*)
(* and the value pool of the HPy binding (python/ujson_hpy.c), for one     *)
(* call of loads.                                                          *)
(*                                                                         *)
(* The recursion decode_any / decode_array / decode_object is an explicit  *)
(* stack of frames.  The text is a sequence of tokens: white space is      *)
(* skipped by the code wherever the model looks at the next token, a       *)
(* "string" and a "scalar" (number, literal, NaN, Infinity) stand for their*)
(* whole text, and "bad" for text at which the scanner of a value calls    *)
(* SetError.  How strings and numbers are scanned is not modelled here.    *)
(*                                                                         *)
(* The scanner goes by the bytes, and only a NUL stops it everywhere: the  *)
(* end of the text is compared with ds->start when all is decoded, and is  *)
(* told to decodeDouble, which reads no further.  A str, bytes and         *)
(* bytearray have a NUL behind their last byte, and the universal ABI      *)
(* copies every other object into bytes.  The CPython ABI and the classic  *)
(* binding pass on the memory of a buffer as it is (a memoryview, an       *)
(* array.array), behind whose last byte there may be anything.  The model  *)
(* lets it be any tokens, as far as the next NUL.                          *)
(***************************************************************************)
EXTENDS Naturals, Sequences, FiniteSets

CONSTANTS
  Document,    (* The texts loads may be given, and the memory they are in.*)
  MaxDepth,    (* JSON_MAX_OBJECT_DEPTH.                                   *)
  Slot,        (* The HpyJsonValue cells of the value pool.                *)
  NoSlot,      (* The NULL JSOBJ.                                          *)
  MaxFaults    (* How many calls into Python or malloc may fail.           *)

Token == {"arrayBegin", "arrayEnd", "objectBegin", "objectEnd", "colon",
          "comma", "string", "scalar", "bad"}

(* text: the cbBuffer bytes loads was given.  memory: what the scanner sees*)
(* from their first byte to the first NUL behind them.  cut: the text ends *)
(* in a token, or in white space, that runs on in the memory behind it: an *)
(* integer or a literal that goes on (1 of 12, tru of true), a string whose*)
(* quote is behind the text.  No double is cut, for decodeDouble ends it   *)
(* with the text, and what is behind is the next token; if the text has no *)
(* digit of it the scanner stays in front of it ("scalar" and then "bad"). *)
RunsOn == {<<"scalar", "bad">>, <<"bad", "scalar">>, <<"bad", "string">>}
Input == [text : Seq(Token), memory : Seq(Token), cut : BOOLEAN]
ASSUME DocumentAssumption ==
  \A d \in Document :
    /\ d \in Input
    /\ Len(d.text) <= Len(d.memory)
    /\ d.cut => d.text # <<>>
    /\ \A i \in DOMAIN d.text :
         \/ d.memory[i] = d.text[i]
         \/ d.cut /\ i = Len(d.text) /\ <<d.text[i], d.memory[i]>> \in RunsOn
ASSUME DepthAssumption == MaxDepth \in Nat
ASSUME SlotAssumption == NoSlot \notin Slot
ASSUME FaultAssumption == MaxFaults \in Nat

VARIABLES
  input,     (* The text and its memory (buffer, cbBuffer).                *)
  pos,       (* ds->start, counted in tokens.                              *)
  pc,        (* Where the decoder is.                                      *)
  frames,    (* The activations of decode_array and decode_object.         *)
  ret,       (* The JSOBJ a finished decode_* call returned.               *)
  lastType,  (* ds->lastType: "utf8", another type, or JT_INVALID.         *)
  objDepth,  (* ds->objDepth.                                              *)
  errorStr,  (* dec->errorStr.                                             *)
  pyErr,     (* The Python exception pending in the HPyContext.            *)
  cell,      (* The object each pool cell holds, "free" when in the list.  *)
  outcome,   (* What loads gave its caller.                                *)
  faults,    (* Failures injected so far.                                  *)
  lostItem   (* History: some item or member was not stored.               *)

textVars == <<input, pos>>
errVars  == <<errorStr, pyErr>>
poolVars == <<cell, faults>>
vars == <<input, pos, pc, frames, ret, lastType, objDepth, errorStr, pyErr,
          cell, outcome, faults, lostItem>>

Object  == {"string", "scalar", "list", "dict"}
Message == {"depth_limit", "expected_value", "array_value", "object_value",
            "key_not_string", "no_colon", "trailing_data", "no_buffer"}
JSOBJ   == Slot \cup {NoSlot}
Frame   == [kind : {"list", "dict"}, obj : JSOBJ, key : JSOBJ,
            first : BOOLEAN, at : {"key", "item"}]

(***************************************************************************)
(* Helpers.  The scanner sees the memory, up to the NUL.                   *)
(***************************************************************************)
Peek == IF pos <= Len(input.memory) THEN input.memory[pos] ELSE "nul"
AtEnd == pos = Len(input.text) + 1 /\ ~input.cut

(* A text with a NUL behind it.                                            *)
Terminated == input.memory = input.text /\ ~input.cut

Top == frames[Len(frames)]
Caller == SubSeq(frames, 1, Len(frames) - 1)
WithTop(frame) == [frames EXCEPT ![Len(frames)] = frame]
Closer(kind) == IF kind = "list" THEN "arrayEnd" ELSE "objectEnd"

Live == {c \in Slot : cell[c] # "free"}
FreeCell == CHOOSE c \in Slot : cell[c] = "free"

(* The depth counter and its limit.                                        *)
EnterUncounted == objDepth
Enter == objDepth + 1
TooDeepLate == objDepth > MaxDepth
TooDeep == Enter > MaxDepth

(* A callback that makes an object: hpy_decoder_value_new on its handle, or*)
(* the NULL that goes with the exception of the call that failed: for want *)
(* of memory, or for the limit on the digits of an int.                    *)
NewValueSilent(object, c) ==
  /\ \/ /\ c = FreeCell
        /\ c \in Slot \ Live
        /\ cell' = [cell EXCEPT ![c] = object]
        /\ UNCHANGED faults
     \/ /\ c = NoSlot
        /\ faults < MaxFaults
        /\ faults' = faults + 1
        /\ UNCHANGED cell
  /\ UNCHANGED pyErr
NewValue(object, c) ==
  \/ /\ c = FreeCell
     /\ c \in Slot \ Live
     /\ cell' = [cell EXCEPT ![c] = object]
     /\ UNCHANGED <<pyErr, faults>>
  \/ /\ c = NoSlot
     /\ faults < MaxFaults
     /\ faults' = faults + 1
     /\ pyErr' = "CallError"
     /\ UNCHANGED cell

(* releaseObject on each of cs; on NULL it does nothing.                   *)
Release(cs) == cell' = [c \in Slot |-> IF c \in cs THEN "free" ELSE cell[c]]

Init ==
  /\ input \in Document
  /\ pos = 1
  /\ pc = "value"
  /\ frames = <<>>
  /\ ret = NoSlot
  /\ lastType = "invalid"
  /\ objDepth = 0
  /\ errorStr = "none"
  /\ pyErr = "none"
  /\ cell = [c \in Slot |-> "free"]
  /\ outcome = "none"
  /\ faults = 0
  /\ lostItem = FALSE

(***************************************************************************)
(* decode_any on a value that is not a container: what decode_numeric, the *)
(* literals and decode_string scanned goes to the callback that makes it.  *)
(***************************************************************************)
ScannedTo(next, object, type) ==
  /\ pc = "value"
  /\ Peek = object
  /\ lastType' = type
  /\ pos' = next
  /\ \E c \in JSOBJ : NewValue(object, c) /\ ret' = c
  /\ pc' = "return"
  /\ UNCHANGED <<input, frames, objDepth, errorStr, outcome, lostItem>>

Scanned(object, type) == ScannedTo(pos + 1, object, type)

DecodeScalar == Scanned("scalar", "other")
DecodeString == pos <= Len(input.text) /\ Scanned("string", "utf8")

(* A double that begins where the text ends: decodeDouble reads none of it,*)
(* for the value 0.0.                                                      *)
DecodeNothing == AtEnd /\ ScannedTo(pos, "scalar", "other")

(* decode_string cannot get its buffer for the decoded text: for want of   *)
(* memory, or as the string begins behind the end of the text, where the   *)
(* size it asks for is negative, and as a size_t too large.                *)
DecodeNoBuffer ==
  /\ pc = "value"
  /\ Peek = "string"
  /\ \/ pos > Len(input.text) /\ UNCHANGED faults
     \/ faults < MaxFaults /\ faults' = faults + 1
  /\ lastType' = "invalid"
  /\ pos' = pos + 1
  /\ errorStr' = "no_buffer"
  /\ ret' = NoSlot
  /\ pc' = "return"
  /\ UNCHANGED <<input, frames, objDepth, pyErr, cell, outcome, lostItem>>

DecodeUnexpected ==
  /\ pc = "value"
  /\ Peek \notin {"string", "scalar", "arrayBegin", "objectBegin"}
  /\ errorStr' = "expected_value"
  /\ ret' = NoSlot
  /\ pc' = "return"
  /\ UNCHANGED <<textVars, frames, lastType, objDepth, pyErr, poolVars, outcome,
                 lostItem>>

(***************************************************************************)
(* The head of decode_array and decode_object.  A container that could not *)
(* be allocated is not noticed: the frame goes on with a NULL newObj.      *)
(***************************************************************************)
BeginTooDeep ==
  /\ pc = "value"
  /\ Peek \in {"arrayBegin", "objectBegin"}
  /\ TooDeep
  /\ objDepth' = Enter
  /\ errorStr' = "depth_limit"
  /\ ret' = NoSlot
  /\ pc' = "return"
  /\ UNCHANGED <<textVars, frames, lastType, pyErr, poolVars, outcome,
                 lostItem>>

BeginArray ==
  /\ pc = "value"
  /\ Peek = "arrayBegin"
  /\ ~TooDeep
  /\ objDepth' = Enter
  /\ \E c \in JSOBJ :
       /\ NewValue("list", c)
       /\ frames' = Append(frames, [kind |-> "list", obj |-> c, key |-> NoSlot,
                                    first |-> TRUE, at |-> "item"])
  /\ lastType' = "invalid"
  /\ pos' = pos + 1
  /\ pc' = "loop"
  /\ UNCHANGED <<input, ret, errorStr, outcome, lostItem>>

BeginObject ==
  /\ pc = "value"
  /\ Peek = "objectBegin"
  /\ ~TooDeep
  /\ objDepth' = Enter
  /\ \E c \in JSOBJ :
       /\ NewValue("dict", c)
       /\ frames' = Append(frames, [kind |-> "dict", obj |-> c, key |-> NoSlot,
                                    first |-> TRUE, at |-> "key"])
  /\ pos' = pos + 1
  /\ pc' = "loop"
  /\ UNCHANGED <<input, ret, lastType, errorStr, outcome, lostItem>>

(***************************************************************************)
(* The head of the loop: an end right after the opening bracket closes the *)
(* container, an end after a comma is an error, anything else is a value.  *)
(***************************************************************************)
LoopClose ==
  /\ pc = "loop"
  /\ Peek = Closer(Top.kind)
  /\ objDepth' = objDepth - 1
  /\ IF Top.first
       THEN /\ pos' = pos + 1
            /\ ret' = Top.obj
            /\ UNCHANGED <<errorStr, cell>>
       ELSE /\ Release({Top.obj})
            /\ errorStr' = IF Top.kind = "list" THEN "array_value"
                                                ELSE "object_value"
            /\ ret' = NoSlot
            /\ UNCHANGED pos
  /\ frames' = Caller
  /\ pc' = "return"
  /\ UNCHANGED <<input, lastType, pyErr, outcome, faults, lostItem>>

LoopNext ==
  /\ pc = "loop"
  /\ Peek # Closer(Top.kind)
  /\ lastType' = IF Top.kind = "dict" THEN "invalid" ELSE lastType
  /\ pc' = "value"
  /\ UNCHANGED <<textVars, frames, ret, objDepth, errVars, poolVars, outcome,
                 lostItem>>

(***************************************************************************)
(* A decode_any called by a frame returned.                                *)
(***************************************************************************)

(* What a frame that fails for good has to release.                        *)
HeldByTopNoName == {Top.obj}
HeldByTop == {Top.obj, Top.key}

(* NULL: the frame releases what it holds and returns NULL in its turn.    *)
ChildFailedGoesOn ==
  /\ pc = "return" /\ frames # <<>> /\ ret = NoSlot
  /\ pc' = "loop"
  /\ UNCHANGED <<textVars, frames, ret, lastType, objDepth, errVars, poolVars,
                 outcome, lostItem>>
ChildFailed ==
  /\ pc = "return" /\ frames # <<>> /\ ret = NoSlot
  /\ Release(HeldByTop)
  /\ frames' = Caller
  /\ UNCHANGED <<textVars, pc, ret, lastType, objDepth, errVars, outcome, faults,
                 lostItem>>

(* The test of a member's name: ds->lastType says that a string was decoded *)
(* last, which a container that ends with a string satisfies too.          *)
NameIsStringAny == TRUE
NameIsString == lastType = "utf8"

Refused == {Top.obj, ret}

(* No string, or no ':' after it.                                          *)
KeyRefused ==
  /\ pc = "return" /\ frames # <<>> /\ ret # NoSlot
  /\ Top.at = "key"
  /\ \/ /\ ~NameIsString
        /\ errorStr' = "key_not_string"
        /\ UNCHANGED pos
     \/ /\ NameIsString
        /\ Peek # "colon"
        /\ errorStr' = "no_colon"
        /\ pos' = pos + 1
  /\ Release(Refused)
  /\ ret' = NoSlot
  /\ frames' = Caller
  /\ UNCHANGED <<input, pc, lastType, objDepth, pyErr, outcome, faults,
                 lostItem>>

KeyRead ==
  /\ pc = "return" /\ frames # <<>> /\ ret # NoSlot
  /\ Top.at = "key"
  /\ NameIsString
  /\ Peek = "colon"
  /\ frames' = WithTop([Top EXCEPT !.key = ret, !.at = "item"])
  /\ pos' = pos + 1
  /\ ret' = NoSlot
  /\ pc' = "value"
  /\ UNCHANGED <<input, lastType, objDepth, errVars, poolVars, outcome,
                 lostItem>>

(* Decoder_arrayAddItem: a failed append leaves its exception pending and  *)
(* is not reported to the core.                                            *)
ArrayAddItemCleared ==
  /\ \/ UNCHANGED <<faults, lostItem>>
     \/ /\ faults < MaxFaults
        /\ faults' = faults + 1
        /\ lostItem' = TRUE
  /\ UNCHANGED pyErr
  /\ Release({ret})
ArrayAddItem ==
  /\ \/ UNCHANGED <<pyErr, faults, lostItem>>
     \/ /\ faults < MaxFaults
        /\ faults' = faults + 1
        /\ pyErr' = "CallError"
        /\ lostItem' = TRUE
  /\ Release({ret})

(* Decoder_objectAddKey: the name must be hashable, so a str; a failure is *)
(* replaced by a JSONDecodeError and is not reported to the core either.   *)
ObjectAddKey ==
  /\ \/ /\ cell[Top.key] \notin {"list", "dict"}
        /\ UNCHANGED <<pyErr, faults, lostItem>>
     \/ /\ cell[Top.key] \in {"list", "dict"}
        /\ pyErr' = "JSONDecodeError"
        /\ lostItem' = TRUE
        /\ UNCHANGED faults
     \/ /\ faults < MaxFaults
        /\ faults' = faults + 1
        /\ pyErr' = "JSONDecodeError"
        /\ lostItem' = TRUE
  /\ Release({Top.key, ret})

(* arrayAddItem or objectAddKey, then the switch on what follows the item. *)
AddItem ==
  /\ pc = "return" /\ frames # <<>> /\ ret # NoSlot
  /\ Top.at = "item" /\ Top.obj # NoSlot
  /\ IF Top.kind = "list" THEN ArrayAddItem ELSE ObjectAddKey
  /\ frames' = WithTop([Top EXCEPT !.key = NoSlot])
  /\ ret' = NoSlot
  /\ pc' = "separator"
  /\ UNCHANGED <<textVars, lastType, objDepth, errorStr, outcome>>

(* The same on a NULL newObj, which both callbacks dereference.            *)
AddToNull ==
  /\ pc = "return" /\ frames # <<>> /\ ret # NoSlot
  /\ Top.at = "item" /\ Top.obj = NoSlot
  /\ pc' = "crashed"
  /\ UNCHANGED <<textVars, frames, ret, lastType, objDepth, errVars, poolVars,
                 outcome, lostItem>>

SeparatorClose ==
  /\ pc = "separator"
  /\ Peek = Closer(Top.kind)
  /\ pos' = pos + 1
  /\ objDepth' = objDepth - 1
  /\ ret' = Top.obj
  /\ frames' = Caller
  /\ pc' = "return"
  /\ UNCHANGED <<input, lastType, errVars, poolVars, outcome, lostItem>>

SeparatorComma ==
  /\ pc = "separator"
  /\ Peek = "comma"
  /\ pos' = pos + 1
  /\ frames' = WithTop([Top EXCEPT
                 !.first = FALSE,
                 !.at = IF Top.kind = "dict" THEN "key" ELSE "item"])
  /\ pc' = "loop"
  /\ UNCHANGED <<input, ret, lastType, objDepth, errVars, poolVars, outcome,
                 lostItem>>

SeparatorUnexpected ==
  /\ pc = "separator"
  /\ Peek \notin {"comma", Closer(Top.kind)}
  /\ pos' = pos + 1
  /\ Release({Top.obj})
  /\ errorStr' = IF Top.kind = "list" THEN "array_value" ELSE "object_value"
  /\ ret' = NoSlot
  /\ frames' = Caller
  /\ pc' = "return"
  /\ UNCHANGED <<input, lastType, objDepth, pyErr, outcome, faults, lostItem>>

(***************************************************************************)
(* The outermost decode_any returned: JSON_DecodeObject looks for trailing *)
(* data, and hpy_loads_decode_raw turns the outcome into a Python result.  *)
(***************************************************************************)
HasTrailingAlways == ~AtEnd
HasTrailingBefore ==
  errorStr = "none" /\ pos <= Len(input.text) /\ ret # NoSlot
HasTrailing == errorStr = "none" /\ ~AtEnd /\ ret # NoSlot

CheckTrailing ==
  /\ pc = "return" /\ frames = <<>>
  /\ IF HasTrailing
       THEN /\ Release({ret})
            /\ errorStr' = "trailing_data"
            /\ ret' = NoSlot
       ELSE UNCHANGED <<cell, errorStr, ret>>
  /\ pc' = "finish"
  /\ UNCHANGED <<textVars, frames, lastType, objDepth, pyErr, outcome, faults,
                 lostItem>>

(* A pending exception wins over errorStr, and errorStr over a NULL result. *)
Raise ==
  /\ pc = "finish"
  /\ \/ pyErr # "none" /\ pyErr' = pyErr
     \/ pyErr = "none" /\ errorStr # "none" /\ pyErr' = "JSONDecodeError"
     \/ pyErr = "none" /\ errorStr = "none" /\ ret = NoSlot
        /\ pyErr' = "RuntimeError"
  /\ Release({ret})
  /\ ret' = NoSlot
  /\ outcome' = "exception"
  /\ pc' = "done"
  /\ UNCHANGED <<textVars, frames, lastType, objDepth, errorStr, faults,
                 lostItem>>

(* The handle is detached from its cell and becomes the caller's.          *)
ReturnValue ==
  /\ pc = "finish"
  /\ pyErr = "none" /\ errorStr = "none" /\ ret # NoSlot
  /\ Release({ret})
  /\ ret' = NoSlot
  /\ outcome' = "value"
  /\ pc' = "done"
  /\ UNCHANGED <<textVars, frames, lastType, objDepth, errVars, faults,
                 lostItem>>

Stopped == pc \in {"done", "crashed"} /\ UNCHANGED vars

Next ==
  \/ DecodeScalar \/ DecodeString \/ DecodeNothing
  \/ DecodeNoBuffer \/ DecodeUnexpected
  \/ BeginTooDeep \/ BeginArray \/ BeginObject
  \/ LoopClose \/ LoopNext
  \/ ChildFailed \/ KeyRefused \/ KeyRead
  \/ AddItem \/ AddToNull
  \/ SeparatorClose \/ SeparatorComma \/ SeparatorUnexpected
  \/ CheckTrailing \/ Raise \/ ReturnValue
  \/ Stopped

(* One thread runs the call to its end: it never stops between two steps.  *)
Spec == Init /\ [][Next]_vars /\ WF_vars(Next)

(***************************************************************************)
(*                              Properties                                 *)
(***************************************************************************)

(* Every variable has its type.                                            *)
TypeOK ==
  /\ input \in Input
  /\ pos \in Nat
  /\ pc \in {"value", "loop", "return", "separator", "finish", "done", "crashed"}
  /\ frames \in Seq(Frame)
  /\ ret \in JSOBJ
  /\ lastType \in {"invalid", "utf8", "other"}
  /\ objDepth \in Nat
  /\ errorStr \in Message \cup {"none"}
  /\ pyErr \in {"none", "CallError", "JSONDecodeError", "RuntimeError"}
  /\ cell \in [Slot -> Object \cup {"free"}]
  /\ outcome \in {"none", "value", "exception"}
  /\ faults \in Nat
  /\ lostItem \in BOOLEAN

Held(i) == {frames[i].obj, frames[i].key} \ {NoSlot}

(* Every cell in use has exactly one owner: a frame (its newObj or its     *)
(* itemName) or the value being returned.  So no path of decode_array and  *)
(* decode_object releases a value twice, uses one it released, or drops    *)
(* one it should have released.                                            *)
OneOwner ==
  /\ Live = ((UNION {Held(i) : i \in DOMAIN frames}) \cup {ret}) \ {NoSlot}
  /\ \A i \in DOMAIN frames :
       /\ ret \notin Held(i)
       /\ frames[i].obj = frames[i].key => frames[i].obj = NoSlot
       /\ \A j \in DOMAIN frames \ {i} : Held(i) \cap Held(j) = {}

(* When loads returns, every handle the pool held was closed or handed to  *)
(* the caller: hpy_decoder_cleanup_value_pool frees the blocks without     *)
(* closing anything.                                                       *)
NothingLeaks == pc = "done" => Live = {}

(* loads returns a value only if nothing went wrong on the way: no message *)
(* of the core, no exception of a callback that could not report it        *)
(* (arrayAddItem and objectAddKey return void), and no item left out.      *)
ValueMeansComplete ==
  outcome = "value" => errorStr = "none" /\ pyErr = "none" /\ ~lostItem

(* A NULL result always comes with its reason: the "JSON decoder returned  *)
(* NULL" fallback of hpy_loads_decode_raw is never reached.                *)
NoSilentNull == pyErr # "RuntimeError"

(* While no error was set the scanner is within a terminated text or on its*)
(* NUL.  In the memory of a buffer nothing stops it at the end of the text:*)
(* there the check for trailing data sees to it that loads returns no value*)
(* with bytes from behind the text in it, and none that leaves some out.   *)
StaysInText ==
  /\ Terminated /\ errorStr = "none" => pos <= Len(input.text) + 1
  /\ outcome = "value" => AtEnd

(* The depth counter, which most error paths leave alone, is exact as long *)
(* as decoding goes on, and no more than MaxDepth frames are ever open.    *)
DepthExact ==
  /\ Len(frames) <= MaxDepth
  /\ (errorStr = "none" /\ pyErr = "none") => objDepth = Len(frames)

(* The first error of the core is the one reported: nothing on the way out *)
(* of the recursion overwrites errorStr.                                   *)
FirstErrorKept == [][errorStr # "none" => errorStr' = errorStr]_vars

(* The decoder uses a NULL container only after an allocation failed.      *)
CrashNeedsFault == pc = "crashed" => pyErr # "none"

(* A NULL has its reason wherever it goes: to the caller, or to a callback *)
(* that dereferences it.                                                   *)
NullHasReason == NoSilentNull /\ CrashNeedsFault

(* Every call of loads ends, whatever the text and the failures.           *)
Terminates == <>(pc \in {"done", "crashed"})
==============================================================================
