------------------------------- MODULE Encoder -------------------------------
(***************************************************************************)
(* The JSON encoder of UltraJSON (lib/ultrajsonenc.c: encode and           *)
(* JSON_EncodeObject) driving the callbacks of the HPy binding             *)
(* (python/ujson_hpy.c), for one call of dumps.                            *)
(*                                                                         *)
(* The recursion of encode is an explicit stack of frames, one for each    *)
(* container being written.  The objects are not data of the model: what   *)
(* each object turns out to be is chosen when encode meets it, the code of *)
(* the user (default, toDict, __json__, the __str__ of a key) included,    *)
(* which may raise and may shrink the containers being iterated.           *)
(*                                                                         *)
(* Not modelled: the text of scalars, keys and separators, failures to     *)
(* allocate other than those of getStringValue, and the growth of the      *)
(* output buffer.                                                          *)
(***************************************************************************)
EXTENDS Integers, Sequences, FiniteSets

CONSTANTS
  Abi,           (* "cpython" or "universal": how HPy was built.           *)
  SortKeys,      (* The option sort_keys.                                  *)
  HasDefault,    (* Whether a default function was given.                  *)
  RecursionMax,  (* enc->recursionMax.                                     *)
  Faults,        (* What may go wrong beside a refused object, see Fault.  *)
  MaxSize,       (* The largest container.                                 *)
  MaxNodes       (* How many containers and items there are in all.        *)

(* "key": a key's __str__ or __hash__ raises; "shrink": the user's code    *)
(* shrinks a container; "string": getStringValue returns NULL; "float": the*)
(* conversion of what default returned to a double raises.                 *)
Fault == {"key", "shrink", "string", "float"}

ASSUME AbiAssumption == Abi \in {"cpython", "universal"}
ASSUME OptionAssumption == SortKeys \in BOOLEAN /\ HasDefault \in BOOLEAN
ASSUME RecursionAssumption == RecursionMax \in Nat \ {0}
ASSUME FaultsAssumption == Faults \subseteq Fault
ASSUME BoundAssumption == MaxSize \in Nat /\ MaxNodes \in Nat

VARIABLES
  pc,        (* Where the encoder is.                                      *)
  arg,       (* The obj of the encode about to start: an object or NULL.   *)
  frames,    (* The activations of encode that iterate a container.        *)
  level,     (* enc->level.                                                *)
  errorMsg,  (* enc->errorMsg.                                             *)
  pyErr,     (* Whether a Python exception is pending.                     *)
  handles,   (* How many HPy handles of the call are open.                 *)
  contexts,  (* How many type contexts are taken from the pool.            *)
  text,      (* What was written, as far as its brackets go: see Write.    *)
  nodes,     (* Containers and items chosen so far.                        *)
  raised,    (* History: what became of the last exception, see Fate.      *)
  outcome    (* What dumps gave its caller.                                *)

vars == <<pc, arg, frames, level, errorMsg, pyErr, handles, contexts, text,
          nodes, raised, outcome>>

(* An exception that refuses a value sets errorMsg as well: "refused".  One*)
(* of iterNext, of getStringValue or of a float is only "pending"; it is   *)
(* "lost" when a later look-up clears it, or CPython suppresses it.        *)
Fate == {"none", "refused", "pending", "lost"}

(* The history after a step that leaves an exception pending, or none.     *)
Kept(pending) == IF raised = "pending" /\ ~pending THEN "lost" ELSE raised

Frame == [type : {"list", "tuple", "dict"},
          index : Nat, size : Nat,  (* etc->index, etc->size               *)
          there : Nat,              (* Items the container still has.      *)
          some : BOOLEAN,           (* count > 0                           *)
          item : BOOLEAN,           (* etc->itemValue is not NULL.         *)
          name : BOOLEAN,           (* etc->itemName is a handle.          *)
          newObj : BOOLEAN,         (* etc->newObj is a handle.            *)
          fetched : BOOLEAN]        (* The item is the one iterNext found. *)

Top == frames[Len(frames)]
Caller == SubSeq(frames, 1, Len(frames) - 1)
WithTop(f) == Append(Caller, f)

(* hpy_setup_dict_iter takes a list of the keys, except on the CPython ABI *)
(* without sort_keys.                                                      *)
KeyList == Abi = "universal" \/ SortKeys

If(b) == IF b THEN 1 ELSE 0

(* The handles that iterEnd and endTypeContext close for a frame: on the   *)
(* CPython ABI itemValue is borrowed.                                      *)
ItemHandlesNull(f) == If(Abi = "universal")
ItemHandles(f) == If(f.item /\ Abi = "universal")
FrameHandlesNoName(f) ==
  ItemHandles(f) + If(f.newObj) + If(f.type = "dict")
FrameHandles(f) ==
  ItemHandles(f) + If(f.name) + If(f.newObj) + If(f.type = "dict")

(* iterEnd and endTypeContext for the innermost frame, and its return.     *)
LeaveKept == level
Leave == level - 1
EndContainer ==
  /\ handles' = handles - FrameHandles(Top)
  /\ contexts' = contexts - 1
  /\ level' = Leave
  /\ frames' = Caller
  /\ pc' = "return"

(***************************************************************************)
(* The text, abstracted to its unclosed brackets, the last token and       *)
(* whether some token stood where JSON does not allow it.                  *)
(***************************************************************************)
Token == {"value", "key", ",", "[", "]", "{", "}"}

Allowed(t, token) ==
  LET inside == IF t.open = <<>> THEN "top" ELSE t.open[Len(t.open)]
  IN  \/ /\ token \in {"value", "[", "{"}
         /\ t.last \in {"start", "[", "key"} \/ (t.last = "," /\ inside = "[")
      \/ token = "key" /\ inside = "{" /\ t.last \in {"{", ","}
      \/ token = ","   /\ inside # "top" /\ t.last = "value"
      \/ token = "]"   /\ inside = "[" /\ t.last \in {"[", "value"}
      \/ token = "}"   /\ inside = "{" /\ t.last \in {"{", "value"}

Write(t, token) ==
  [open |-> IF token \in {"[", "{"} THEN Append(t.open, token)
            ELSE IF token \in {"]", "}"} /\ t.open # <<>>
              THEN SubSeq(t.open, 1, Len(t.open) - 1) ELSE t.open,
   last |-> IF token \in {"]", "}"} THEN "value" ELSE token,
   garbled |-> t.garbled \/ ~Allowed(t, token)]

SeparateAlways(t, f) == Write(t, ",")
Separate(t, f) == IF f.some THEN Write(t, ",") ELSE t

Init ==
  /\ pc = "encode"
  /\ arg = "object"
  /\ frames = <<>>
  /\ level = 0
  /\ errorMsg = "none"
  /\ pyErr = FALSE
  /\ handles = 1             \* hpy_json_value_dup_as_jsobj(input)
  /\ contexts = 0
  /\ text = [open |-> <<>>, last |-> "start", garbled |-> FALSE]
  /\ nodes = 0
  /\ raised = "none"
  /\ outcome = "none"

(***************************************************************************)
(* The entry of encode.                                                    *)
(***************************************************************************)
TooDeepLate == level > RecursionMax + 1
TooDeep == level > RecursionMax

EncodeTooDeep ==
  /\ pc = "encode"
  /\ TooDeep
  /\ errorMsg' = "too_deep"
  /\ pc' = "return"
  /\ UNCHANGED <<arg, frames, level, pyErr, handles, contexts, text, nodes,
                 raised, outcome>>

(* The name of a member is not UTF-8: encode returns as it is.             *)
EncodeBadName ==
  /\ pc = "encode" /\ ~TooDeep
  /\ frames # <<>> /\ Top.type = "dict"
  /\ errorMsg' = "bad_name"
  /\ pc' = "return"
  /\ UNCHANGED <<arg, frames, level, pyErr, handles, contexts, text, nodes,
                 raised, outcome>>

(***************************************************************************)
(* beginTypeContext.  default is called d times, at most three, before the *)
(* object is one the encoder knows: every call is preceded by the failed   *)
(* look-up of toDict and __json__, whose AttributeError is cleared,        *)
(* together with any exception that was pending, and replaces newObj.      *)
(***************************************************************************)
Chain == IF HasDefault THEN 0..3 ELSE {0}
Pending(d) == d = 0 /\ pyErr

(* The frames after calls of the user's code, if there were any.           *)
AfterUser(called) ==
  IF called /\ "shrink" \in Faults
    THEN {frames} \cup
         UNION {{[frames EXCEPT ![i].there = n] : n \in 0..(frames[i].there - 1)}
                : i \in {j \in DOMAIN frames : frames[j].type # "tuple"}}
    ELSE {frames}

Begin == pc = "encode" /\ ~TooDeep /\ arg = "object"

(* JT_INVALID: an option or a type refuses the object, a callback raised or*)
(* returned a wrong type, the keys cannot be sorted, default was called too*)
(* often, or NULL was given for the object.  The context was released, but *)
(* newObj was overwritten by the list of the keys when sorting them failed.*)
InvalidSilent == errorMsg
Invalid == "invalid"
EncodeInvalid ==
  /\ pc = "encode" /\ ~TooDeep
  /\ IF arg = "null"
       THEN UNCHANGED <<frames, pyErr, raised, handles>>
       ELSE /\ \E d \in Chain, lost \in BOOLEAN :
                 /\ lost => d > 0 /\ SortKeys
                 /\ handles' = handles + If(lost)
            /\ frames' \in AfterUser(TRUE)
            /\ pyErr' = TRUE
            /\ raised' = "refused"
  /\ errorMsg' = Invalid
  /\ level' = level - 1
  /\ pc' = "return"
  /\ UNCHANGED <<arg, contexts, text, nodes, outcome>>

(* A literal, a number, a string or raw JSON that is written.  The probes  *)
(* of a wide integer and of a string with surrogates clear what is pending,*)
(* and so does the look-up of toDict before __json__ is called, whose text *)
(* is taken to be JSON.                                                    *)
EncodeValue ==
  /\ Begin
  /\ \E d \in Chain, user, probed \in BOOLEAN :
       /\ user /\ Pending(d) => probed
       /\ frames' \in AfterUser(user \/ d > 0)
       /\ pyErr' = (Pending(d) /\ ~probed)
  /\ raised' = Kept(pyErr')
  /\ text' = Write(text, "value")
  /\ level' = level - 1
  /\ pc' = "return"
  /\ UNCHANGED <<arg, errorMsg, handles, contexts, nodes, outcome>>

(* What default returned is a number that HPyFloat_AsDouble fails on, and  *)
(* the -1.0 that says so is written.                                       *)
EncodeBadFloat ==
  /\ Begin /\ HasDefault /\ "float" \in Faults
  /\ frames' \in AfterUser(TRUE)
  /\ pyErr' = TRUE
  /\ raised' = "pending"
  /\ text' = Write(text, "value")
  /\ level' = level - 1
  /\ pc' = "return"
  /\ UNCHANGED <<arg, errorMsg, handles, contexts, nodes, outcome>>

(* The escaping refuses the bytes, or dconv a NaN or an infinity.          *)
EncodeRefused ==
  /\ Begin
  /\ \E d \in Chain : pyErr' = Pending(d) /\ frames' \in AfterUser(d > 0)
  /\ raised' = Kept(pyErr')
  /\ errorMsg' = "refused"
  /\ level' = level - 1
  /\ pc' = "return"
  /\ UNCHANGED <<arg, handles, contexts, text, nodes, outcome>>

(* getStringValue returns NULL: encode returns without endTypeContext and  *)
(* without restoring the level.  owns: the context holds rawJSONValue.     *)
EncodeNoString ==
  /\ Begin /\ "string" \in Faults
  /\ nodes < MaxNodes
  /\ \E d \in Chain, owns \in BOOLEAN :
       /\ frames' \in AfterUser(owns \/ d > 0)
       /\ contexts' = contexts + If(owns \/ d > 0)
       /\ handles' = handles + If(owns) + If(d > 0)
  /\ nodes' = nodes + 1
  /\ pyErr' = TRUE
  /\ raised' = "pending"
  /\ pc' = "return"
  /\ UNCHANGED <<arg, level, errorMsg, text, outcome>>

(* A container of n items, found after d calls of default.  Without a list *)
(* of keys its context keeps what default returned in newObj; a list of    *)
(* keys is stored there without closing what it held.                      *)
BeginContainer(type, n, d) ==
  /\ nodes + 1 + n <= MaxNodes
  /\ nodes' = nodes + 1 + n
  /\ LET keys == type = "dict" /\ KeyList
         frame == [type |-> type, index |-> 0, size |-> n, there |-> n,
                   some |-> FALSE, item |-> FALSE, name |-> FALSE,
                   newObj |-> d > 0 \/ keys, fetched |-> FALSE]
     IN  /\ \E f \in AfterUser(d > 0 \/ keys) : frames' = Append(f, frame)
         /\ handles' = handles + If(type = "dict") + If(d > 0) + If(keys)
  /\ contexts' = contexts + 1
  /\ pyErr' = Pending(d)
  /\ raised' = Kept(pyErr')
  /\ text' = Write(text, IF type = "dict" THEN "{" ELSE "[")
  /\ pc' = "iter"
  /\ UNCHANGED <<arg, level, errorMsg, outcome>>

BeginArray ==
  /\ Begin
  /\ \E type \in {"list", "tuple"}, n \in 0..MaxSize, d \in Chain :
       BeginContainer(type, n, d)

(* A dict, or what toDict returned.  The call of toDict, and that of the   *)
(* sort method, fail when an exception is pending.                         *)
BeginObject ==
  /\ Begin
  /\ \E n \in 0..MaxSize, d \in Chain, toDict \in BOOLEAN :
       /\ toDict \/ SortKeys => ~Pending(d)
       /\ BeginContainer("dict", n, d)

(***************************************************************************)
(* The loop over the items.  PyDict_Next looks at the dict itself, the     *)
(* other iterators at the size the container had.                          *)
(***************************************************************************)
HasNextSized == Top.index < Top.size
HasNext == IF Top.type = "dict" /\ ~KeyList THEN Top.index < Top.there
                                            ELSE Top.index < Top.size

Replaced == handles - ItemHandles(Top) + If(Abi = "universal")

NextIndexKept(f) == f.index
NextIndex(f) == f.index + 1

FetchItem ==
  /\ pc = "iter" /\ HasNext
  /\ Top.type # "dict" /\ Top.index < Top.there
  /\ frames' = WithTop([Top EXCEPT !.index = NextIndex(Top),
                                   !.item = TRUE, !.fetched = TRUE])
  /\ handles' = Replaced
  /\ arg' = "object"
  /\ text' = Separate(text, Top)
  /\ level' = level + 1
  /\ pc' = "encode"
  /\ UNCHANGED <<errorMsg, pyErr, contexts, nodes, raised, outcome>>

(* The item is gone.  PyList_GET_ITEM reads what is no longer the list's;  *)
(* HPy_GetItem_i raises IndexError, and the -1 of iterNext is taken for    *)
(* one more item: the one before, or NULL.                                 *)
FetchMissing ==
  /\ pc = "iter" /\ HasNext
  /\ Top.type # "dict" /\ Top.index >= Top.there
  /\ IF Abi = "cpython"
       THEN /\ pc' = "undefined"
            /\ UNCHANGED <<arg, frames, level, pyErr, raised, text>>
       ELSE /\ pyErr' = TRUE
            /\ raised' = "pending"
            /\ frames' = WithTop([Top EXCEPT !.fetched = FALSE])
            /\ arg' = IF Top.item THEN "object" ELSE "null"
            /\ text' = Separate(text, Top)
            /\ level' = level + 1
            /\ pc' = "encode"
  /\ UNCHANGED <<errorMsg, handles, contexts, nodes, outcome>>

(* The separator and the name are written; encode writes the name once it  *)
(* has found the level to be right.                                        *)
FetchMember ==
  /\ pc = "iter" /\ HasNext
  /\ Top.type = "dict" /\ Top.index < Top.there
  /\ frames' = WithTop([Top EXCEPT !.index = NextIndex(Top), !.name = TRUE,
                                   !.item = TRUE, !.fetched = TRUE])
  /\ handles' = Replaced - If(Top.name) + 1
  /\ arg' = "object"
  /\ text' = Write(Separate(text, Top), "key")
  /\ level' = level + 1
  /\ pc' = "encode"
  /\ UNCHANGED <<errorMsg, pyErr, contexts, nodes, raised, outcome>>

(* iterNext returns -1: encode ends the dict as it is, without a message.  *)
(* The key is gone, its look-up fails, or it has no str.  PyDict_GetItem,  *)
(* the look-up on the CPython ABI, says nothing of its exceptions.         *)
Raises == pyErr' = TRUE /\ raised' = "pending"
AbandonDict ==
  /\ pc = "iter" /\ HasNext
  /\ Top.type = "dict"
  /\ \/ /\ Top.index >= Top.there
        /\ IF Abi = "universal" THEN Raises ELSE UNCHANGED <<pyErr, raised>>
     \/ /\ "key" \in Faults
        /\ \/ Raises
           \/ /\ Abi = "cpython" /\ SortKeys
              /\ raised' = IF raised = "none" THEN "lost" ELSE raised
              /\ UNCHANGED pyErr
  /\ EndContainer
  /\ UNCHANGED <<arg, errorMsg, text, nodes, outcome>>

CloseContainer ==
  /\ pc = "iter" /\ ~HasNext
  /\ text' = Write(text, IF Top.type = "dict" THEN "}" ELSE "]")
  /\ EndContainer
  /\ UNCHANGED <<arg, errorMsg, pyErr, nodes, raised, outcome>>

(***************************************************************************)
(* The return of encode to its caller.                                     *)
(***************************************************************************)
FailedInvalid == errorMsg = "invalid"
Failed == errorMsg # "none"

NextItem ==
  /\ pc = "return" /\ frames # <<>> /\ ~Failed
  /\ frames' = WithTop([Top EXCEPT !.some = TRUE])
  /\ pc' = "iter"
  /\ UNCHANGED <<arg, level, errorMsg, pyErr, handles, contexts, text, nodes,
                 raised, outcome>>

Unwind ==
  /\ pc = "return" /\ frames # <<>> /\ Failed
  /\ EndContainer
  /\ UNCHANGED <<arg, errorMsg, pyErr, text, nodes, raised, outcome>>

(* hpy_encode_python_object: the message, an OverflowError when nothing is *)
(* pending, or the pending exception, or the text.                         *)
Finish ==
  /\ pc = "return" /\ frames = <<>>
  /\ pyErr' = (pyErr \/ errorMsg # "none")
  /\ outcome' = IF pyErr' THEN "exception" ELSE "text"
  /\ handles' = handles - 1
  /\ pc' = "done"
  /\ UNCHANGED <<arg, frames, level, errorMsg, contexts, text, nodes, raised>>

Stopped == pc \in {"done", "undefined"} /\ UNCHANGED vars

Next ==
  \/ EncodeTooDeep \/ EncodeBadName \/ EncodeInvalid
  \/ EncodeValue \/ EncodeBadFloat \/ EncodeRefused \/ EncodeNoString
  \/ BeginArray \/ BeginObject
  \/ FetchItem \/ FetchMissing \/ FetchMember \/ AbandonDict \/ CloseContainer
  \/ NextItem \/ Unwind \/ Finish
  \/ Stopped

(* One thread runs the call to its end: it never stops between two steps.  *)
Spec == Init /\ [][Next]_vars /\ WF_vars(Next)

(***************************************************************************)
(*                              Properties                                 *)
(***************************************************************************)

(* Every variable has its type: no handle is closed more often than it was *)
(* opened.                                                                 *)
TypeOK ==
  /\ pc \in {"encode", "iter", "return", "done", "undefined"}
  /\ arg \in {"object", "null"}
  /\ frames \in Seq(Frame)
  /\ level \in Int
  /\ errorMsg \in {"none", "too_deep", "bad_name",
                   "invalid", "refused"}
  /\ pyErr \in BOOLEAN
  /\ handles \in Nat
  /\ contexts \in Nat
  /\ text.open \in Seq({"[", "{"}) /\ text.last \in Token \cup {"start"}
  /\ text.garbled \in BOOLEAN
  /\ nodes \in 0..MaxNodes
  /\ raised \in Fate
  /\ outcome \in {"none", "text", "exception"}

(* The level the limit and the indentation go by is the number of open     *)
(* containers, on every path back from encode that goes on encoding.       *)
LevelExact ==
  errorMsg = "none" =>
    /\ pc = "encode" => level = Len(frames)
    /\ pc \in {"iter", "return", "done"} => level = Len(frames) - 1

(* No more than recursionMax + 1 containers are ever open, the values that *)
(* leave the level wrong included.                                         *)
RecursionBound == Len(frames) <= RecursionMax + 1

(* When dumps returns, every handle it opened is closed, and every type    *)
(* context is back in the pool.                                            *)
NoHandleLeak == pc = "done" => handles = 0 /\ contexts = 0

(* dumps returns no text after an exception that refused a value, nor when *)
(* one of iterNext, of getStringValue or of a float is still to be told:   *)
(* the one is kept by errorMsg, which ends the encoding, the others live   *)
(* until some later value is looked up, and only those can be lost.        *)
RaisedMeansError == outcome = "text" => raised \notin {"refused", "pending"}

(* What dumps returns is a JSON text: one value, all brackets closed, no   *)
(* separator or name missing or in excess.                                 *)
TextIsJson ==
  outcome = "text" =>
    ~text.garbled /\ text.open = <<>> /\ text.last = "value"

(* As long as nothing was raised, what is written is the beginning of a    *)
(* JSON text, with a bracket open for every frame and no other: a dict     *)
(* that iterNext abandons leaves its bracket open, so it has to raise, and *)
(* every round of the loop of encode is for an item iterNext found.        *)
RaisedOrJson ==
  raised = "none" /\ errorMsg = "none" =>
    /\ pc = "encode" /\ frames # <<>> => Top.fetched
    /\ ~text.garbled
    /\ text.open = [i \in DOMAIN frames |->
                      IF frames[i].type = "dict" THEN "{" ELSE "["]

(* After an error was set, nothing more is encoded: all frames unwind.     *)
StopsAtFirstError == [][errorMsg # "none" => pc' # "encode"]_vars

(* Every call of dumps ends.                                               *)
Terminates == <>(pc \in {"done", "undefined"})
==============================================================================
