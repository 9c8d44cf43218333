---------------------------- MODULE ClassicEncoder ----------------------------
(***************************************************************************)
(* The type context of the classic binding (python/objToJSON.c:            *)
(* Object_beginTypeContext, the iterators and Object_endTypeContext), as   *)
(* encode drives it for the object given to dumps.  The references of the  *)
(* context are members of open; encoding an item is one step, which may    *)
(* leave references of its own behind.  The code of the user runs in it,   *)
(* and where keys are compared, converted and looked up: it may take       *)
(* members from the dict being iterated.                                   *)
(***************************************************************************)
EXTENDS Entry, Naturals

CONSTANTS
  Options,     (* The calls: sets of "sort" (sort_keys), "default", and    *)
               (* "badKey", a dict whose keys' __hash__ or __eq__ raises.  *)
  MaxMembers   (* The largest container.                                   *)

ASSUME OptionsAssumption ==
  Options \subseteq SUBSET {"sort", "default", "badKey"}
ASSUME MembersAssumption == MaxMembers \in Nat

VARIABLE tc    (* The type context, errorMsg, and what dumps was asked.    *)

context == <<tc>>
rest == <<setup, core, history, result>>

Encoding == binding = "classic" /\ call \in {"dumps", "dump"}

tcFresh ==
  [options |-> {}, type |-> "none", level |-> 0,
   index |-> 0, size |-> 0,         (* pc->index, pc->size                  *)
   members |-> 0, there |-> 0,      (* The items at first, and now.        *)
   written |-> 0, errorMsg |-> FALSE, ended |-> TRUE]

(* goto INVALID: the context is freed, newObj is not.                      *)
GotoInvalid ==
  /\ err' = TRUE
  /\ open' = open \ {"context"}
  /\ tc' = [tc EXCEPT !.errorMsg = TRUE, !.ended = FALSE]
  /\ pc' = "encodeReturns"
  /\ UNCHANGED rest

BeginTypeContext ==
  /\ Encoding /\ pc = "encode"
  /\ \E options \in Options :
       LET fresh == [tcFresh EXCEPT !.options = options]
       IN  \/ /\ open' = open \cup {"context"}
              /\ tc' = fresh
              /\ pc' = "begin"
              /\ UNCHANGED <<err, rest>>
           \/ /\ err' = TRUE
              /\ tc' = [fresh EXCEPT !.errorMsg = TRUE]
              /\ pc' = "encodeReturns"
              /\ UNCHANGED <<open, rest>>

(* The refusals of the type tests, the failures of toDict and __json__,    *)
(* and, after the last test, of default or for want of one.                *)
DefaultTooDeep == tc.level >= 3
Refuse == Encoding /\ pc = "begin" /\ GotoInvalid

CallDefault ==
  /\ Encoding /\ pc = "begin"
  /\ "default" \in tc.options /\ ~DefaultTooDeep
  /\ err' = FALSE
  /\ open' = open \cup {"newObj"}
  /\ tc' = [tc EXCEPT !.level = @ + 1]
  /\ UNCHANGED <<pc, rest>>

(* A literal or a number that is written, or a double that is refused.  An *)
(* integer of more than 63 bits clears what is pending.                    *)
EncodeScalar ==
  /\ Encoding /\ pc = "begin"
  /\ err' \in BOOLEAN
  /\ \E refused \in BOOLEAN :
       tc' = [tc EXCEPT !.type = "scalar", !.errorMsg = refused]
  /\ pc' = "end"
  /\ UNCHANGED <<open, rest>>

(* str and bytes, and the raw JSON of a wide integer or of __json__, which *)
(* the context owns.  getStringValue may keep bytes of its own.            *)
EncodeString(type, owned) ==
  /\ Encoding /\ pc = "begin"
  /\ \E bytes \in SUBSET {"utf8BytesObj"}, refused \in BOOLEAN :
       /\ open' = open \cup owned \cup bytes
       /\ tc' = [tc EXCEPT !.type = type, !.errorMsg = refused]
  /\ pc' = "end"
  /\ err' \in BOOLEAN /\ (err' => err)
  /\ UNCHANGED rest

EncodeUtf8 == EncodeString("utf8", {})
EncodeRaw == EncodeString("raw", {"rawJSONValue"})

(* getStringValue returns NULL: encode returns as it is.                   *)
NoStringValue ==
  /\ Encoding /\ pc = "begin"
  /\ \E owned \in SUBSET {"rawJSONValue"} : open' = open \cup owned
  /\ err' = TRUE
  /\ tc' = [tc EXCEPT !.ended = FALSE]
  /\ pc' = "encodeReturns"
  /\ UNCHANGED rest

(* A dict, of the caller or from toDict; SetupDictIter leaves size alone.  *)
BeginDict ==
  /\ Encoding /\ pc = "begin"
  /\ open' = open \cup {"dictObj"}
  /\ \E n \in 0..MaxMembers :
       tc' = [tc EXCEPT !.type = "dict", !.index = 0,
                        !.members = n, !.there = n]
  /\ pc' = "iterNext"
  /\ err' \in BOOLEAN /\ (err' => err)
  /\ UNCHANGED rest

BeginArray ==
  /\ Encoding /\ pc = "begin"
  /\ \E n \in 0..MaxMembers :
       tc' = [tc EXCEPT !.type = "array", !.index = 0, !.size = n,
                        !.members = n, !.there = n]
  /\ pc' = "iterNext"
  /\ UNCHANGED <<open, err, rest>>

(***************************************************************************)
(* iterNext.                                                               *)
(***************************************************************************)
Iterating(type) == Encoding /\ pc = "iterNext" /\ tc.type = type
Sorted == "sort" \in tc.options

NoMoreItems ==
  /\ pc' = "iterEnd"
  /\ UNCHANGED <<open, err, tc, rest>>

(* What the code of the user leaves in the container.                      *)
Left == IF tc.type = "dict" THEN 0..tc.there ELSE {tc.there}

(* -1: encode leaves the dict as it is.                                    *)
IterationFails(held, left, raises) ==
  /\ open' = held
  /\ tc' = [tc EXCEPT !.there = left]
  /\ err' = (err \/ raises)
  /\ pc' = "iterEnd"
  /\ UNCHANGED rest

(* An item, with its name; the one before is released.                     *)
HasItem(held, size, left) ==
  /\ open' = held
  /\ tc' = [tc EXCEPT !.index = @ + 1, !.size = size, !.there = left]
  /\ pc' = "item"
  /\ UNCHANGED <<err, rest>>

ArrayNext ==
  /\ Iterating("array")
  /\ IF tc.index < tc.size THEN HasItem(open, tc.size, tc.there)
                           ELSE NoMoreItems

DictNext ==
  /\ Iterating("dict") /\ ~Sorted
  /\ IF tc.index < tc.there
       THEN \E left \in Left :
              \/ HasItem(open \cup {"itemName"}, tc.size, left)
              \/ IterationFails(open \ {"itemName"}, left, TRUE)
       ELSE NoMoreItems

(* The sorted keys are kept in newObj.                                     *)
FirstCallNever == FALSE
FirstCall == "newObj" \notin open
Size == IF FirstCall THEN tc.there ELSE tc.size
Sort == IF FirstCall THEN {"newObj"} ELSE {}

SortFails ==
  /\ Iterating("dict") /\ Sorted /\ FirstCall
  /\ \E left \in Left : IterationFails(open, left, TRUE)

(* PyDict_GetItem gives NULL and no exception for a key that was taken from*)
(* the dict, and for one whose __hash__ or __eq__ raised.                  *)
SortedDictNext ==
  /\ Iterating("dict") /\ Sorted
  /\ IF tc.index < Size
       THEN \E left \in Left :
              \/ HasItem(open \cup Sort \cup {"itemName"}, Size, left)
              \/ IterationFails((open \ {"itemName"}) \cup Sort, left, TRUE)
              \/ /\ left < Size \/ "badKey" \in tc.options
                 /\ IterationFails(open \cup Sort \cup {"itemName"}, left,
                                   FALSE)
       ELSE /\ pc' = "iterEnd"
            /\ open' = open \cup Sort
            /\ UNCHANGED <<err, tc, rest>>

(***************************************************************************)
(* encode of the item, and what follows the loop.                          *)
(***************************************************************************)

(* What the values of an item can leave: newObj when one is INVALID, and   *)
(* all of a context when getStringValue gives NULL.                        *)
NestedLeft == {"nestedContext", "nestedNewObj", "nestedRawJSONValue"}

EncodeItem ==
  /\ Encoding /\ pc = "item"
  /\ err' \in BOOLEAN
  /\ \E failed \in BOOLEAN, left \in Left :
       /\ tc' = [tc EXCEPT !.errorMsg = failed, !.written = @ + 1,
                           !.there = left]
       /\ pc' = IF failed THEN "iterEnd" ELSE "iterNext"
  /\ \E nested \in SUBSET NestedLeft :
       /\ "nestedRawJSONValue" \in nested => "nestedContext" \in nested
       /\ open' = open \cup nested
  /\ UNCHANGED rest

IterEnd ==
  /\ Encoding /\ pc = "iterEnd"
  /\ open' = open \ {"itemName", "dictObj"}
  /\ pc' = "end"
  /\ UNCHANGED <<err, tc, rest>>

EndReleases == {"context", "newObj", "utf8BytesObj"}
                 \cup (IF tc.type = "raw" THEN {"rawJSONValue"} ELSE {})
EndTypeContext ==
  /\ Encoding /\ pc = "end"
  /\ open' = open \ EndReleases
  /\ pc' = "encodeReturns"
  /\ UNCHANGED <<err, tc, rest>>

(* Of JSON_EncodeObject's caller: the converter and the separators go.     *)
EncodeReturns ==
  /\ Encoding /\ pc = "encodeReturns"
  /\ text' \in IF tc.errorMsg THEN {"null"} ELSE {"stack", "heap"}
  /\ open' = (open \ {"d2s", "itemSepBytes", "keySepBytes"})
               \cup (IF text' = "heap" THEN {"text"} ELSE {})
  /\ raw' = {"text"} \cap open'
  /\ pc' = "encoded"
  /\ UNCHANGED <<setup, err, history, result, tc>>

ClassicEncoderNext ==
  \/ BeginTypeContext \/ Refuse \/ CallDefault \/ EncodeScalar
  \/ EncodeUtf8 \/ EncodeRaw \/ NoStringValue \/ BeginDict \/ BeginArray
  \/ ArrayNext \/ DictNext \/ SortFails \/ SortedDictNext
  \/ EncodeItem \/ IterEnd \/ EndTypeContext \/ EncodeReturns
==============================================================================
