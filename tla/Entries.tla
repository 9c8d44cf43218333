------------------------------- MODULE Entries -------------------------------
(***************************************************************************)
(* A process that imports a binding and calls one of its functions.        *)
(***************************************************************************)
EXTENDS DumpEntry, LoadEntry, ClassicEntry, ClassicEncoder

EntriesInit == Init /\ tc = tcFresh

EntriesNext ==
  \/ /\ \/ ExecCreate \/ ExecSetVersion \/ ExecSetError \/ ExecImport
        \/ ExecTypes \/ ExecDecimal
        \/ BeginCall
        \/ DumpNext \/ LoadNext \/ ClassicNext
     /\ UNCHANGED context
  \/ ClassicEncoderNext
  \/ Stopped /\ UNCHANGED context

(* One thread runs the call to its end.                                    *)
Spec == /\ EntriesInit
        /\ [][EntriesNext]_<<vars, context>>
        /\ WF_<<vars, context>>(EntriesNext)

(***************************************************************************)
(*                              Properties                                 *)
(***************************************************************************)

(* Some returns of JSON_EncodeObject leave references of type contexts     *)
(* behind.  In both bindings encode returns at once when getStringValue    *)
(* gives NULL; the list of keys replaces newObj in ujson_hpy, and INVALID  *)
(* frees a context without newObj in ujson.                                *)
ClassicLeaves ==
  NestedLeft \cup
  (IF tc.ended THEN {} ELSE {"newObj", "context", "rawJSONValue"})
LeftByEncode ==
  CASE call \notin {"dumps", "dump"} -> {}
    [] HPy -> ContextsLeave
    [] OTHER -> ClassicLeaves

(* Whatever fails, nothing is held when the import or the call is over:    *)
(* not what dumps, dump, loads and load took themselves, on any path, and  *)
(* of the type contexts only what encode is known to leave.                *)
NothingHeld == pc \in {"idle", "returned"} => open \subseteq LeftByEncode

(* While the core encodes or decodes, and while the text is copied, the    *)
(* memory its pointers are in is held: the bytes of the separators, the    *)
(* object that was read, the buffer, the copy of a bytearray.              *)
InCore == {"encode", "encoded", "decode"}
            \cup {"begin", "iterNext", "item", "iterEnd", "end"}
MemoryHeld == pc \in InCore => raw \subseteq open

(* sort_keys, default and the code of the user decide how a container is   *)
(* iterated; a text has all the items of it, unless some were taken away.  *)
(* With sort_keys this is so for calls without default, and for keys that  *)
(* can be looked up: the others end the iteration early and silently.      *)
(* The comment of SortedDict_iterNext (python/objToJSON.c:282) says that   *)
(* its first call obtains the keys.                                        *)
EveryMemberWritten ==
  result = "value" /\ tc.there = tc.members => tc.written = tc.members

(* The outcome, if NULL and a pending exception agree, and the import      *)
(* leaves none pending for the call.                                       *)
Outcome ==
  CASE pc = "idle" /\ err -> "broken"
    [] pc # "returned" /\ ~(pc = "idle" /\ err) -> "none"
    [] pc = "returned" /\ result = "value" /\ ~err -> "value"
    [] pc = "returned" /\ result = "null" /\ err -> "raised"
    [] OTHER -> "broken"

Contract == INSTANCE FileContract WITH outcome <- Outcome

(* dump writes once, and only a text encode gave; load reads before it     *)
(* decodes; nothing else is done to the file; a value comes back exactly   *)
(* when no exception is pending; every call comes back; and the import     *)
(* ends with no exception pending.                                         *)
KeepsContract == Contract!Spec
==============================================================================
