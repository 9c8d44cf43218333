------------------------------- MODULE Entry -------------------------------
(***************************************************************************)
(* What the entry points of the bindings have in common.  A call from      *)
(* Python is a chain of calls of the C API, each of which may fail with an *)
(* exception, and on every path the function has to give back what it      *)
(* holds: handles, references, buffers and memory of its own.  An action   *)
(* is one such call, or several in a row whose failures are handled alike; *)
(* which of them fail is not data of the model.                            *)
(***************************************************************************)
EXTENDS Sequences

CONSTANTS Bindings, Calls

Binding == {"universal", "cpython", "classic"}
Call == {"dumps", "dump", "loads", "load"}

ASSUME BindingsAssumption == Bindings \subseteq Binding
ASSUME CallsAssumption == Calls \subseteq Call

VARIABLES
  binding,   (* ujson_hpy on one of its two ABIs, or ujson.                *)
  globals,   (* The HPyGlobals that module_exec could store.               *)
  call,      (* The function called, "none" during the import.             *)
  pc,        (* The next call of the C API.                                *)
  open,      (* What the function holds and has to give back.              *)
  raw,       (* What the pointers given to the core point into.            *)
  text,      (* What JSON_EncodeObject returned: NULL, the buffer on the   *)
             (* stack, or memory.                                          *)
  err,       (* An exception is pending.                                   *)
  file,      (* History: the calls made on the file.                       *)
  made,      (* History: encode gave a text, or decode a value.            *)
  result     (* What the caller got: a value or NULL.                      *)

setup == <<binding, globals, call>>
core == <<raw, text>>
history == <<file, made>>
vars == <<setup, pc, open, core, err, history, result>>

(* A call of the C API went well: what it gave, and what is closed next.   *)
Succeeds(next, gained, closed) ==
  /\ pc' = next
  /\ open' = (open \ closed) \cup gained
  /\ UNCHANGED <<setup, core, err, history, result>>

(* It failed, or the function raises: what is closed before it returns.    *)
Fails(closed) ==
  /\ err' = TRUE
  /\ pc' = "returned" /\ result' = "null"
  /\ open' = open \ closed
  /\ UNCHANGED <<setup, core, history>>

Returns(closed) ==
  /\ pc' = "returned" /\ result' = "value"
  /\ open' = open \ closed
  /\ UNCHANGED <<setup, core, err, history>>

Init ==
  /\ binding \in Bindings /\ globals = {} /\ call = "none"
  /\ pc = IF binding = "classic" THEN "createModule" ELSE "create"
  /\ open = {} /\ raw = {} /\ text = "none" /\ err = FALSE
  /\ file = <<>> /\ made = FALSE /\ result = "none"

HPy == binding # "classic"

(***************************************************************************)
(* The import of ujson_hpy: module_exec.  What cannot be had of builtins   *)
(* and decimal is done without.                                            *)
(***************************************************************************)
Both == {"version", "error"}
ExecCreate ==
  /\ pc = "create"
  /\ \/ Succeeds("setVersion", Both, {})
     \/ Fails(Both)

ExecSetVersion ==
  /\ pc = "setVersion"
  /\ Succeeds("setError", {}, {"version"}) \/ Fails(Both)

ExecSetError ==
  /\ pc = "setError"
  /\ Succeeds("modules", {}, {"error"}) \/ Fails({"error"})

(* The second import is made with the exception of the first pending.      *)
Modules == {"builtins", "decimal"}
ExecImport ==
  /\ pc = "modules"
  /\ \E found \in SUBSET Modules : open' = found /\ err' = (found # Modules)
  /\ pc' = "types"
  /\ UNCHANGED <<setup, core, history, result>>

Types == {"bytearray", "memoryview"}
ExecTypes ==
  /\ pc = "types"
  /\ IF "builtins" \in open
       THEN /\ globals' \in SUBSET Types
            /\ err' = (err /\ globals' = Types)
       ELSE /\ err' = FALSE
            /\ UNCHANGED globals
  /\ open' = open \ {"builtins"}
  /\ pc' = "decimal"
  /\ UNCHANGED <<binding, call, core, history, result>>

ExecDecimal ==
  /\ pc = "decimal"
  /\ err' \in IF "decimal" \in open THEN {FALSE, err} ELSE {FALSE}
  /\ open' = open \ {"decimal"}
  /\ pc' = "idle"
  /\ UNCHANGED <<setup, core, history, result>>

(***************************************************************************)
(* A call, and its arguments.  HPy keeps them in a tracker, which          *)
(* HPyArg_ParseKeywords leaves empty when it fails.                        *)
(***************************************************************************)
BeginCall ==
  /\ pc = "idle"
  /\ call' \in Calls
  /\ pc' = "parse"
  /\ UNCHANGED <<binding, globals, open, core, err, history, result>>

Parse(first) ==
  /\ pc = "parse"
  /\ \/ Succeeds(first, IF HPy THEN {"ht"} ELSE {}, {})
     \/ Fails({})

(* The method of the file: no attribute, no value of it, not callable.     *)
FileMethod(method, next) ==
  \/ /\ pc = "method"
     /\ Succeeds("callable", {method}, {}) \/ Fails({"ht"})
  \/ /\ pc = "callable"
     /\ Succeeds(next, {}, {}) \/ Fails({method, "ht"})

Stopped == pc = "returned" /\ UNCHANGED vars
==============================================================================
