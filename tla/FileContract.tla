----------------------------- MODULE FileContract -----------------------------
(***************************************************************************)
(* What dumps, dump, loads and load promise: a text or a value is made     *)
(* once, load reads before that, dump writes after that and nothing else,  *)
(* and the caller gets a value only when all of it was done, or else an    *)
(* exception.                                                              *)
(***************************************************************************)
EXTENDS Sequences

VARIABLES
  call,      (* The function called, or "none".                            *)
  file,      (* The calls made on the file.                                *)
  made,      (* The text or the value was made.                             *)
  outcome    (* "none", "value" or "raised".                               *)

vars == <<call, file, made, outcome>>

Init == call = "none" /\ file = <<>> /\ made = FALSE /\ outcome = "none"

Begin ==
  /\ call = "none" /\ outcome = "none"
  /\ call' \in {"dumps", "dump", "loads", "load"}
  /\ UNCHANGED <<file, made, outcome>>

Before == IF call = "load" THEN <<"read">> ELSE <<>>
After == IF call = "dump" THEN <<"write">> ELSE Before

Read ==
  /\ call = "load" /\ file = <<>> /\ outcome = "none"
  /\ file' = Before
  /\ UNCHANGED <<call, made, outcome>>

Make ==
  /\ call # "none" /\ file = Before /\ ~made /\ outcome = "none"
  /\ made' = TRUE
  /\ UNCHANGED <<call, file, outcome>>

Write ==
  /\ call = "dump" /\ made /\ file = <<>> /\ outcome = "none"
  /\ file' = After
  /\ UNCHANGED <<call, made, outcome>>

Return ==
  /\ made /\ file = After /\ outcome = "none"
  /\ outcome' = "value"
  /\ UNCHANGED <<call, file, made>>

Raise ==
  /\ outcome = "none"
  /\ outcome' = "raised"
  /\ UNCHANGED <<call, file, made>>

Next == Begin \/ Read \/ Make \/ Write \/ Return \/ Raise

(* Whatever is done is done in this order.                                 *)
Safety == Init /\ [][Next]_vars

(* A call comes to its end once it has begun.                              *)
Spec == Safety /\ WF_vars(Return \/ Raise)
==============================================================================
