----------------------------- MODULE JsonAcceptor -----------------------------
(***************************************************************************)
(* What loads promises of a text: JSON of at most MaxDepth nested          *)
(* containers is accepted, anything else rejected, token by token.  The    *)
(* state of this pushdown automaton is what may come next, and the kinds   *)
(* of the containers that are open.  Only a failure, of memory, of a call  *)
(* into Python or of a buffer that runs on behind the text, makes it reject*)
(* what it should accept, and the one text it accepts that it should not is*)
(* the empty one, in a buffer in front of a number: that is taken for 0.0. *)
(***************************************************************************)
EXTENDS Naturals, Sequences

CONSTANT MaxDepth

VARIABLES
  input,    (* The text, a sequence of tokens.                             *)
  pos,      (* The next token; 0 when the text was rejected.               *)
  state,    (* What may come next, or the verdict.                         *)
  stack,    (* The open containers; empty when the text was rejected.      *)
  failed,   (* Something failed that the text is not to blame for.         *)
  behind    (* Right behind the text, in its buffer, stands a number.      *)

vars == <<input, pos, state, stack, failed, behind>>

Token == {"arrayBegin", "arrayEnd", "objectBegin", "objectEnd", "colon",
          "comma", "string", "scalar", "bad"}

Init ==
  /\ input \in Seq(Token)
  /\ pos = 1 /\ state = "value" /\ stack = <<>>
  /\ failed \in BOOLEAN /\ behind \in BOOLEAN

Peek == IF pos <= Len(input) THEN input[pos] ELSE "nul"
Innermost == stack[Len(stack)]
Outer == SubSeq(stack, 1, Len(stack) - 1)
Closer == IF Innermost = "list" THEN "arrayEnd" ELSE "objectEnd"
Element == IF Innermost = "list" THEN "value" ELSE "name"

(* A token is read.                                                        *)
Reads(next, kinds) ==
  /\ pos' = pos + 1 /\ state' = next /\ stack' = kinds
  /\ UNCHANGED <<input, failed, behind>>

Value == state = "value" /\ Peek \in {"string", "scalar"} /\ Reads("after", stack)
Name == state = "name" /\ Peek = "string" /\ Reads("colon", stack)
Colon == state = "colon" /\ Peek = "colon" /\ Reads("value", stack)

Opens(token, kind) ==
  /\ state = "value" /\ Peek = token /\ Len(stack) < MaxDepth
  /\ Reads("first", Append(stack, kind))
Open == Opens("arrayBegin", "list") \/ Opens("objectBegin", "dict")

Comma ==
  /\ state = "after" /\ stack # <<>> /\ Peek = "comma"
  /\ Reads(Element, stack)

Close ==
  /\ state \in {"first", "after"} /\ stack # <<>> /\ Peek = Closer
  /\ Reads("after", Outer)

(* After an opening bracket something else than the end: the first element.*)
Enter ==
  /\ state = "first" /\ Peek # Closer
  /\ state' = Element
  /\ UNCHANGED <<input, pos, stack, failed, behind>>

Accept ==
  /\ state = "after" /\ stack = <<>> /\ pos = Len(input) + 1
  /\ state' = "accepted"
  /\ UNCHANGED <<input, pos, stack, failed, behind>>

(* Where a value is missing at the end of the text, nothing may be read for*)
(* one; in a container that is noticed at the next token.                  *)
Nothing ==
  /\ state = "value" /\ pos = Len(input) + 1 /\ behind
  /\ state' = "after"
  /\ UNCHANGED <<input, pos, stack, failed, behind>>

Unexpected ==
  \/ /\ state = "value"
     /\ \/ Peek \notin {"string", "scalar", "arrayBegin", "objectBegin"}
        \/ Peek \notin {"string", "scalar"} /\ Len(stack) >= MaxDepth
  \/ state = "first" /\ Peek = "nul"
  \/ state = "name" /\ Peek # "string"
  \/ state = "colon" /\ Peek # "colon"
  \/ state = "after" /\ stack # <<>> /\ Peek \notin {"comma", Closer}
  \/ state = "after" /\ stack = <<>> /\ pos # Len(input) + 1

(* Once rejected a text stays so, whatever fails on the way out.           *)
Reject ==
  /\ failed' \in {failed, TRUE}
  /\ state # "accepted"
  /\ Unexpected \/ failed' \/ state = "rejected"
  /\ pos' = 0 /\ state' = "rejected" /\ stack' = <<>>
  /\ UNCHANGED <<input, behind>>

Next ==
  \/ Value \/ Name \/ Colon \/ Open \/ Comma \/ Close \/ Enter
  \/ Accept \/ Nothing \/ Reject

Spec == Init /\ [][Next]_vars
==============================================================================
