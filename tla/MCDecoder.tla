------------------------------ MODULE MCDecoder ------------------------------
(***************************************************************************)
(* Decoder on small texts, and the JSON grammar it is compared with.       *)
(***************************************************************************)
EXTENDS DecoderAcceptor, SequencesExt

CONSTANTS
  MaxShort,   (* Every sequence of up to MaxShort tokens is a text.        *)
  MaxSeed     (* Texts of up to MaxSeed tokens are varied by one token.    *)

(* The sequences of items of E, separated by commas, that are at most max  *)
(* tokens long.                                                            *)
Comma(f) == FlattenSeq([i \in 1..(2 * Len(f) - 1) |->
                         IF i % 2 = 1 THEN f[(i + 1) \div 2] ELSE <<"comma">>])
ListsOf(E, max) ==
  UNION {{Comma(f) : f \in [1..n -> {e \in E : Len(e) + 2 * (n - 1) <= max}]}
         : n \in 1..((max + 1) \div 2)}

(* The values of at most max tokens and of at most levels nested           *)
(* containers, the names of the members being strings or, when loose, any  *)
(* value.                                                                  *)
RECURSIVE Values(_, _, _)
Values(levels, max, loose) ==
  IF levels = 0 THEN {<<"string">>, <<"scalar">>} ELSE
    LET V == Values(levels - 1, max, loose)
        Names == IF loose THEN V ELSE {<<"string">>}
        Members == {k \o <<"colon">> \o v : k \in Names, v \in V}
        Between(l, S, r) == {l \o e \o r : e \in S \cup {<<>>}}
        Arrays == Between(<<"arrayBegin">>, ListsOf(V, max - 2), <<"arrayEnd">>)
        Objects == Between(<<"objectBegin">>, ListsOf(Members, max - 2),
                           <<"objectEnd">>)
    IN  {v \in V \cup Arrays \cup Objects : Len(v) <= max}

Count(s, S) == Cardinality({i \in DOMAIN s : s[i] \in S})
Nesting(s) == LET depth(i) == Count(SubSeq(s, 1, i), {"arrayBegin", "objectBegin"})
                              - Count(SubSeq(s, 1, i), {"arrayEnd", "objectEnd"})
              IN  IF s = <<>> THEN 0
                  ELSE CHOOSE d \in 0..Len(s) :
                         /\ \E i \in DOMAIN s : depth(i) = d
                         /\ \A i \in DOMAIN s : depth(i) <= d

(* JSON's texts, in tokens: a text varied by one token is one longer.      *)
Json == Values((MaxSeed + 1) \div 2, MaxSeed + 1, FALSE)

(* The texts checked: all the short ones; the well-formed ones, with any   *)
(* value in the place of a name, and their variants by one token.          *)
Short == UNION {[1..n -> Token] : n \in 0..MaxShort}
Seeds == Values(3, MaxSeed, TRUE)
Variants(s) ==
  {s} \cup {[s EXCEPT ![i] = t] : i \in DOMAIN s, t \in Token}
      \cup {SubSeq(s, 1, i - 1) \o SubSeq(s, i + 1, Len(s)) : i \in DOMAIN s}
      \cup {Append(s, t) : t \in Token}
Texts == Short \cup UNION {Variants(s) : s \in Seeds}

(* Where the texts are: with a NUL behind them, or in a buffer, a part of  *)
(* what the memory holds, which may be cut off in a token or white space.  *)
Kept(s) == [text |-> s, memory |-> s, cut |-> FALSE]
Parts(s) ==
  {[text |-> SubSeq(s, 1, n), memory |-> s, cut |-> FALSE] : n \in 0..Len(s)}
CutOff(s) ==
  {[text |-> SubSeq(s, 1, n), memory |-> s, cut |-> TRUE] : n \in 1..Len(s)}
  \cup
  UNION {{[text |-> Append(SubSeq(s, 1, n - 1), t), memory |-> s, cut |-> TRUE]
            : t \in {t \in Token : <<t, s[n]>> \in RunsOn}} : n \in DOMAIN s}
InBuffer == {s \in Short : Len(s) < MaxShort} \cup Seeds
Buffers == UNION {Parts(s) \cup CutOff(s) : s \in InBuffer}
MCDocument == {Kept(s) : s \in Texts} \cup Buffers

Accepted(text) == text \in Json /\ Nesting(text) <= MaxDepth

(* loads returns a value only for JSON nested at most MaxDepth deep (and   *)
(* for nothing at all, in a buffer in front of a number), and for all of it*)
(* when nothing runs out of memory, save for what a buffer cuts off: what  *)
(* decode_any, decode_array and decode_object accept together with         *)
(* objectAddKey and the check for trailing data is the grammar, the stale  *)
(* lastType lets no other key than a string through, and what stands behind*)
(* a text in its buffer makes no difference.                               *)
AcceptsJson ==
  /\ outcome = "value" =>
       Accepted(input.text) \/ (input.text = <<>> /\ NumberBehind)
  /\ pc = "done" /\ faults = 0 /\ Accepted(input.text) /\ ~input.cut =>
       outcome = "value"

(* The same of every text, whatever stands behind it in its buffer: what   *)
(* README.md:188 says of loads and C-contiguous bytes-like objects.        *)
AcceptsAnyBuffer ==
  pc = "done" /\ faults = 0 /\ Accepted(input.text) => outcome = "value"
==============================================================================
