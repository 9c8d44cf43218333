--------------------------- MODULE MCStringScanner ---------------------------
(***************************************************************************)
(* StringScanner over texts that hold every kind of character and escape,  *)
(* whole and with any one byte dropped or replaced, or broken off, checked *)
(* against what strings mean by JsonStrings.                               *)
(***************************************************************************)
EXTENDS StringScanner, SequencesExt

(***************************************************************************)
(* The texts.                                                              *)
(***************************************************************************)
Quoted(bytes) == <<34>> \o bytes \o <<34>>

(* \ud83d and \ude00, escaped: U+1F600.                                    *)
EscHigh == <<92, 117, 100, 56, 51, 100>>
EscLow == <<92, 117, 68, 69, 48, 48>>

Whole ==
  {Quoted(<<97>> \o EscHigh \o EscLow),
   Quoted(EscHigh \o EscHigh \o EscLow \o EscLow),
   Quoted(EscHigh \o <<120>> \o EscLow),
   Quoted(EscHigh \o <<92, 110>> \o EscLow),
   Quoted(<<237, 160, 189>> \o EscLow),                \* a raw surrogate
   Quoted(EscHigh \o <<237, 184, 128>>),
   Quoted(EscHigh) \o <<44>> \o Quoted(EscLow),
   Quoted(<<92, 117, 48, 48, 101, 57, 195, 169, 226, 130, 172>>),
   Quoted(<<240, 159, 152, 128, 244, 143, 191, 191>>),
   Quoted(<<194, 128, 224, 160, 128, 240, 144, 128, 128>>),
   Quoted(<<92, 34, 92, 92, 92, 47, 92, 98, 92, 102, 92, 110, 92, 114,
            92, 116>>),
   Quoted(<<>>) \o <<44>> \o Quoted(<<97>>)}

Bytes == {0, 31, 34, 47, 56, 65, 70, 71, 92, 97, 99, 103, 117, 127, 128, 143,
          144, 159, 160, 191, 192, 193, 194, 224, 237, 239, 240, 244, 245,
          248, 255}

MCTexts ==
  Whole \cup UNION {
    {[t EXCEPT ![i] = b] : i \in DOMAIN t, b \in Bytes}
      \cup {RemoveAt(t, i) : i \in DOMAIN t}
      \cup {SubSeq(t, 1, i) : i \in DOMAIN t} : t \in Whole}
==============================================================================
