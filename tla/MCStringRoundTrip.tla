-------------------------- MODULE MCStringRoundTrip --------------------------
(***************************************************************************)
(* StringRoundTrip over strings that hold every kind of character, whole   *)
(* and with any one byte dropped or replaced, or broken off; over lone     *)
(* surrogates in a row; and with all combinations of the options.          *)
(***************************************************************************)
EXTENDS StringRoundTrip, SequencesExt

MCOptions == Option

Kinds == {0, 7, 8, 10, 31, 34, 38, 47, 62, 92, 97, 127, 128, 2047, 2048,
          55357, 56832, 65535, 65536, 128512, 1114111}
Surrogates == {55296, 56319, 56320, 57343}

Whole ==
  {<<>>} \cup {Utf8(a) \o Utf8(b) : a \in Kinds, b \in Kinds}
    \cup {Utf8(a) \o Utf8(b) \o Utf8(c) :
            a \in Surrogates, b \in Surrogates, c \in Surrogates \cup {97}}

Broken == {Utf8(a) \o Utf8(b) : a \in {34, 233, 8364, 128512, 1114111},
                                b \in {97, 2047, 55357, 65536}}
Bytes == {0, 31, 34, 97, 127, 128, 143, 144, 159, 160, 191, 192, 193, 194,
          223, 224, 237, 239, 240, 244, 245, 247, 248, 252, 254, 255}

MCStrings ==
  Whole \cup UNION {
    {[t EXCEPT ![i] = b] : i \in DOMAIN t, b \in Bytes}
      \cup {RemoveAt(t, i) : i \in DOMAIN t}
      \cup {SubSeq(t, 1, i) : i \in DOMAIN t} : t \in Broken}
==============================================================================
