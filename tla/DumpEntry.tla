------------------------------ MODULE DumpEntry ------------------------------
(***************************************************************************)
(* dumps and dump of ujson_hpy (python/ujson_hpy.c: hpy_dumps_impl,        *)
(* hpy_dump_impl and hpy_encode_python_object around JSON_EncodeObject).   *)
(***************************************************************************)
EXTENDS Entry

Dumping == HPy /\ call \in {"dumps", "dump"}

DumpsParse == Dumping /\ call = "dumps" /\ Parse("options")
DumpParse == Dumping /\ call = "dump" /\ Parse("method")
LookupWrite == Dumping /\ FileMethod("write", "options")

(* What the entry point closes when it stops.                              *)
DumperHolds == IF call = "dump" THEN {"write", "ht"} ELSE {"ht"}

(* The truth of four options, and the limit of the indentation.            *)
DumpOptions ==
  /\ Dumping /\ pc = "options"
  /\ Succeeds("separators", {}, {}) \/ Fails(DumperHolds)

(* hpy_encode_python_object frees the pool of type contexts on every path. *)
EncodeFails(closed) == Fails(closed \cup {"pool"} \cup DumperHolds)

(***************************************************************************)
(* hpy_encode_python_object: the separators.                               *)
(***************************************************************************)
NoSeparators ==
  /\ Dumping /\ pc = "separators"
  /\ Succeeds("d2s", {}, {})

(* A tuple of two, or an exception.                                        *)
GetItemSeparator ==
  /\ Dumping /\ pc = "separators"
  /\ Succeeds("getKeySep", {"itemSep"}, {}) \/ EncodeFails({})

GetKeySeparator ==
  /\ Dumping /\ pc = "getKeySep"
  /\ Succeeds("checkSeps", {"keySep"}, {}) \/ EncodeFails({"itemSep"})

CheckSeparators ==
  /\ Dumping /\ pc = "checkSeps"
  /\ Succeeds("itemUtf8", {}, {}) \/ EncodeFails({"itemSep", "keySep"})

ItemSeparatorUtf8 ==
  /\ Dumping /\ pc = "itemUtf8"
  /\ \/ Succeeds("itemChars", {"itemSepBytes"}, {"itemSep"})
     \/ EncodeFails({"itemSep", "keySep"})

(* The core gets a pointer into the bytes object.                          *)
PointsInto(bytes, next, closed) ==
  \/ /\ raw' = raw \cup {bytes}
     /\ pc' = next
     /\ UNCHANGED <<setup, open, text, err, history, result>>
  \/ EncodeFails(closed)

ItemSeparatorChars ==
  /\ Dumping /\ pc = "itemChars"
  /\ PointsInto("itemSepBytes", "keyUtf8", {"keySep", "itemSepBytes"})

ClosedByKeyAll == {"keySep", "itemSepBytes"}
ClosedByKey == {"keySep"}
LeftByKeyItem == {"keySep"}
LeftByKey == {"keySep", "itemSepBytes"}
KeySeparatorUtf8 ==
  /\ Dumping /\ pc = "keyUtf8"
  /\ \/ Succeeds("keyChars", {"keySepBytes"}, ClosedByKey)
     \/ EncodeFails(LeftByKey)

KeySeparatorChars ==
  /\ Dumping /\ pc = "keyChars"
  /\ PointsInto("keySepBytes", "d2s", {"itemSepBytes", "keySepBytes"})

InitD2s ==
  /\ Dumping /\ pc = "d2s"
  /\ Succeeds("root", {"d2s"}, {})

(***************************************************************************)
(* The encoding of the object.                                             *)
(***************************************************************************)
CoreHolds == {"d2s", "itemSepBytes", "keySepBytes"}

DupRoot ==
  /\ Dumping /\ pc = "root"
  /\ Succeeds("encode", {"root"}, {}) \/ EncodeFails(CoreHolds)

(* What type contexts leave open: what default returned, when the list of  *)
(* the keys is stored over it, and all that a context owns when            *)
(* getStringValue gives NULL and encode returns without endTypeContext.    *)
(* The context itself is memory of the pool.                               *)
ContextsLeave == {"newObj", "rawJSONValue"}

(* JSON_EncodeObject: a text, with or without an exception left pending by *)
(* a callback, or NULL with a message.                                     *)
Encode ==
  /\ Dumping /\ pc = "encode"
  /\ text' \in {"stack", "heap", "null"}
  /\ err' \in BOOLEAN
  /\ \E left \in SUBSET ContextsLeave :
       open' = (open \ (CoreHolds \cup {"root"})) \cup {"pool"} \cup left
                \cup (IF text' = "heap" THEN {"text"} ELSE {})
  /\ raw' = {"text"} \cap open'
  /\ pc' = "encoded"
  /\ UNCHANGED <<setup, history, result>>

EncodedAny == text # "null"
Encoded == text # "null" /\ ~err

EncodingFailed ==
  /\ Dumping /\ pc = "encoded" /\ ~Encoded
  /\ EncodeFails({"text"})

TextToBytes ==
  /\ Dumping /\ pc = "encoded" /\ Encoded
  /\ Succeeds("bytes", {"bytes"}, {"text"}) \/ EncodeFails({"text"})

TextToStr ==
  /\ Dumping /\ pc = "bytes"
  /\ \/ /\ made' = TRUE
        /\ open' = (open \ {"bytes", "pool"}) \cup {"string"}
        /\ pc' = IF call = "dump" THEN "pack" ELSE "made"
        /\ UNCHANGED <<setup, core, err, file, result>>
     \/ EncodeFails({"bytes"})

(***************************************************************************)
(* dumps hands the text over; dump writes it in one call.                  *)
(***************************************************************************)
ReturnText ==
  /\ Dumping /\ pc = "made"
  /\ Returns({"string", "ht"})

PackText ==
  /\ Dumping /\ pc = "pack"
  /\ Succeeds("write", {"args"}, {}) \/ Fails({"string", "write", "ht"})

WriteText ==
  /\ Dumping /\ pc = "write"
  /\ file' = Append(file, "write")
  /\ pc' = "written"
  /\ err' \in BOOLEAN
  /\ open' = IF err' THEN open ELSE open \cup {"writeResult"}
  /\ UNCHANGED <<setup, core, made, result>>

WriterHolds == {"args", "string", "write"}
TextWritten ==
  /\ Dumping /\ pc = "written"
  /\ IF err THEN Fails(WriterHolds \cup {"ht"})
            ELSE Returns(WriterHolds \cup {"writeResult", "ht"})

DumpNext ==
  \/ DumpsParse \/ DumpParse \/ LookupWrite \/ DumpOptions
  \/ NoSeparators \/ GetItemSeparator \/ GetKeySeparator \/ CheckSeparators
  \/ ItemSeparatorUtf8 \/ ItemSeparatorChars
  \/ KeySeparatorUtf8 \/ KeySeparatorChars \/ InitD2s
  \/ DupRoot \/ Encode \/ EncodingFailed \/ TextToBytes \/ TextToStr
  \/ ReturnText \/ PackText \/ WriteText \/ TextWritten
==============================================================================
