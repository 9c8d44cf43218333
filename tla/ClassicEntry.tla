----------------------------- MODULE ClassicEntry -----------------------------
(***************************************************************************)
(* dumps, dump, loads and load of the classic binding (python/objToJSON.c: *)
(* objToJSON and objToJSONFile; python/JSONtoObj.c: JSONToObj and          *)
(* JSONFileToObj).  dump and load call dumps and loads as Python would,    *)
(* with a tuple of arguments.                                              *)
(***************************************************************************)
EXTENDS Entry

Classic(calls) == binding = "classic" /\ call \in calls
Dumps == Classic({"dumps", "dump"})
Loads == Classic({"loads", "load"})

(***************************************************************************)
(* The import: PyInit_ujson (python/ujson.c), outside PyPy.  The version,  *)
(* and the name Decimal of a decimal that was found, are taken to be there.*)
(***************************************************************************)
CreateModule ==
  /\ binding = "classic" /\ pc = "createModule"
  /\ Succeeds("importDecimal", {"module"}, {}) \/ Fails({})

(* The type is the module's from here; without one PyErr_Clear is called.  *)
ImportDecimal ==
  /\ pc = "importDecimal"
  /\ Succeeds("newException", {}, {})

(* One reference for the module's attribute and one for the binding.       *)
NewException ==
  /\ pc = "newException"
  /\ \/ Succeeds("idle", {}, {"module"})
     \/ Fails({"module"})

(***************************************************************************)
(* objToJSONFile, up to its call of objToJSON.                             *)
(***************************************************************************)
ClassicDumpParse == Dumps /\ call = "dump" /\ Parse("method")
ClassicLookupWrite == Dumps /\ FileMethod("write", "packData")

ClassicPackData ==
  /\ Dumps /\ pc = "packData"
  /\ Succeeds("parseArgs", {"args"}, {}) \/ Fails({"write"})

WriteHolds == {"write", "args"}
ClassicFails(closed) == Fails(closed \cup WriteHolds)

(***************************************************************************)
(* objToJSON.                                                              *)
(***************************************************************************)
ClassicDumpsParse ==
  /\ Dumps
  /\ \/ call = "dumps" /\ Parse("options")
     \/ /\ pc = "parseArgs"
        /\ Succeeds("options", {}, {}) \/ ClassicFails({})

(* An exception of __bool__ is not looked at, and stays pending.           *)
ClassicOptions ==
  /\ Dumps /\ pc = "options"
  /\ \/ /\ err' \in BOOLEAN /\ pc' = "separators"
        /\ UNCHANGED <<setup, open, core, history, result>>
     \/ ClassicFails({})

(* None, or a tuple of two str, borrowed from the caller's argument.       *)
ClassicNoSeparators ==
  /\ Dumps /\ pc = "separators"
  /\ Succeeds("d2s", {}, {})
ClassicSeparators ==
  /\ Dumps /\ pc = "separators"
  /\ Succeeds("itemUtf8", {}, {}) \/ ClassicFails({})

(* PyUnicodeToUTF8Raw points into the str if it is ASCII, else into bytes  *)
(* made from it.                                                           *)
SeparatorChars(bytes, next) ==
  \/ Succeeds(next, {}, {})
  \/ /\ open' = open \cup {bytes} /\ raw' = raw \cup {bytes} /\ pc' = next
     /\ UNCHANGED <<setup, text, err, history, result>>
  \/ ClassicFails({"itemSepBytes", "keySepBytes"})

ClassicItemSeparator ==
  /\ Dumps /\ pc = "itemUtf8"
  /\ SeparatorChars("itemSepBytes", "keyUtf8")
ClassicKeySeparator ==
  /\ Dumps /\ pc = "keyUtf8"
  /\ SeparatorChars("keySepBytes", "d2s")

ClassicInitD2s ==
  /\ Dumps /\ pc = "d2s"
  /\ Succeeds("encode", {"d2s"}, {})

ClassicEncodingFailed ==
  /\ Dumps /\ pc = "encoded"
  /\ text = "null" \/ err
  /\ ClassicFails({"text"})

ClassicTextToStr ==
  /\ Dumps /\ pc = "encoded"
  /\ text # "null" /\ ~err
  /\ \/ /\ made' = TRUE
        /\ open' = (open \ {"text"}) \cup {"string"}
        /\ pc' = "made"
        /\ UNCHANGED <<setup, core, err, file, result>>
     \/ ClassicFails({"text"})

ClassicReturnText ==
  /\ Classic({"dumps"}) /\ pc = "made"
  /\ Returns({"string"})

(***************************************************************************)
(* objToJSONFile, after it.                                                *)
(***************************************************************************)
ClassicPackText ==
  /\ Classic({"dump"}) /\ pc = "made"
  /\ \/ Succeeds("write", {"textArgs"}, {"args"})
     \/ Fails({"args", "write", "string"})

ClassicWriteText ==
  /\ Dumps /\ pc = "write"
  /\ file' = Append(file, "write")
  /\ pc' = "written"
  /\ err' \in BOOLEAN
  /\ open' = IF err' THEN open ELSE open \cup {"writeResult"}
  /\ UNCHANGED <<setup, core, made, result>>

ClassicWriterHolds == {"write", "string", "textArgs"}
ClassicTextWritten ==
  /\ Dumps /\ pc = "written"
  /\ IF err THEN Fails(ClassicWriterHolds)
            ELSE Returns(ClassicWriterHolds \cup {"writeResult"})

(***************************************************************************)
(* JSONFileToObj, up to its call of JSONToObj.                             *)
(***************************************************************************)
ClassicLoadParse == Loads /\ call = "load" /\ Parse("method")
ClassicLookupRead == Loads /\ FileMethod("read", "read")

ClassicReadText ==
  /\ Loads /\ pc = "read"
  /\ file' = Append(file, "read")
  /\ pc' = "wasRead"
  /\ err' \in BOOLEAN
  /\ open' = (open \ {"read"}) \cup (IF err' THEN {} ELSE {"string"})
  /\ UNCHANGED <<setup, core, made, result>>

(* The tuple may be NULL, which JSONToObj's parsing of its arguments takes *)
(* for a wrong call.                                                       *)
ClassicTextRead ==
  /\ Loads /\ pc = "wasRead"
  /\ IF err THEN Fails({}) ELSE
       \/ Succeeds("parseArgs", {"args"}, {})
       \/ Fails({"string"})

(***************************************************************************)
(* JSONToObj, and the end of both.                                         *)
(***************************************************************************)
ReadHolds == {"args", "string"}
ClassicLoadsParse ==
  /\ Loads
  /\ \/ call = "loads" /\ Parse("buffer")
     \/ /\ pc = "parseArgs"
        /\ Succeeds("buffer", {}, {}) \/ Fails(ReadHolds)

(* The buffer of the object, or, when it has none and is a str, of bytes   *)
(* it is encoded to; the exception for having none is cleared.             *)
ClassicBuffer ==
  /\ Loads /\ pc = "buffer"
  /\ \/ \E memory \in {"buffer", "bytes"} :
          /\ open' = open \cup {memory} /\ raw' = {memory}
          /\ pc' = "decode"
          /\ UNCHANGED <<setup, text, err, history, result>>
     \/ Fails(ReadHolds)

ClassicDecode ==
  /\ Loads /\ pc = "decode"
  /\ err' \in BOOLEAN
  /\ made' = ~err'
  /\ open' = open \ {"buffer", "bytes"}
  /\ pc' = "decoded"
  /\ UNCHANGED <<setup, core, file, result>>

ClassicLoadDone ==
  /\ Loads /\ pc = "decoded"
  /\ IF err THEN Fails(ReadHolds) ELSE Returns(ReadHolds)

ClassicNext ==
  \/ CreateModule \/ ImportDecimal \/ NewException
  \/ ClassicDumpParse \/ ClassicLookupWrite \/ ClassicPackData
  \/ ClassicDumpsParse \/ ClassicOptions
  \/ ClassicNoSeparators \/ ClassicSeparators
  \/ ClassicItemSeparator \/ ClassicKeySeparator \/ ClassicInitD2s
  \/ ClassicEncodingFailed \/ ClassicTextToStr
  \/ ClassicReturnText \/ ClassicPackText \/ ClassicWriteText
  \/ ClassicTextWritten
  \/ ClassicLoadParse \/ ClassicLookupRead \/ ClassicReadText
  \/ ClassicTextRead \/ ClassicLoadsParse \/ ClassicBuffer \/ ClassicDecode
  \/ ClassicLoadDone
==============================================================================
