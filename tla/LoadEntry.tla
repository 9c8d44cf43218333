------------------------------ MODULE LoadEntry ------------------------------
(***************************************************************************)
(* loads and load of ujson_hpy (python/ujson_hpy.c: hpy_loads_impl,        *)
(* hpy_load_impl and hpy_loads_dispatch with what it tries in turn, around *)
(* hpy_loads_decode_raw).  What is decoded is the argument of loads, which *)
(* its caller keeps, or what read returned.                                *)
(***************************************************************************)
EXTENDS Entry

Loading == HPy /\ call \in {"loads", "load"}

LoadsParse == Loading /\ call = "loads" /\ Parse("dispatch")
LoadParse == Loading /\ call = "load" /\ Parse("method")
LookupRead == Loading /\ FileMethod("read", "emptyArgs")

EmptyArgs ==
  /\ Loading /\ pc = "emptyArgs"
  /\ Succeeds("read", {"args"}, {}) \/ Fails({"read", "ht"})

ReadText ==
  /\ Loading /\ pc = "read"
  /\ file' = Append(file, "read")
  /\ pc' = "wasRead"
  /\ err' \in BOOLEAN
  /\ open' = (open \ {"read", "args"}) \cup (IF err' THEN {} ELSE {"string"})
  /\ UNCHANGED <<setup, core, made, result>>

TextRead ==
  /\ Loading /\ pc = "wasRead"
  /\ IF err THEN Fails({"ht"}) ELSE Succeeds("dispatch", {}, {})

(***************************************************************************)
(* hpy_loads_dispatch: what the text is held in, tried in this order.      *)
(***************************************************************************)
LoaderHolds == {"string", "ht"}
LoadFails(closed) == Fails(closed \cup LoaderHolds)

(* The core gets a pointer into the memory of an object.                   *)
Decodes(objects, gained) ==
  /\ raw' = objects /\ pc' = "decode"
  /\ open' = open \cup gained
  /\ UNCHANGED <<setup, text, err, history, result>>

(* The object itself: load has to keep what read returned, the argument of *)
(* loads is its caller's.                                                  *)
Source == IF call = "load" THEN {"string"} ELSE {}

(* A str is decoded from its cached UTF-8, while a duplicate of its handle *)
(* or, with lone surrogates in it, the bytes they were encoded to are held.*)
DispatchStr ==
  /\ Loading /\ pc = "dispatch"
  /\ Decodes({"holder"}, {"holder"}) \/ LoadFails({})

DispatchBytes ==
  /\ Loading /\ pc = "dispatch"
  /\ Decodes(Source, {}) \/ LoadFails({})

(* On the CPython ABI a buffer is asked for first; the exception of an     *)
(* object that has none is cleared.                                        *)
DispatchBuffer ==
  /\ Loading /\ pc = "dispatch" /\ binding = "cpython"
  /\ Decodes({"buffer"}, {"buffer"}) \/ Succeeds("bytearray", {}, {})

DispatchOther ==
  /\ Loading /\ pc = "dispatch" /\ binding = "universal"
  /\ Succeeds("bytearray", {}, {})

(* A bytearray is copied to bytes, if its type could be imported.          *)
CopyBytearray ==
  /\ Loading /\ pc = "bytearray" /\ "bytearray" \in globals
  /\ \/ Succeeds("bytesChars", {"bytes"}, {})
     \/ LoadFails({})

NoBytearray ==
  /\ Loading /\ pc = "bytearray"
  /\ Succeeds("memoryview", {}, {})

(* Anything else through a memoryview of it, if that type was imported and *)
(* takes the object; otherwise the TypeError of the dispatcher.            *)
NoMemoryview ==
  /\ Loading /\ pc = "memoryview"
  /\ LoadFails({})

MakeView ==
  /\ Loading /\ pc = "memoryview" /\ "memoryview" \in globals
  /\ Succeeds("contiguous", {"view"}, {})

ViewContiguous ==
  /\ Loading /\ pc = "contiguous"
  /\ Succeeds("tobytes", {"tobytes"}, {}) \/ LoadFails({"view"})

ViewToBytes ==
  /\ Loading /\ pc = "tobytes"
  /\ \/ Succeeds("bytesChars", {"bytes"}, {"tobytes", "view"})
     \/ LoadFails({"tobytes", "view"})

(* hpy_loads_decode_bytes on bytes made for it.                            *)
BytesChars ==
  /\ Loading /\ pc = "bytesChars"
  /\ Decodes({"bytes"}, {}) \/ LoadFails({"bytes"})

(***************************************************************************)
(* hpy_loads_decode_raw, of which Decoder is the model: a value, or NULL   *)
(* with an exception.  Then everything taken for it is given back.         *)
(***************************************************************************)
Decode ==
  /\ Loading /\ pc = "decode"
  /\ err' \in BOOLEAN
  /\ made' = ~err'
  /\ pc' = "decoded"
  /\ UNCHANGED <<setup, open, core, file, result>>

Released == {"holder", "buffer", "bytes"}
LoadDone ==
  /\ Loading /\ pc = "decoded"
  /\ IF err THEN LoadFails(Released) ELSE Returns(Released \cup LoaderHolds)

LoadNext ==
  \/ LoadsParse \/ LoadParse \/ LookupRead \/ EmptyArgs \/ ReadText \/ TextRead
  \/ DispatchStr \/ DispatchBytes \/ DispatchBuffer \/ DispatchOther
  \/ CopyBytearray \/ NoBytearray \/ NoMemoryview \/ MakeView
  \/ ViewContiguous \/ ViewToBytes \/ BytesChars
  \/ Decode \/ LoadDone
==============================================================================
