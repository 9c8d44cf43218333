---------------------------- MODULE EntriesProofs ----------------------------
(***************************************************************************)
(* Proofs about Entries: whatever step of an import or a call fails, in    *)
(* any binding, with any options and for containers of any size.           *)
(*                                                                         *)
(* None of the properties is inductive: what is held when a call returns   *)
(* depends on what each of its steps held.  The invariant is a table of    *)
(* that, by the place a call is at.                                        *)
(***************************************************************************)
EXTENDS Entries, TLAPS

Dumper == call \in {"dumps", "dump"}
Loader == call \in {"loads", "load"}

(***************************************************************************)
(* The most that is held at each place.                                    *)
(***************************************************************************)
ImportHolds ==
  CASE pc = "setVersion" -> Both
    [] pc = "setError" -> {"error"}
    [] pc = "types" -> Modules
    [] pc = "decimal" -> {"decimal"}
    [] pc \in {"importDecimal", "newException"} -> {"module"}
    [] OTHER -> {}

(* The result of a call of the file, unless it raised.                     *)
Given(object) == IF err THEN {} ELSE {object}

SepBytes == {"itemSepBytes", "keySepBytes"}

DumpHolds ==
  CASE pc = "parse" -> {}
    [] pc = "method" -> {"ht"}
    [] pc = "getKeySep" -> DumperHolds \cup {"itemSep"}
    [] pc \in {"checkSeps", "itemUtf8"} ->
         DumperHolds \cup {"itemSep", "keySep"}
    [] pc \in {"itemChars", "keyUtf8"} ->
         DumperHolds \cup {"keySep", "itemSepBytes"}
    [] pc \in {"keyChars", "d2s"} -> DumperHolds \cup SepBytes
    [] pc = "root" -> DumperHolds \cup CoreHolds
    [] pc = "encode" -> DumperHolds \cup CoreHolds \cup {"root"}
    [] pc = "encoded" -> DumperHolds \cup {"pool", "text"} \cup ContextsLeave
    [] pc = "bytes" -> DumperHolds \cup {"pool", "bytes"} \cup ContextsLeave
    [] pc \in {"made", "pack"} ->
         DumperHolds \cup {"string"} \cup ContextsLeave
    [] pc = "write" -> WriterHolds \cup {"ht"} \cup ContextsLeave
    [] pc = "written" ->
         WriterHolds \cup {"ht"} \cup Given("writeResult") \cup ContextsLeave
    [] pc = "returned" -> ContextsLeave
    [] OTHER -> DumperHolds

LoadHolds ==
  CASE pc = "parse" -> {}
    [] pc = "method" -> {"ht"}
    [] pc \in {"callable", "emptyArgs"} -> {"read", "ht"}
    [] pc = "read" -> {"read", "args", "ht"}
    [] pc = "wasRead" -> {"ht"} \cup Given("string")
    [] pc = "contiguous" -> LoaderHolds \cup {"view"}
    [] pc = "tobytes" -> LoaderHolds \cup {"view", "tobytes"}
    [] pc = "bytesChars" -> LoaderHolds \cup {"bytes"}
    [] pc \in {"decode", "decoded"} -> LoaderHolds \cup Released
    [] pc = "returned" -> {}
    [] OTHER -> LoaderHolds

(* What objToJSONFile holds while objToJSON runs.                          *)
DumpFileHolds == IF call = "dump" THEN WriteHolds ELSE {}

ClassicDumpHolds ==
  CASE pc \in {"parse", "method"} -> {}
    [] pc \in {"callable", "packData"} -> {"write"}
    [] pc = "keyUtf8" -> DumpFileHolds \cup {"itemSepBytes"}
    [] pc = "d2s" -> DumpFileHolds \cup SepBytes
    [] pc = "encode" -> DumpFileHolds \cup CoreHolds
    [] pc = "begin" -> DumpFileHolds \cup CoreHolds \cup {"context", "newObj"}
    [] pc \in {"iterNext", "item", "iterEnd"} ->
         DumpFileHolds \cup CoreHolds \cup NestedLeft
           \cup {"context", "newObj", "dictObj", "itemName"}
    [] pc = "end" ->
         DumpFileHolds \cup CoreHolds \cup EndReleases \cup NestedLeft
    [] pc = "encodeReturns" -> DumpFileHolds \cup CoreHolds \cup ClassicLeaves
    [] pc = "encoded" -> DumpFileHolds \cup {"text"} \cup ClassicLeaves
    [] pc = "made" -> DumpFileHolds \cup {"string"} \cup ClassicLeaves
    [] pc = "write" -> ClassicWriterHolds \cup ClassicLeaves
    [] pc = "written" ->
         ClassicWriterHolds \cup Given("writeResult") \cup ClassicLeaves
    [] pc = "returned" -> ClassicLeaves
    [] OTHER -> DumpFileHolds

ClassicLoadHolds ==
  CASE pc \in {"parse", "method"} -> {}
    [] pc \in {"callable", "read"} -> {"read"}
    [] pc = "wasRead" -> Given("string")
    [] pc = "decode" -> ReadHolds \cup {"buffer", "bytes"}
    [] pc = "returned" -> {}
    [] OTHER -> ReadHolds

MayHold ==
  CASE call = "none" -> ImportHolds
    [] Dumper /\ HPy -> DumpHolds
    [] Loader /\ HPy -> LoadHolds
    [] Dumper /\ ~HPy -> ClassicDumpHolds
    [] Loader /\ ~HPy -> ClassicLoadHolds

AtMost == open \subseteq MayHold

(* What a step is going to hand to the core, or to rely on.                *)
Dispatching == {"dispatch", "bytearray", "memoryview", "contiguous", "tobytes",
                "bytesChars"}
AtLeast ==
  /\ pc = "itemChars" => "itemSepBytes" \in open
  /\ pc = "keyChars" => "keySepBytes" \in open
  /\ pc = "bytesChars" => "bytes" \in open
  /\ HPy /\ call = "load" /\ pc \in Dispatching => "string" \in open
  /\ HPy /\ pc = "wasRead" /\ ~err => "string" \in open

(***************************************************************************)
(* The rest of the invariant: where calls begin, what the core points to,  *)
(* and how far the call got with its file and its result.                  *)
(***************************************************************************)
Importing == {"create", "setVersion", "setError", "modules", "types",
              "decimal", "createModule", "importDecimal", "newException",
              "idle"}
FileSteps == {"method", "callable", "packData", "emptyArgs", "read", "wasRead",
              "parseArgs", "pack", "write", "written"}
Calling ==
  /\ binding \in Binding
  /\ call \in Call \cup {"none"}
  /\ pc \in Importing => call = "none"
  /\ call = "none" => pc \in Importing \cup {"returned"}
  /\ pc \in FileSteps => call \in {"dump", "load"}
  /\ HPy /\ pc = "made" => call = "dumps"

(* The core is done, or is not going to be called any more.                *)
Later == {"bytes", "made", "pack", "write", "written", "decoded", "returned"}
Pointers ==
  pc \notin Later =>
    /\ raw \subseteq open
    /\ Dumper /\ pc # "encoded" => raw \subseteq SepBytes
    /\ ~Dumper /\ pc # "decode" => raw = {}

BeforeRead == {"parse", "method", "callable", "emptyArgs", "read"}
Filed ==
  pc # "returned" =>
    file = IF call = "load" /\ pc \notin BeforeRead THEN <<"read">>
           ELSE IF call = "dump" /\ pc = "written" THEN <<"write">>
           ELSE <<>>
Made ==
  pc # "returned" =>
    made = IF pc \in {"made", "pack", "write", "written"} THEN TRUE
           ELSE IF pc = "decoded" /\ ~err THEN TRUE ELSE FALSE
Answer ==
  /\ result \in {"none", "value", "null"}
  /\ pc # "returned" => result = "none"
  /\ err \in BOOLEAN
  /\ pc \in {"bytes", "made", "pack", "write"} => ~err
  /\ pc \in Importing \ {"types", "decimal"} => ~err
  /\ pc = "types" /\ Modules \subseteq open => ~err
  /\ pc = "decimal" /\ "decimal" \in open => ~err

(* Only the classic encoder has a type context here.                       *)
BeforeContext ==
  {"parse", "method", "callable", "packData", "parseArgs", "options",
   "separators", "itemUtf8", "keyUtf8", "d2s", "encode"}
Untouched == HPy \/ ~Dumper \/ pc \in BeforeContext => tc = tcFresh

HeldInv ==
  /\ AtMost /\ AtLeast /\ Calling /\ Pointers
  /\ Filed /\ Made /\ Answer /\ Untouched

(***************************************************************************)
(* Every step keeps the invariant: an action at a time, by the entries of  *)
(* the tables for the place it leaves and the place it goes to.            *)
(***************************************************************************)
USE DEF HeldInv, AtMost, MayHold, AtLeast, Dispatching, Calling, Importing,
        FileSteps, Pointers, Later, Filed, Made, Answer, BeforeRead, Untouched,
        BeforeContext, Dumper, Loader, HPy, Call, Binding, SepBytes, Given,
        setup, core, history, context

(* The import, and the choice of what is called.                           *)
LEMMA ImportKeeps ==
  ASSUME HeldInv, UNCHANGED context,
         \/ ExecCreate \/ ExecSetVersion \/ ExecSetError \/ ExecImport
         \/ ExecTypes \/ ExecDecimal \/ BeginCall
  PROVE  HeldInv'
<1> USE DEF ImportHolds, Both, Modules, Types
<1>1. CASE ExecCreate
  <2> USE <1>1 DEF ExecCreate, Succeeds, Fails
  <2>1. pc' # "returned" => ~err'
    OBVIOUS
  <2>2. Answer'
    BY <2>1
  <2> QED
    BY <2>2
<1>2. CASE ExecSetVersion
  <2> USE <1>2 DEF ExecSetVersion, Succeeds, Fails
  <2>1. pc' # "returned" => ~err'
    OBVIOUS
  <2>2. Answer'
    BY <2>1
  <2> QED
    BY <2>2
<1>3. CASE ExecSetError
  <2> USE <1>3 DEF ExecSetError, Succeeds, Fails
  <2>1. pc' # "returned" => ~err'
    OBVIOUS
  <2>2. Answer'
    BY <2>1
  <2> QED
    BY <2>2
<1>4. CASE ExecImport
  BY <1>4 DEF ExecImport
<1>5. CASE ExecTypes
  BY <1>5 DEF ExecTypes, Types
<1>6. CASE ExecDecimal
  BY <1>6 DEF ExecDecimal
<1>7. CASE BeginCall
  BY CallsAssumption, <1>7 DEF BeginCall
<1> QED
  BY <1>1, <1>2, <1>3, <1>4, <1>5, <1>6, <1>7

(* dumps and dump of ujson_hpy.                                            *)
LEMMA DumpKeeps ==
  ASSUME HeldInv, UNCHANGED context, DumpNext
  PROVE  HeldInv'
<1> USE DEF DumpHolds, DumperHolds, WriterHolds, CoreHolds, ContextsLeave
<1>1. CASE DumpsParse
  BY <1>1 DEF DumpsParse, Dumping, Parse, Succeeds, Fails
<1>2. CASE DumpParse
  BY <1>2 DEF DumpParse, Dumping, Parse, Succeeds, Fails
<1>3. CASE LookupWrite
  BY <1>3 DEF LookupWrite, Dumping, FileMethod, Succeeds, Fails
<1>4. CASE DumpOptions
  BY <1>4 DEF DumpOptions, Dumping, Succeeds, Fails
<1>5. CASE NoSeparators
  BY <1>5 DEF NoSeparators, Dumping, Succeeds
<1>6. CASE GetItemSeparator
  BY <1>6 DEF GetItemSeparator, Dumping, Succeeds, EncodeFails, Fails
<1>7. CASE GetKeySeparator
  BY <1>7 DEF GetKeySeparator, Dumping, Succeeds, EncodeFails, Fails
<1>8. CASE CheckSeparators
  BY <1>8 DEF CheckSeparators, Dumping, Succeeds, EncodeFails, Fails
<1>9. CASE ItemSeparatorUtf8
  BY <1>9 DEF ItemSeparatorUtf8, Dumping, Succeeds, EncodeFails, Fails
<1>10. CASE ItemSeparatorChars
  BY <1>10 DEF ItemSeparatorChars, Dumping, PointsInto, EncodeFails, Fails
<1>11. CASE KeySeparatorUtf8
  BY <1>11
     DEF KeySeparatorUtf8, Dumping, Succeeds, ClosedByKey, EncodeFails,
         LeftByKey, Fails
<1>12. CASE KeySeparatorChars
  BY <1>12 DEF KeySeparatorChars, Dumping, PointsInto, EncodeFails, Fails
<1>13. CASE InitD2s
  BY <1>13 DEF InitD2s, Dumping, Succeeds
<1>14. CASE DupRoot
  BY <1>14 DEF DupRoot, Dumping, Succeeds, EncodeFails, Fails
<1>15. CASE Encode
  BY <1>15 DEF Encode, Dumping
<1>16. CASE EncodingFailed
  BY <1>16 DEF EncodingFailed, Dumping, Encoded, EncodeFails, Fails
<1>17. CASE TextToBytes
  <2> USE <1>17 DEF TextToBytes, Dumping, Encoded, Succeeds, EncodeFails, Fails
  <2>1. pc' # "returned" => ~err'
    OBVIOUS
  <2>2. Answer'
    BY <2>1
  <2> QED
    BY <2>2
<1>18. CASE TextToStr
  <2> USE <1>18 DEF TextToStr, Dumping, EncodeFails, Fails
  <2>1. pc' # "returned" => ~err'
    OBVIOUS
  <2>2. Answer'
    BY <2>1
  <2> QED
    BY <2>2
<1>19. CASE ReturnText
  BY <1>19 DEF ReturnText, Dumping, Returns
<1>20. CASE PackText
  <2> USE <1>20 DEF PackText, Dumping, Succeeds, Fails
  <2>1. pc' # "returned" => ~err'
    OBVIOUS
  <2>2. Answer'
    BY <2>1
  <2> QED
    BY <2>2
<1>21. CASE WriteText
  <2> USE <1>21 DEF WriteText, Dumping
  <2>1. file = <<>>
    OBVIOUS
  <2>2. file' = <<"write">>
    BY <2>1
  <2>3. Filed'
    BY <2>1, <2>2
  <2> QED
    BY <2>3
<1>22. CASE TextWritten
  BY <1>22 DEF TextWritten, Dumping, Fails, Returns
<1> QED
  BY <1>1, <1>2, <1>3, <1>4, <1>5, <1>6, <1>7, <1>8, <1>9, <1>10, <1>11, <1>12,
     <1>13, <1>14, <1>15, <1>16, <1>17, <1>18, <1>19, <1>20, <1>21, <1>22
     DEF DumpNext

(* loads and load of ujson_hpy.                                            *)
LEMMA LoadKeeps ==
  ASSUME HeldInv, UNCHANGED context, LoadNext
  PROVE  HeldInv'
<1> USE DEF LoadHolds, LoaderHolds, Released
<1>1. CASE LoadsParse
  BY <1>1 DEF LoadsParse, Loading, Parse, Succeeds, Fails
<1>2. CASE LoadParse
  BY <1>2 DEF LoadParse, Loading, Parse, Succeeds, Fails
<1>3. CASE LookupRead
  BY <1>3 DEF LookupRead, Loading, FileMethod, Succeeds, Fails
<1>4. CASE EmptyArgs
  BY <1>4 DEF EmptyArgs, Loading, Succeeds, Fails
<1>5. CASE ReadText
  BY <1>5 DEF ReadText, Loading
<1>6. CASE TextRead
  BY <1>6 DEF TextRead, Loading, Fails, Succeeds
<1>7. CASE DispatchStr
  BY <1>7 DEF DispatchStr, Loading, Decodes, LoadFails, Fails
<1>8. CASE DispatchBytes
  BY <1>8 DEF DispatchBytes, Loading, Decodes, Source, LoadFails, Fails
<1>9. CASE DispatchBuffer
  BY <1>9 DEF DispatchBuffer, Loading, Decodes, Succeeds
<1>10. CASE DispatchOther
  BY <1>10 DEF DispatchOther, Loading, Succeeds
<1>11. CASE CopyBytearray
  BY <1>11 DEF CopyBytearray, Loading, Succeeds, LoadFails, Fails
<1>12. CASE NoBytearray
  BY <1>12 DEF NoBytearray, Loading, Succeeds
<1>13. CASE NoMemoryview
  BY <1>13 DEF NoMemoryview, Loading, LoadFails, Fails
<1>14. CASE MakeView
  BY <1>14 DEF MakeView, Loading, Succeeds
<1>15. CASE ViewContiguous
  BY <1>15 DEF ViewContiguous, Loading, Succeeds, LoadFails, Fails
<1>16. CASE ViewToBytes
  BY <1>16 DEF ViewToBytes, Loading, Succeeds, LoadFails, Fails
<1>17. CASE BytesChars
  BY <1>17 DEF BytesChars, Loading, Decodes, LoadFails, Fails
<1>18. CASE Decode
  BY <1>18 DEF Decode, Loading
<1>19. CASE LoadDone
  BY <1>19 DEF LoadDone, Loading, LoadFails, Returns, Fails
<1> QED
  BY <1>1, <1>2, <1>3, <1>4, <1>5, <1>6, <1>7, <1>8, <1>9, <1>10, <1>11, <1>12,
     <1>13, <1>14, <1>15, <1>16, <1>17, <1>18, <1>19 DEF LoadNext

(* The import and the four functions of ujson, around its encoder.         *)
LEMMA ClassicKeeps ==
  ASSUME HeldInv, UNCHANGED context, ClassicNext
  PROVE  HeldInv'
<1> USE DEF ImportHolds, ClassicDumpHolds, ClassicLoadHolds, DumpFileHolds,
            WriteHolds, ClassicWriterHolds, ReadHolds, CoreHolds,
            ClassicLeaves, NestedLeft, tcFresh
<1>1. CASE CreateModule
  <2> USE <1>1 DEF CreateModule, Succeeds, Fails
  <2>1. pc' # "returned" => ~err'
    OBVIOUS
  <2>2. Answer'
    BY <2>1
  <2> QED
    BY <2>2
<1>2. CASE ImportDecimal
  BY <1>2 DEF ImportDecimal, Succeeds
<1>3. CASE NewException
  <2> USE <1>3 DEF NewException, Succeeds, Fails
  <2>1. pc' # "returned" => ~err'
    OBVIOUS
  <2>2. Answer'
    BY <2>1
  <2> QED
    BY <2>2
<1>4. CASE ClassicDumpParse
  BY <1>4 DEF ClassicDumpParse, Dumps, Parse, Classic, Succeeds, Fails
<1>5. CASE ClassicLookupWrite
  BY <1>5 DEF ClassicLookupWrite, Dumps, FileMethod, Classic, Succeeds, Fails
<1>6. CASE ClassicPackData
  BY <1>6 DEF ClassicPackData, Dumps, Succeeds, Fails, Classic
<1>7. CASE ClassicDumpsParse
  BY <1>7
     DEF ClassicDumpsParse, Dumps, Parse, Succeeds, ClassicFails, Classic,
         Fails
<1>8. CASE ClassicOptions
  BY <1>8 DEF ClassicOptions, Dumps, ClassicFails, Classic, Fails
<1>9. CASE ClassicNoSeparators
  BY <1>9 DEF ClassicNoSeparators, Dumps, Succeeds, Classic
<1>10. CASE ClassicSeparators
  BY <1>10 DEF ClassicSeparators, Dumps, Succeeds, ClassicFails, Classic, Fails
<1>11. CASE ClassicItemSeparator
  BY <1>11
     DEF ClassicItemSeparator, Dumps, SeparatorChars, Classic, Succeeds,
         ClassicFails, Fails
<1>12. CASE ClassicKeySeparator
  BY <1>12
     DEF ClassicKeySeparator, Dumps, SeparatorChars, Classic, Succeeds,
         ClassicFails, Fails
<1>13. CASE ClassicInitD2s
  BY <1>13 DEF ClassicInitD2s, Dumps, Succeeds, Classic
<1>14. CASE ClassicEncodingFailed
  BY <1>14 DEF ClassicEncodingFailed, Dumps, ClassicFails, Classic, Fails
<1>15. CASE ClassicTextToStr
  <2> USE <1>15 DEF ClassicTextToStr, Dumps, ClassicFails, Classic, Fails
  <2>1. pc' # "returned" => ~err'
    OBVIOUS
  <2>2. Answer'
    BY <2>1
  <2> QED
    BY <2>2
<1>16. CASE ClassicReturnText
  BY <1>16 DEF ClassicReturnText, Classic, Returns
<1>17. CASE ClassicPackText
  <2> USE <1>17 DEF ClassicPackText, Classic, Succeeds, Fails
  <2>1. pc' # "returned" => ~err'
    OBVIOUS
  <2>2. Answer'
    BY <2>1
  <2> QED
    BY <2>2
<1>18. CASE ClassicWriteText
  <2> USE <1>18 DEF ClassicWriteText, Dumps, Classic
  <2>1. file = <<>>
    OBVIOUS
  <2>2. file' = <<"write">>
    BY <2>1
  <2>3. Filed'
    BY <2>1, <2>2
  <2> QED
    BY <2>3
<1>19. CASE ClassicTextWritten
  BY <1>19 DEF ClassicTextWritten, Dumps, Fails, Returns, Classic
<1>20. CASE ClassicLoadParse
  BY <1>20 DEF ClassicLoadParse, Loads, Parse, Classic, Succeeds, Fails
<1>21. CASE ClassicLookupRead
  BY <1>21 DEF ClassicLookupRead, Loads, FileMethod, Classic, Succeeds, Fails
<1>22. CASE ClassicReadText
  BY <1>22 DEF ClassicReadText, Loads, Classic
<1>23. CASE ClassicTextRead
  BY <1>23 DEF ClassicTextRead, Loads, Fails, Succeeds, Classic
<1>24. CASE ClassicLoadsParse
  BY <1>24 DEF ClassicLoadsParse, Loads, Parse, Succeeds, Fails, Classic
<1>25. CASE ClassicBuffer
  BY <1>25 DEF ClassicBuffer, Loads, Fails, Classic
<1>26. CASE ClassicDecode
  BY <1>26 DEF ClassicDecode, Loads, Classic
<1>27. CASE ClassicLoadDone
  BY <1>27 DEF ClassicLoadDone, Loads, Fails, Returns, Classic
<1> QED
  BY <1>1, <1>2, <1>3, <1>4, <1>5, <1>6, <1>7, <1>8, <1>9, <1>10, <1>11, <1>12,
     <1>13, <1>14, <1>15, <1>16, <1>17, <1>18, <1>19, <1>20, <1>21, <1>22,
     <1>23, <1>24, <1>25, <1>26, <1>27 DEF ClassicNext

(* The encoder of ujson.                                                   *)
LEMMA ClassicEncoderKeeps ==
  ASSUME HeldInv, ClassicEncoderNext
  PROVE  HeldInv'
<1> USE DEF ClassicDumpHolds, DumpFileHolds, WriteHolds, CoreHolds,
            ClassicLeaves, NestedLeft, EndReleases, tcFresh, rest
<1>1. CASE BeginTypeContext
  BY <1>1 DEF BeginTypeContext, Encoding, tcFresh
<1>2. CASE Refuse
  BY <1>2 DEF Refuse, Encoding, GotoInvalid
<1>3. CASE CallDefault
  BY <1>3 DEF CallDefault, Encoding, DefaultTooDeep
<1>4. CASE EncodeScalar
  BY <1>4 DEF EncodeScalar, Encoding
<1>5. CASE EncodeUtf8
  BY <1>5 DEF EncodeUtf8, EncodeString, Encoding
<1>6. CASE EncodeRaw
  BY <1>6 DEF EncodeRaw, EncodeString, Encoding
<1>7. CASE NoStringValue
  BY <1>7 DEF NoStringValue, Encoding
<1>8. CASE BeginDict
  BY <1>8 DEF BeginDict, Encoding
<1>9. CASE BeginArray
  BY <1>9 DEF BeginArray, Encoding
<1>10. CASE ArrayNext
  BY <1>10 DEF ArrayNext, Iterating, HasItem, NoMoreItems, Encoding
<1>11. CASE DictNext
  BY <1>11
     DEF DictNext, Iterating, Sorted, HasItem, IterationFails, NoMoreItems,
         Encoding
<1>12. CASE SortFails
  BY <1>12
     DEF SortFails, Iterating, Sorted, FirstCall, IterationFails, Encoding
<1>13. CASE SortedDictNext
  BY <1>13
     DEF SortedDictNext, Iterating, Sorted, Size, HasItem, Sort,
         IterationFails, Encoding, FirstCall
<1>14. CASE EncodeItem
  BY <1>14 DEF EncodeItem, Encoding
<1>15. CASE IterEnd
  BY <1>15 DEF IterEnd, Encoding
<1>16. CASE EndTypeContext
  BY <1>16 DEF EndTypeContext, Encoding
<1>17. CASE EncodeReturns
  BY <1>17 DEF EncodeReturns, Encoding
<1> QED
  BY <1>1, <1>2, <1>3, <1>4, <1>5, <1>6, <1>7, <1>8, <1>9, <1>10, <1>11, <1>12,
     <1>13, <1>14, <1>15, <1>16, <1>17 DEF ClassicEncoderNext

(* Nothing happens.                                                        *)
LEMMA StutterKeeps == HeldInv /\ UNCHANGED <<vars, context>> => HeldInv'
<1> SUFFICES ASSUME HeldInv, UNCHANGED <<vars, context>> PROVE HeldInv'
  OBVIOUS
<1> USE DEF ImportHolds, DumpHolds, LoadHolds, ClassicDumpHolds,
            ClassicLoadHolds, DumperHolds, DumpFileHolds, EndReleases,
            ClassicLeaves, vars
<1>1. AtMost'
  <2>1. MayHold' = MayHold
    OBVIOUS
  <2> QED
    BY <2>1
<1>2. AtLeast' /\ Pointers' /\ Untouched'
  OBVIOUS
<1>3. Calling'
  OBVIOUS
<1>4. Filed'
  OBVIOUS
<1>5. Made'
  OBVIOUS
<1>6. Answer'
  OBVIOUS
<1> QED
  BY <1>1, <1>2, <1>3, <1>4, <1>5, <1>6

(* A process that has not begun the import.                                *)
LEMMA HeldInit == EntriesInit => HeldInv
  BY BindingsAssumption DEF EntriesInit, Init, ImportHolds

(* The tables at the two places where the import or a call is over.        *)
LEMMA AtTheEnd == HeldInv => NothingHeld
  BY DEF NothingHeld, LeftByEncode, ImportHolds, DumpHolds, LoadHolds,
         ClassicDumpHolds, ClassicLoadHolds

(* The pointers, at the places where the core runs.                        *)
LEMMA InTheCore == HeldInv => MemoryHeld
  BY DEF MemoryHeld, InCore

HIDE DEF HeldInv, AtMost, MayHold, AtLeast, Dispatching, Calling, Importing,
        FileSteps, Pointers, Later, Filed, Made, Answer, BeforeRead, Untouched,
        BeforeContext, Dumper, Loader, SepBytes, Given

(* Any step.                                                               *)
LEMMA HeldStep == HeldInv /\ [EntriesNext]_<<vars, context>> => HeldInv'
<1>1. CASE Stopped /\ UNCHANGED context
  BY <1>1, StutterKeeps DEF Stopped
<1> QED
  BY <1>1, StutterKeeps, ImportKeeps, DumpKeeps, LoadKeeps, ClassicKeeps,
     ClassicEncoderKeeps DEF EntriesNext

(* At every place no more is held than the tables say, and what the core   *)
(* points into and what load reads are held.                               *)
THEOREM HeldInductive == Spec => []HeldInv
  BY HeldInit, HeldStep, PTL DEF Spec

(* However the import or a call of any binding ends, and whatever failed,  *)
(* each handle, reference and buffer the entry points took has been given  *)
(* back; what is left is named by LeftByEncode, references of type contexts*)
(* that JSON_EncodeObject does not release in either binding.              *)
THEOREM HeldCorrect == Spec => []NothingHeld
  BY AtTheEnd, HeldInductive, PTL

(* No pointer the core has been given outlives the object it points into:  *)
(* separators, buffers, the copy of a bytearray, what read returned.       *)
THEOREM MemoryCorrect == Spec => []MemoryHeld
  BY InTheCore, HeldInductive, PTL

(***************************************************************************)
(* The contract: every step is one of its steps or is not seen there.      *)
(***************************************************************************)
ContractStep == [Contract!Next]_(Contract!vars)

(* At the place where a call may begin nothing is pending.                 *)
Clean == pc = "idle" => ~err

(* The call goes on, raises, or returns; nothing else is seen of it.       *)
Quiet == pc' # "returned" /\ UNCHANGED <<call, file, made>>
Raises == /\ pc' = "returned" /\ result' = "null" /\ err' = TRUE
          /\ UNCHANGED <<call, file, made>>
Returned == /\ pc' = "returned" /\ result' = "value" /\ err' = err
            /\ UNCHANGED <<call, file, made>>
Unseen == pc # "returned" /\ (Quiet \/ Raises)

(* A call that goes on or raises.                                          *)
LEMMA UnseenStep == Clean /\ Clean' /\ Unseen => ContractStep
<1> USE DEF ContractStep, Unseen, Contract!vars, Outcome, Clean
<1>1. CASE pc # "returned" /\ Quiet
  BY <1>1 DEF Quiet
<1>2. CASE pc # "returned" /\ Raises
  BY <1>2 DEF Raises, Contract!Next, Contract!Raise
<1> QED
  BY <1>1, <1>2

(* A call may return a value once it is made and the file has been used.   *)
LEMMA ReturnedStep ==
  ASSUME pc # "returned", Returned, made, ~err, file = Contract!After
  PROVE  ContractStep
  BY DEF ContractStep, Returned, Outcome, Contract!Next, Contract!Return,
         Contract!After, Contract!Before

(* Most steps of the C code are not seen at all, or raise.                 *)
LEMMA ImportUnseen ==
  (\/ ExecCreate \/ ExecSetVersion \/ ExecSetError \/ ExecImport \/ ExecTypes
   \/ ExecDecimal) => Unseen
  BY DEF Unseen, Quiet, Raises, ExecCreate, ExecSetVersion, ExecSetError,
         ExecImport, ExecTypes, ExecDecimal, Succeeds, Fails, setup, history

LEMMA DumpUnseen ==
  (\/ DumpsParse \/ DumpParse \/ LookupWrite \/ DumpOptions
  \/ NoSeparators \/ GetItemSeparator \/ GetKeySeparator \/ CheckSeparators
  \/ ItemSeparatorUtf8 \/ ItemSeparatorChars
  \/ KeySeparatorUtf8 \/ KeySeparatorChars \/ InitD2s
  \/ DupRoot \/ Encode \/ EncodingFailed \/ TextToBytes \/ PackText) => Unseen
  BY DEF Unseen, Quiet, Raises, DumpsParse, DumpParse, LookupWrite,
         DumpOptions, NoSeparators, GetItemSeparator, GetKeySeparator,
         CheckSeparators, ItemSeparatorUtf8, ItemSeparatorChars,
         KeySeparatorUtf8, KeySeparatorChars, InitD2s, DupRoot, Encode,
         EncodingFailed, TextToBytes, PackText, Succeeds, Fails, EncodeFails,
         Parse, FileMethod, PointsInto, setup, history

LEMMA LoadUnseen ==
  (\/ LoadsParse \/ LoadParse \/ LookupRead \/ EmptyArgs \/ TextRead
  \/ DispatchStr \/ DispatchBytes \/ DispatchBuffer \/ DispatchOther
  \/ CopyBytearray \/ NoBytearray \/ NoMemoryview \/ MakeView
  \/ ViewContiguous \/ ViewToBytes \/ BytesChars) => Unseen
  BY DEF Unseen, Quiet, Raises, LoadsParse, LoadParse, LookupRead, EmptyArgs,
         TextRead, DispatchStr, DispatchBytes, DispatchBuffer, DispatchOther,
         CopyBytearray, NoBytearray, NoMemoryview, MakeView, ViewContiguous,
         ViewToBytes, BytesChars, Succeeds, Fails, LoadFails, Parse,
         FileMethod, Decodes, setup, history

LEMMA ClassicUnseen ==
  (\/ CreateModule \/ ImportDecimal \/ NewException
  \/ ClassicDumpParse \/ ClassicLookupWrite \/ ClassicPackData
  \/ ClassicDumpsParse \/ ClassicOptions
  \/ ClassicNoSeparators \/ ClassicSeparators
  \/ ClassicItemSeparator \/ ClassicKeySeparator \/ ClassicInitD2s
  \/ ClassicEncodingFailed \/ ClassicPackText
  \/ ClassicLoadParse \/ ClassicLookupRead
  \/ ClassicTextRead \/ ClassicLoadsParse \/ ClassicBuffer) => Unseen
  BY DEF Unseen, Quiet, Raises, CreateModule, ImportDecimal, NewException,
         ClassicDumpParse, ClassicLookupWrite, ClassicPackData,
         ClassicDumpsParse, ClassicOptions, ClassicNoSeparators,
         ClassicSeparators, ClassicItemSeparator, ClassicKeySeparator,
         ClassicInitD2s, ClassicEncodingFailed, ClassicPackText,
         ClassicLoadParse, ClassicLookupRead, ClassicTextRead,
         ClassicLoadsParse, ClassicBuffer, Succeeds, Fails, ClassicFails,
         Parse, FileMethod, SeparatorChars, setup, history

LEMMA ClassicEncoderUnseen == ClassicEncoderNext => Unseen
  BY DEF Unseen, Quiet, ClassicEncoderNext, BeginTypeContext, Refuse,
         CallDefault, EncodeScalar, EncodeUtf8, EncodeRaw, EncodeString,
         NoStringValue, BeginDict, BeginArray, ArrayNext, DictNext, SortFails,
         SortedDictNext, EncodeItem, IterEnd, EndTypeContext, EncodeReturns,
         GotoInvalid, Iterating, NoMoreItems, IterationFails, HasItem, setup,
         history, rest

(* A call begins.                                                          *)
LEMMA CallStep ==
  ASSUME HeldInv, BeginCall PROVE ContractStep
  BY CallsAssumption
     DEF HeldInv, Answer, BeginCall, ContractStep, Calling, Importing, Outcome,
         Contract!Next, Contract!Begin

(* load reads once, before anything was made.                              *)
LEMMA ReadStep ==
  ASSUME HeldInv, ReadText \/ ClassicReadText PROVE ContractStep
<1>1. call = "load" /\ file = <<>>
  BY DEF HeldInv, Calling, FileSteps, Filed, BeforeRead, ReadText,
         ClassicReadText, Loading, Loads, Classic
<1> QED
  BY <1>1
     DEF ContractStep, ReadText, ClassicReadText, Outcome, Contract!Next,
         Contract!Read, Contract!Before, setup

(* dump writes once, when there is a text.                                 *)
LEMMA WriteStep ==
  ASSUME HeldInv, WriteText \/ ClassicWriteText PROVE ContractStep
<1>1. call = "dump" /\ file = <<>> /\ made
  BY DEF HeldInv, Calling, FileSteps, Filed, Made, WriteText, ClassicWriteText,
         Dumping, Dumps, Classic
<1>2. file' = <<"write">>
  <2>1. file' = Append(file, "write")
    BY DEF WriteText, ClassicWriteText
  <2> QED
    BY <1>1, <2>1
<1>3. UNCHANGED <<call, made>> /\ Outcome = "none" /\ Outcome' = "none"
  BY DEF WriteText, ClassicWriteText, Outcome, setup
<1>4. Contract!Write
  BY <1>1, <1>2, <1>3 DEF Contract!Write, Contract!After
<1> QED
  BY <1>4 DEF ContractStep, Contract!Next

(* The text becomes a str, or an exception is raised.                      *)
LEMMA TextStep ==
  ASSUME HeldInv, Clean, Clean', TextToStr \/ ClassicTextToStr
  PROVE  ContractStep
<1>1. call # "none" /\ file = <<>> /\ call # "load" /\ ~made
  BY DEF HeldInv, Filed, Made, TextToStr, ClassicTextToStr, Dumping, Dumps,
         Classic
<1>2. ASSUME made' = TRUE, pc' # "returned", pc # "returned",
             UNCHANGED <<call, file>>
      PROVE  ContractStep
  BY <1>1, <1>2
     DEF ContractStep, Clean, Outcome, Contract!Next, Contract!Make, Contract!Before
<1>3. \/ /\ made' = TRUE /\ pc' # "returned" /\ pc # "returned"
         /\ UNCHANGED <<call, file>>
      \/ Unseen
  BY DEF TextToStr, ClassicTextToStr, Unseen, Raises, EncodeFails,
         ClassicFails, Fails, setup, history
<1> QED
  BY <1>2, <1>3, UnseenStep

(* There is a value, or an exception is pending.                           *)
LEMMA ValueStep ==
  ASSUME HeldInv, Decode \/ ClassicDecode PROVE ContractStep
<1>1. call # "none" /\ file = Contract!Before /\ ~made
  BY DEF HeldInv, Filed, Made, BeforeRead, Contract!Before, Decode,
         ClassicDecode, Loading, Loads, Classic
<1>2. CASE made' = TRUE
  BY <1>1, <1>2
     DEF ContractStep, Outcome, Contract!Next, Contract!Make, Contract!Before,
         Decode, ClassicDecode, setup
<1>3. CASE made' = FALSE
  BY <1>1, <1>3
     DEF ContractStep, Outcome, Contract!vars, HeldInv, Made, Decode,
         ClassicDecode, setup
<1> QED
  BY <1>2, <1>3 DEF Decode, ClassicDecode

(* The last step of each function: a value, or the pending exception.      *)
LEMMA ReturnStep ==
  ASSUME HeldInv, Clean, Clean',
         \/ ReturnText \/ TextWritten \/ LoadDone
         \/ ClassicReturnText \/ ClassicTextWritten \/ ClassicLoadDone
  PROVE  ContractStep
<1>1. pc # "returned" /\ (Returned \/ Raises)
  BY DEF Returned, Raises, ReturnText, TextWritten, LoadDone,
         ClassicReturnText, ClassicTextWritten, ClassicLoadDone, Returns,
         Fails, LoadFails, setup, history
<1>2. CASE Raises
  BY <1>1, <1>2, UnseenStep DEF Unseen
<1>3. CASE Returned
  <2>1. ~err
    BY <1>3
       DEF HeldInv, Answer, ReturnText, TextWritten, LoadDone,
           ClassicReturnText, ClassicTextWritten, ClassicLoadDone, Fails,
           LoadFails, Returned
  <2>2. made
    BY <2>1
       DEF HeldInv, Made, ReturnText, TextWritten, LoadDone, ClassicReturnText,
           ClassicTextWritten, ClassicLoadDone
  <2>3. file = Contract!After
    BY DEF HeldInv, Filed, Calling, FileSteps, HPy, BeforeRead, Contract!After,
           Contract!Before, ReturnText, TextWritten, LoadDone,
           ClassicReturnText, ClassicTextWritten, ClassicLoadDone, Dumping,
           Loading, Dumps, Loads, Classic
  <2> QED
    BY <1>1, <1>3, <2>1, <2>2, <2>3, ReturnedStep
<1> QED
  BY <1>1, <1>2, <1>3

(* dumps, dump, loads and load keep the order of FileContract: dump writes *)
(* once and only what encode gave, load reads once and before it decodes,  *)
(* and a value comes back exactly when all of it was done.                 *)
THEOREM ContractCorrect == Spec => Contract!Safety
<1>1. EntriesInit => Contract!Init
  BY BindingsAssumption DEF EntriesInit, Init, Contract!Init, Outcome
<1>2. HeldInv /\ [EntriesNext]_<<vars, context>>
        => [Contract!Next]_(Contract!vars)
  <2> SUFFICES ASSUME HeldInv, [EntriesNext]_<<vars, context>>
               PROVE  ContractStep
    BY DEF ContractStep
  <2>0. Clean /\ Clean'
    BY HeldStep DEF HeldInv, Answer, Importing, Clean
  <2>1. CASE UNCHANGED vars
    BY <2>1 DEF vars, setup, history, ContractStep, Contract!vars, Outcome
  <2>2. CASE Stopped /\ UNCHANGED context
    BY <2>1, <2>2 DEF Stopped
  <2> QED
    BY <2>0, <2>1, <2>2, UnseenStep, ImportUnseen, DumpUnseen, LoadUnseen,
       ClassicUnseen, ClassicEncoderUnseen, CallStep, ReadStep, WriteStep,
       TextStep, ValueStep, ReturnStep
       DEF EntriesNext, DumpNext, LoadNext, ClassicNext
<1> QED
  BY <1>1, <1>2, HeldInductive, PTL DEF Spec, Contract!Safety

(***************************************************************************)
(* The items of a container, in the classic encoder: how the counters of   *)
(* the type context go together at each place.                             *)
(***************************************************************************)
TypeContexts ==
  [options : SUBSET {"sort", "default", "badKey"},
   type : {"none", "scalar", "utf8", "raw", "dict", "array"},
   level : Nat, index : Nat, size : Nat, members : Nat, there : Nat,
   written : Nat, errorMsg : BOOLEAN, ended : BOOLEAN]

Complete == tc.there = tc.members => tc.written = tc.members

(* What was counted before the iteration began.                            *)
NothingYet ==
  /\ tc.members = 0 /\ tc.there = 0 /\ tc.written = 0 /\ tc.index = 0
  /\ ~tc.errorMsg
  /\ "newObj" \in open => "default" \in tc.options

(* pc->size is the number of items, once it is set.                        *)
Limit ==
  /\ tc.index <= tc.members
  /\ tc.type \in {"array", "dict"}
  /\ tc.type = "array" => tc.there = tc.members /\ tc.size = tc.members
  /\ tc.type = "dict" /\ Sorted /\ ~FirstCall => tc.size = tc.members

(* Once the loop is over a text is complete, or there will be none.        *)
Items ==
  /\ pc = "begin" => NothingYet
  /\ pc = "iterNext" =>
       /\ Limit /\ tc.written = tc.index /\ ~tc.errorMsg
       /\ tc.type = "dict" /\ Sorted /\ FirstCall =>
            tc.index = 0 /\ tc.there = tc.members
  /\ pc = "item" =>
       /\ Limit /\ tc.written + 1 = tc.index
       /\ tc.type = "dict" /\ Sorted => ~FirstCall
  /\ pc \in {"iterEnd", "end", "encodeReturns"} =>
       err \/ tc.errorMsg \/ Complete
  /\ pc = "encoded" => err \/ text = "null" \/ Complete
  /\ pc \in {"made", "pack", "write", "written", "bytes"} => Complete
  /\ pc = "returned" /\ result = "value" => Complete

MembersInv ==
  /\ tc \in TypeContexts
  /\ tc.there <= tc.members
  /\ "sort" \in tc.options => tc.options = {"sort"}
  /\ Items

(* What default returned is taken for the sorted keys when both are given: *)
(* then the iteration begins with a size that was never set.  And a sorted *)
(* iteration ends early, with no exception, at a key whose look-up fails.  *)
SortAlone == \A options \in Options : "sort" \in options => options = {"sort"}

ContextSteps == {"begin", "iterNext", "item", "iterEnd", "end",
                 "encodeReturns"}

(* While the type context is as dumps finds it, all counters are zero.     *)
LEMMA FreshKeeps ==
  ASSUME MembersInv, tc = tcFresh, UNCHANGED context, pc' \notin ContextSteps
  PROVE  MembersInv'
  BY DEF MembersInv, TypeContexts, Items, Complete, tcFresh, context,
         ContextSteps

(* Nothing but the classic encoder goes to one of its places, and it runs  *)
(* only between the last of BeforeContext and "encoded".                   *)
LEMMA ImportOutside ==
  (\/ ExecCreate \/ ExecSetVersion \/ ExecSetError \/ ExecImport \/ ExecTypes
   \/ ExecDecimal \/ BeginCall) => pc' \notin ContextSteps /\ pc \in Importing
  BY DEF ContextSteps, Importing, ExecCreate, ExecSetVersion, ExecSetError,
         ExecImport, ExecTypes, ExecDecimal, BeginCall, Succeeds, Fails

LEMMA DumpOutside == DumpNext => pc' \notin ContextSteps /\ HPy
  BY DEF DumpNext, ContextSteps, Dumping, DumpsParse, DumpParse, LookupWrite,
         DumpOptions, NoSeparators, GetItemSeparator, GetKeySeparator,
         CheckSeparators, ItemSeparatorUtf8, ItemSeparatorChars,
         KeySeparatorUtf8, KeySeparatorChars, InitD2s, DupRoot, Encode,
         EncodingFailed, TextToBytes, PackText, TextToStr, ReturnText,
         WriteText, TextWritten, Succeeds, Fails, EncodeFails, Parse,
         FileMethod, PointsInto, Returns

LEMMA LoadOutside == LoadNext => pc' \notin ContextSteps /\ HPy
  BY DEF LoadNext, ContextSteps, Loading, LoadsParse, LoadParse, LookupRead,
         EmptyArgs, TextRead, DispatchStr, DispatchBytes, DispatchBuffer,
         DispatchOther, CopyBytearray, NoBytearray, NoMemoryview, MakeView,
         ViewContiguous, ViewToBytes, BytesChars, ReadText, Decode, LoadDone,
         Succeeds, Fails, LoadFails, Parse, FileMethod, Decodes, Returns

LEMMA ClassicOutside ==
  ASSUME
  \/ CreateModule \/ ImportDecimal \/ NewException
  \/ ClassicDumpParse \/ ClassicLookupWrite \/ ClassicPackData
  \/ ClassicDumpsParse \/ ClassicOptions
  \/ ClassicNoSeparators \/ ClassicSeparators
  \/ ClassicItemSeparator \/ ClassicKeySeparator \/ ClassicInitD2s
  \/ ClassicLoadParse \/ ClassicLookupRead \/ ClassicReadText
  \/ ClassicTextRead \/ ClassicLoadsParse \/ ClassicBuffer \/ ClassicDecode
  \/ ClassicLoadDone 
  PROVE  /\ pc' \notin ContextSteps
         /\ pc \in Importing \cup BeforeContext \/ Loader
  BY DEF ContextSteps, Importing, BeforeContext, Loader, Dumps, Loads, Classic,
         CreateModule, ImportDecimal, NewException, ClassicDumpParse,
         ClassicLookupWrite, ClassicPackData, ClassicDumpsParse,
         ClassicOptions, ClassicNoSeparators, ClassicSeparators,
         ClassicItemSeparator, ClassicKeySeparator, ClassicInitD2s,
         ClassicLoadParse, ClassicLookupRead, ClassicReadText, ClassicTextRead,
         ClassicLoadsParse, ClassicBuffer, ClassicDecode, ClassicLoadDone,
         Succeeds, Fails, Returns, ClassicFails, Parse, FileMethod,
         SeparatorChars

(* What is left of a call after the encoder passes Complete on.            *)
LEMMA ClassicTextKeeps ==
  ASSUME HeldInv, MembersInv, UNCHANGED context,
         \/ ClassicEncodingFailed \/ ClassicTextToStr \/ ClassicReturnText
         \/ ClassicPackText \/ ClassicWriteText \/ ClassicTextWritten
  PROVE  MembersInv'
<1>1. Complete' <=> Complete
  BY DEF Complete, context
<1>2. /\ pc' \in {"made", "write", "written", "returned"}
      /\ pc' = "returned" => result' = "null" \/ Complete
      /\ pc' # "returned" => Complete
  BY DEF HeldInv, Answer, MembersInv, Items, ClassicEncodingFailed,
         ClassicTextToStr, ClassicReturnText, ClassicPackText,
         ClassicWriteText, ClassicTextWritten, ClassicFails, Succeeds, Fails,
         Returns
<1> QED
  BY <1>1, <1>2 DEF MembersInv, Items, context

(* The counters are numbers.                                               *)
LEMMA Counts ==
  ASSUME MembersInv
  PROVE  /\ tc \in TypeContexts /\ tc.there <= tc.members
         /\ tc.index \in Nat /\ tc.size \in Nat /\ tc.members \in Nat
         /\ tc.there \in Nat /\ tc.written \in Nat
  BY DEF MembersInv, TypeContexts

(* What user code leaves of a dict, and of nothing else.                   *)
LEMMA LeftOver ==
  ASSUME MembersInv, NEW left \in Left
  PROVE  /\ left \in Nat /\ left <= tc.there
         /\ tc.type # "dict" => left = tc.there
  BY Counts DEF Left

(* The loop goes on to an item below the size it has or now sets.          *)
LEMMA ItemKeeps ==
  ASSUME MembersInv, pc = "iterNext", NEW held, NEW size \in Nat,
         NEW left \in Left, HasItem(held, size, left), tc.index < tc.members,
         tc.type = "array" => size = tc.members,
         tc.type = "dict" /\ Sorted => size = tc.members /\ "newObj" \in held
  PROVE  MembersInv'
<1>1. /\ pc' = "item" /\ open' = held
      /\ tc' = [tc EXCEPT !.index = tc.index + 1, !.size = size,
                          !.there = left]
  BY DEF HasItem
<1>2. /\ tc.index + 1 \in Nat /\ left \in Nat /\ left <= tc.there
      /\ tc.type = "array" => left = tc.there
  BY Counts, LeftOver
<1>3. tc' \in TypeContexts
  BY <1>1, <1>2, Counts DEF TypeContexts
<1>4. /\ tc'.index = tc.index + 1 /\ tc'.size = size /\ tc'.type = tc.type
      /\ tc'.options = tc.options /\ tc'.members = tc.members
      /\ tc'.there = left /\ tc'.written = tc.written
  BY <1>1, <1>2, Counts DEF TypeContexts
<1> QED
  BY <1>1, <1>2, <1>3, <1>4, Counts
     DEF MembersInv, Items, Limit, Sorted, FirstCall

(* It is left with all items written, or because there are no more.        *)
LEMMA LeavesLoop ==
  ASSUME MembersInv, pc' = "iterEnd", UNCHANGED tc,
         pc = "iterNext", Complete
  PROVE  MembersInv'
  BY DEF MembersInv, Items, Complete

(* It is left with an exception, or after members were taken away.         *)
LEMMA FailureKeeps ==
  ASSUME MembersInv, pc = "iterNext", NEW held, NEW left \in Left,
         NEW raises \in BOOLEAN, IterationFails(held, left, raises),
         raises \/ left < tc.members
  PROVE  MembersInv'
<1>1. /\ pc' = "iterEnd"
      /\ raises => err'
      /\ tc' = [tc EXCEPT !.there = left]
  BY DEF IterationFails
<1>2. left \in Nat /\ left <= tc.there
  BY Counts, LeftOver
<1>3. tc' \in TypeContexts
  BY <1>1, <1>2, Counts DEF TypeContexts
<1>4. /\ tc'.there = left /\ tc'.members = tc.members
      /\ tc'.options = tc.options
  BY <1>1, Counts DEF TypeContexts
<1>5. tc'.there <= tc'.members
  BY <1>2, <1>4, Counts
<1>6. err' \/ Complete'
  BY <1>1, <1>2, <1>4, Counts DEF Complete
<1> QED
  BY <1>1, <1>3, <1>4, <1>5, <1>6 DEF MembersInv, Items

(* iterNext of the three iterators.                                        *)
LEMMA IterationKeeps ==
  ASSUME MembersInv, ArrayNext \/ DictNext \/ SortFails \/ SortedDictNext
  PROVE  MembersInv'
<1>1. /\ pc = "iterNext" /\ tc.written = tc.index /\ tc.index <= tc.members
      /\ tc.type = "array" => tc.there = tc.members /\ tc.size = tc.members
  BY DEF ArrayNext, DictNext, SortFails, SortedDictNext, Iterating, MembersInv,
         Items, Limit
<1>2. tc.index >= tc.members => Complete
  BY <1>1, Counts DEF Complete
<1>3. CASE ArrayNext
  <2>1. tc.type = "array" /\ tc.there \in Left
    BY <1>3 DEF ArrayNext, Iterating, Left
  <2> QED
    BY <1>1, <1>2, <1>3, <2>1, Counts, ItemKeeps, LeavesLoop
       DEF ArrayNext, NoMoreItems
<1>4. CASE DictNext
  <2>1. tc.type = "dict" /\ ~Sorted
    BY <1>4 DEF DictNext, Iterating
  <2>2. CASE tc.index < tc.there
    <3>1. PICK left \in Left :
                 \/ HasItem(open \cup {"itemName"}, tc.size, left)
                 \/ IterationFails(open \ {"itemName"}, left, TRUE)
      BY <1>4, <2>2 DEF DictNext
    <3>2. ASSUME HasItem(open \cup {"itemName"}, tc.size, left)
          PROVE  MembersInv'
      BY <1>1, <2>1, <2>2, <3>2, Counts, ItemKeeps
    <3>3. ASSUME IterationFails(open \ {"itemName"}, left, TRUE)
          PROVE  MembersInv'
      BY <1>1, <3>3, FailureKeeps
    <3> QED
      BY <3>1, <3>2, <3>3
  <2>3. CASE ~(tc.index < tc.there)
    <3>1. NoMoreItems
      BY <1>4, <2>3 DEF DictNext
    <3>2. Complete
      BY <1>1, <2>3, Counts DEF Complete
    <3> QED
      BY <1>1, <3>1, <3>2, LeavesLoop DEF NoMoreItems
  <2> QED
    BY <2>2, <2>3
<1>5. CASE SortFails
  BY <1>1, <1>5, FailureKeeps DEF SortFails
<1>6. CASE SortedDictNext
  <2>1. /\ Size = tc.members /\ Size \in Nat /\ tc.type = "dict" /\ Sorted
        /\ "newObj" \in open \cup Sort
    BY <1>6, Counts
       DEF SortedDictNext, Iterating, Size, Sort, FirstCall, MembersInv, Items,
           Limit
  <2>2. CASE tc.index < Size
    <3>1. PICK left \in Left :
            \/ HasItem(open \cup Sort \cup {"itemName"}, Size, left)
            \/ IterationFails((open \ {"itemName"}) \cup Sort, left, TRUE)
            \/ /\ left < Size \/ "badKey" \in tc.options
               /\ IterationFails(open \cup Sort \cup {"itemName"}, left, FALSE)
      BY <1>6, <2>2 DEF SortedDictNext
    <3>2. "badKey" \notin tc.options
      BY <2>1 DEF MembersInv, Sorted
    <3>3. ASSUME HasItem(open \cup Sort \cup {"itemName"}, Size, left)
          PROVE  MembersInv'
      BY <1>1, <2>1, <2>2, <3>3, ItemKeeps
    <3>4. ASSUME NEW held, IterationFails(held, left, TRUE)
          PROVE  MembersInv'
      BY <1>1, <3>4, FailureKeeps
    <3>5. ASSUME NEW held, left < Size, IterationFails(held, left, FALSE)
          PROVE  MembersInv'
      BY <1>1, <2>1, <3>5, FailureKeeps
    <3> QED
      BY <3>1, <3>2, <3>3, <3>4, <3>5
  <2>3. CASE ~(tc.index < Size)
    <3>1. pc' = "iterEnd" /\ UNCHANGED tc
      BY <1>6, <2>3 DEF SortedDictNext
    <3> QED
      BY <1>1, <1>2, <2>1, <2>3, <3>1, Counts, LeavesLoop
  <2> QED
    BY <2>2, <2>3
<1> QED
  BY <1>3, <1>4, <1>5, <1>6

(* An item is written, and the code of the user takes items from the dict. *)
LEMMA EncodeItemKeeps == MembersInv /\ EncodeItem => MembersInv'
<1> SUFFICES ASSUME MembersInv, EncodeItem PROVE MembersInv'
  OBVIOUS
<1>1. PICK failed \in BOOLEAN, n \in Left :
        /\ tc' = [tc EXCEPT !.errorMsg = failed,
                            !.written = tc.written + 1, !.there = n]
        /\ pc' = IF failed THEN "iterEnd" ELSE "iterNext"
  BY DEF EncodeItem
<1>2. pc = "item" /\ ("newObj" \in open => "newObj" \in open')
  BY DEF EncodeItem
<1>3. /\ n \in Nat /\ n <= tc.there /\ tc.written + 1 \in Nat
      /\ tc.type = "array" => n = tc.there
  BY <1>1, LeftOver, Counts
<1>4. tc' \in TypeContexts
  BY <1>1, <1>3, Counts DEF TypeContexts
<1>5. /\ tc'.index = tc.index /\ tc'.size = tc.size /\ tc'.type = tc.type
      /\ tc'.options = tc.options /\ tc'.members = tc.members
      /\ tc'.there = n /\ tc'.written = tc.written + 1 /\ tc'.errorMsg = failed
  BY <1>1, Counts DEF TypeContexts
<1>6. tc'.there <= tc'.members
  BY <1>3, <1>5, Counts
<1> QED
  BY <1>1, <1>2, <1>3, <1>4, <1>5, <1>6, Counts
     DEF MembersInv, Items, Limit, Sorted, FirstCall

(* Every step of the classic encoder.                                      *)
LEMMA ContextKeeps ==
  ASSUME SortAlone, HeldInv, MembersInv, ClassicEncoderNext
  PROVE  MembersInv'
<1> USE DEF SortAlone, MembersInv, TypeContexts, Items, NothingYet, Limit,
            Complete, FirstCall, Sorted, Encoding, rest
<1>1. CASE BeginTypeContext
  <2>1. "newObj" \notin open
    BY <1>1 DEF BeginTypeContext, HeldInv, AtMost, MayHold, Dumper, Loader,
                ClassicDumpHolds, DumpFileHolds, WriteHolds, CoreHolds
  <2>2. PICK options \in Options :
          \/ /\ tc' = [tcFresh EXCEPT !.options = options]
             /\ pc' = "begin" /\ "newObj" \notin open'
          \/ /\ tc' = [[tcFresh EXCEPT !.options = options]
                         EXCEPT !.errorMsg = TRUE]
             /\ pc' = "encodeReturns"
    BY <1>1, <2>1 DEF BeginTypeContext
  <2>3. options \in SUBSET {"sort", "default", "badKey"}
    BY OptionsAssumption
  <2>4. "sort" \in options => options = {"sort"}
    BY DEF SortAlone
  <2>5. CASE pc' = "begin"
    <3>1. tc' = [tcFresh EXCEPT !.options = options] /\ "newObj" \notin open'
      BY <2>2, <2>5
    <3>2. tc' = [options |-> options, type |-> "none", level |-> 0,
                 index |-> 0, size |-> 0, members |-> 0, there |-> 0,
                 written |-> 0, errorMsg |-> FALSE, ended |-> TRUE]
      BY <3>1 DEF tcFresh
    <3>3. tc' \in TypeContexts
      BY <2>3, <3>2
    <3> QED
      BY <2>4, <2>5, <3>1, <3>2, <3>3
  <2>6. CASE pc' = "encodeReturns"
    <3>1. tc' = [[tcFresh EXCEPT !.options = options]
                 EXCEPT !.errorMsg = TRUE]
      BY <2>2, <2>6
    <3>2. tc' = [options |-> options, type |-> "none", level |-> 0,
                 index |-> 0, size |-> 0, members |-> 0, there |-> 0,
                 written |-> 0, errorMsg |-> TRUE, ended |-> TRUE]
      BY <3>1 DEF tcFresh
    <3>3. tc' \in TypeContexts
      BY <2>3, <3>2
    <3>4. Complete' /\ tc'.there <= tc'.members /\ tc'.options = options
      BY <3>2
    <3> QED
      BY <2>4, <2>6, <3>3, <3>4
  <2> QED
    BY <2>2, <2>5, <2>6
<1>2. CASE Refuse
  BY <1>2 DEF Refuse, GotoInvalid
<1>3. CASE CallDefault
  BY <1>3 DEF CallDefault
<1>4. CASE EncodeScalar
  BY <1>4 DEF EncodeScalar
<1>5. CASE EncodeUtf8 \/ EncodeRaw
  <2>1. PICK type \in {"utf8", "raw"}, refused \in BOOLEAN :
          tc' = [tc EXCEPT !.type = type, !.errorMsg = refused]
    BY <1>5 DEF EncodeUtf8, EncodeRaw, EncodeString
  <2>2. pc = "begin" /\ pc' = "end"
    BY <1>5 DEF EncodeUtf8, EncodeRaw, EncodeString
  <2>3. tc' \in TypeContexts
    BY <2>1
  <2>4. /\ tc'.options = tc.options /\ tc'.members = tc.members
        /\ tc'.there = tc.there /\ tc'.written = tc.written
    BY <2>1
  <2> QED
    BY <2>2, <2>3, <2>4
<1>6. CASE NoStringValue
  BY <1>6 DEF NoStringValue
<1>7. CASE BeginDict
  <2>1. PICK n \in 0..MaxMembers :
          tc' = [tc EXCEPT !.type = "dict", !.index = 0,
                           !.members = n, !.there = n]
    BY <1>7 DEF BeginDict
  <2>2. n \in Nat
    BY MembersAssumption
  <2>3. tc' \in TypeContexts
    BY <2>1, <2>2
  <2>4. pc' = "iterNext" /\ pc = "begin"
    BY <1>7 DEF BeginDict
  <2>5. FirstCall' \/ "default" \in tc.options
    BY <1>7, <2>4 DEF BeginDict
  <2> QED
    BY <2>1, <2>2, <2>3, <2>4, <2>5
<1>8. CASE BeginArray
  <2>1. PICK n \in 0..MaxMembers :
          tc' = [tc EXCEPT !.type = "array", !.index = 0, !.size = n,
                           !.members = n, !.there = n]
    BY <1>8 DEF BeginArray
  <2>2. n \in Nat
    BY MembersAssumption
  <2>3. tc' \in TypeContexts
    BY <2>1, <2>2
  <2>4. pc' = "iterNext" /\ pc = "begin"
    BY <1>8 DEF BeginArray
  <2>5. FirstCall' \/ "default" \in tc.options
    BY <1>8, <2>4 DEF BeginArray
  <2> QED
    BY <2>1, <2>2, <2>3, <2>4, <2>5
<1>9. CASE IterEnd
  BY <1>9 DEF IterEnd
<1>10. CASE EndTypeContext
  BY <1>10 DEF EndTypeContext, EndReleases
<1>11. CASE EncodeReturns
  BY <1>11 DEF EncodeReturns
<1> QED
  BY <1>1, <1>2, <1>3, <1>4, <1>5, <1>6, <1>7, <1>8, <1>9, <1>10, <1>11,
     IterationKeeps, EncodeItemKeeps DEF ClassicEncoderNext

(* A text of the classic encoder has every item of the container, for      *)
(* containers of any size and user code that takes any of them away, when  *)
(* a call with sort_keys has no default, nor keys that cannot be looked up.*)
THEOREM MembersCorrect == SortAlone /\ Spec => []EveryMemberWritten
<1> DEFINE Inv == SortAlone /\ HeldInv /\ MembersInv
<1>1. SortAlone /\ EntriesInit => Inv
  BY HeldInit, BindingsAssumption
     DEF MembersInv, EntriesInit, Init, tcFresh, TypeContexts, Items
<1>2. Inv /\ [EntriesNext]_<<vars, context>> => Inv'
  <2> SUFFICES ASSUME SortAlone, HeldInv, MembersInv,
                      [EntriesNext]_<<vars, context>>
               PROVE  MembersInv'
    BY HeldStep DEF SortAlone
  <2>1. CASE UNCHANGED <<vars, context>>
    BY <2>1
       DEF MembersInv, Items, NothingYet, Limit, Complete, FirstCall, Sorted,
           vars, core, context
  <2>2. ASSUME pc' \notin ContextSteps, UNCHANGED context,
               pc \in Importing \cup BeforeContext \/ Loader \/ HPy
        PROVE  MembersInv'
    BY <2>2, FreshKeeps DEF HeldInv, Calling, Untouched, Dumper, Loader
  <2> QED
    BY <2>1, <2>2, ImportOutside, DumpOutside, LoadOutside, ClassicOutside,
       ClassicTextKeeps, ContextKeeps DEF EntriesNext, ClassicNext, Stopped
<1>3. Inv => EveryMemberWritten
  BY DEF EveryMemberWritten, MembersInv, Items, Complete, HeldInv, Answer
<1> QED
  BY <1>1, <1>2, <1>3, PTL DEF Spec
=============================================================================
