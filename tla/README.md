# TLA+ verification of hpy-ujson

hpy-ujson is UltraJSON with its CPython binding ported to HPy. A C core
(`src/ujson/lib`) encodes and decodes JSON through tables of callbacks, and a
binding (`src/ujson/python`) fills the tables with functions that make and inspect
Python objects. This directory holds TLA+ modules of that code, the TLC runs that
check them on small instances, and TLAPS proofs for all instances. Paths below
are relative to the repository.

One call of `loads` or `dumps` is sequential. What is hard in this code is not
parallelism but the seam between core and binding: errors travel in two
channels (`errorStr`/`errorMsg` of the core, the pending Python exception of the
binding), several callbacks return `void` and cannot report a failure, handles,
references and pool cells are released by hand on a dozen early returns, counters
are restored on some of them and not on others, bytes are appended without a test
under a reservation made earlier, and `dumps` runs the user's code in the middle
of an iteration whose size it has already read.

## Inventory

| component | state | operations | what makes it correct | status |
| --- | --- | --- | --- | --- |
| decoder core, `lib/ultrajsondec.c` | `start`, `end`, `lastType`, `objDepth`, the C stack, `errorStr` | `decode_any`, `decode_array`, `decode_object`, `JSON_DecodeObject` | accepts JSON and nothing else; returns no value that reaches beyond the text; respects the depth limit; the first error is reported | modelled |
| decoder callbacks and value pool, `ujson_hpy.c` 116-624 | a free list of `HpyJsonValue` cells, each with a handle; the pending exception | `Decoder_new*`, `arrayAddItem`, `objectAddKey`, `releaseObject`, `hpy_loads_decode_raw` | every cell has one owner, none leaks; a value comes out only if every item went in | modelled |
| scanning of numbers and strings, `ultrajsondec.c` | the bytes of the text, `escStart`/`escHeap`, `intValue` | `decode_string`, `decode_numeric`, `decode_true`, ... | the right number or string, at the limits too; no byte beyond the next null is read, and none beyond the buffer written, for texts with a null behind them (see *The end of the text*) | modelled |
| encoder core, recursion, `lib/ultrajsonenc.c` | `level`, `errorMsg`, the C stack | `encode`, `JSON_EncodeObject` | one JSON text or an error; the level is the depth; an error stops the recursion | partly |
| output buffer, same file | `start`, `offset`, `end` | `Buffer_Reserve`, `Buffer_Realloc`, `Buffer_Append*Unchecked` | every unchecked append is covered by a reservation | partly |
| escaping of strings, same file | `io`, `of` | `Buffer_EscapeString*` | what is written is what the scanner reads back, within six bytes per byte | modelled |
| writing of integers, same file and `ujson_hpy.c` 1640-1690 | the union `scalar` | `hpy_encoder_classify_scalar`, `Buffer_Append*Long*` | every integer is read back | partly |
| encoder callbacks, `ujson_hpy.c` 831-2130 | type contexts (`newObj`, `itemValue`, `itemName`, `dictObj`, `index`, `size`), the pending exception | `beginTypeContext`, `iterNext`, `iterGetValue`, `iterGetName`, `iterEnd`, `endTypeContext`, getters | handles and contexts are all given back; what a callback raises reaches the caller | partly |
| entry points, `ujson_hpy.c` 626-828, 2133-2847 | arguments, options, separators, the file object, `HPyGlobals` | `loads`, `load`, `dumps`, `dump`, `module_exec` | nothing they took stays held whatever fails; `dump` writes what `encode` gave, once, or nothing | modelled |
| classic binding, `objToJSON.c`, `JSONtoObj.c`, `ujson.c` | as the HPy binding, with reference counts | as above | as above | partly |
| wrapper of double-conversion, `dconv_wrapper.cc` | none | `dconv_d2s`, `dconv_s2d` | not considered | not modelled |
| build, benchmarks, tests | | | | not modelled |

The components meet in function calls only. `loads` builds a decoder with the
binding's callbacks and a fresh pool, calls `JSON_DecodeObject`, then looks at the
pending exception, at `errorStr` and at the result, in that order. `dumps` builds
an encoder, calls `JSON_EncodeObject`, then looks at `errorMsg` and at the pending
exception. During `encode` the binding calls `default`, `toDict`, `__json__`,
`__str__` and comparison methods of the user's objects.

## Modules

| module | what it is |
| --- | --- |
| `Decoder` | decoder core with the callbacks and pool of the HPy binding, over tokens |
| `JsonAcceptor` | abstract: the pushdown automaton of JSON with a depth limit |
| `DecoderAcceptor` | the refinement mapping from Decoder to JsonAcceptor |
| `StringScanner`, `NumberScanner` | `decode_string`; `decode_numeric` and the literals, over bytes |
| `Encoder` | `encode` with type contexts, iterators and handles, on both HPy ABIs |
| `EncoderBuffer` | sizes of the output buffer under the same recursion |
| `StringEscaper`, `NumberWriter` | what `encode` writes for a string and for an integer |
| `JsonStrings` | reference: what the bytes of UTF-8 and of JSON strings mean |
| `JsonNumbers` | reference: the grammar of JSON's numbers, and what is tolerated besides |
| `StringRoundTrip`, `NumberRoundTrip` | compose escaper and scanner, writer and scanner |
| `Entry` | what the entry points of both bindings share |
| `DumpEntry`, `LoadEntry` | `dumps` and `dump`, `loads` and `load` of the HPy binding |
| `ClassicEntry`, `ClassicEncoder` | the same four of the classic binding; its type context |
| `Entries` | compose: a process that imports a binding and calls one function |
| `FileContract` | abstract: what a call does to the file, and what it returns |
| `MC*` | the texts, strings and integers TLC is given |
| `*Proofs` | theorems and their proofs |

**Decoder.** The recursion is an explicit stack: a frame is an activation of
`decode_array` or `decode_object` with its `newObj` (`obj`), its `itemName` (`key`)
and whether `len == 0` (`first`). `pc` says where the innermost activation is: about
to call `decode_any` (`value`), at the head of its loop (`loop`), back from a call
(`return`), at the `switch` after an item (`separator`). The text is a sequence of
tokens; `Peek` is what `*ds->start` is compared with after white space, in the memory
the text is in. `cell` is the value pool. Each callback that makes an object either
takes a free cell or fails (`NewValue`), at most `MaxFaults` times; `arrayAddItem`
and `objectAddKey` may fail as well and tell the core nothing, as in the code. A
container that could not be made is a NULL `obj` that nobody tests for, up to
`AddToNull`, where the binding reads through it (`pc = "crashed"`).

*The end of the text.* The core is told where the text ends, but looks at `ds->end`
only in `decodeDouble`, to size a buffer for strings, and when all is decoded; it
relies on a NUL behind the text for the rest. A `str`, `bytes` or `bytearray` has
one, and the universal ABI copies everything else into `bytes`. The CPython ABI
(`ujson_hpy.c:742`) and the classic binding (`JSONtoObj.c:204`) pass on the memory of
any other contiguous buffer as it is, and so the core reads what is behind it. The
three modules of the decoder therefore have a memory that may go on behind the text,
as far as the next NUL: `input.memory` and `input.cut` in Decoder, `end` in
StringScanner and NumberScanner. They say what then happens:

* no value has bytes from behind the text in it, and none leaves some of the text out:
  the check for trailing data refuses whatever ended elsewhere than the text
  (`StaysInText`, `AcceptsJson`); but it refuses JSON too, which ends in an integer or
  white space that goes on behind it (run `DecoderBuffer`);
* a text without any byte is taken for 0.0 if a number is behind it
  (`loads(memoryview(b"1.5")[:0])`): `decodeDouble` is told to read none of it, and
  decoding ends where the text does. `AcceptsJson` and JsonAcceptor except this one;
* an integer with a point or an exponent right behind the text is a double to
  `decode_numeric`, and comes back as a `float`;
* a string whose closing quote is behind the text is written on into a buffer that was
  sized for the text: `pc = "overflow"` in StringScanner, which stops there since what
  a write beyond a buffer does is undefined. `FitsBuffer` says that nothing else
  overflows; a string that begins behind the text is refused, its size being negative
  and thus, as a `size_t`, too large.

**JsonAcceptor** says what `loads` promises of a text, token by token; only a
failure, or a buffer that runs on behind the text, lets it reject what it should accept. The decoder does not reject where the
acceptor does: a name that is no string is decoded to its end, since the core
looks at `lastType`, which a container that ends with a string leaves as it likes.
**DecoderAcceptor** therefore maps a state to `rejected` as soon as its text is
doomed, which the code notices later, perhaps only in the failing `SetItem` of the
binding.

**StringScanner** takes one byte a step. All strings of a text share one buffer of
code points, on the stack or moved to the heap (`escStart`, `escHeap`), whose size is
looked at once per string; `high` is `lastHighSurrogate`. **NumberScanner** has a
scaled width: `2 * Half` stands for 2^64 and `IntHalf` for 2^31, so that every value
and every overflow occurs; the casts to `JSINT32`, `JSINT64` and `JSUINT64` are
modelled as what they do modulo the width. Of a double it keeps how far the library
reads.

**Encoder.** A frame is an activation of `encode` that iterates a container, with
the parts of its type context that hold handles. What an object turns out to be is
a choice made when `encode` meets it, so that all object graphs of up to `MaxNodes`
nodes are covered without building them: a value, a list, tuple or dict of some
size, possibly after calls of `default`; an object that is refused (`EncodeInvalid`);
a string that cannot be had (`EncodeNoString`). `there` is the number of items a
container still has, which user code may lower (`AfterUser`). `text` keeps of the
output what JSON's bracket structure needs: the open brackets, the last token, and
whether some token was written where it may not stand. `raised` follows the last
exception: one that refused a value sets `errorMsg` too; one that is only pending may
be lost in a later look-up.

**EncoderBuffer** keeps sizes only: `offset` is what was written, `size` what was
allocated, and each frame keeps the `per_item_reserve` (`reserve_size`) its activation
computed when it started. A string of n bytes takes from n to 6n bytes, which
**StringEscaper** shows. The two encoder modules are not composed: Encoder says in
which order the callbacks may answer, and EncoderBuffer allows every order of
answers, a superset, so its results apply whatever the binding does.

**Entry and its extensions.** An action is a call of the C API, or several in a row
whose failures are handled alike, and each may fail. `open` is the set of what the
function holds, `raw` that of what the pointers given to the core point into, `file`
the calls made on the file. Encoding and decoding are one step in the HPy entry
points, with the outcomes Encoder and Decoder allow (a text and yet a pending
exception, and handles that contexts leave open, among them); in the classic binding **ClassicEncoder** does it call by
call for the object given to `dumps`, with references as members of `open`; the values
nested in it are one step, `EncodeItem`, which may leave open what theirs can
(`NestedLeft`). `Left` is what the user's code leaves in a dict, and the option `badKey`
says that there are keys whose `__hash__` or `__eq__` raises.

### Actions and code

| code | actions |
| --- | --- |
| `decode_any` and the scalars | `DecodeScalar`, `DecodeString`, `DecodeNothing`, `DecodeNoBuffer`, `DecodeUnexpected` |
| head of `decode_array`, `decode_object` | `BeginTooDeep`, `BeginArray`, `BeginObject` |
| their loops | `LoopClose`, `LoopNext`, `ChildFailed`, `KeyRefused`, `KeyRead`, `AddItem`, `AddToNull`, `SeparatorClose`, `SeparatorComma`, `SeparatorUnexpected` |
| end of `JSON_DecodeObject`, `hpy_loads_decode_raw` | `CheckTrailing`, `Raise`, `ReturnValue` |
| `decode_string` | `BeginString`, `BeginReserve`, `BeginNoMemory`, `BeginBehind`; `LiteralByte`, `LeadByte`, `EscapeByte`, `EndString`, `BadByte`; `ContinuationByte`, `LastContinuationByte`, `BadContinuation`; `EscapedLetter`, `BeginUnicode`, `BadEscape`; `UnicodeDigit`, `LastUnicodeDigit`, `BadDigit`; `Overflow` |
| the release of `escStart` in `JSON_DecodeObject` | `Finish` |
| `decode_numeric`, `decodeDouble` | `BeginInteger`, `BeginNegative`, `ReadDigit`, `NewInt`, `NewLong`, `NewUnsignedLong`, `NewIntegerFromString`, `NewDouble` |
| `decode_true`, `decode_false`, `decode_null`, `NaN`, `Infinity` | `BeginWord`, `ReadLetter`, `LastLetter`, `BadLetter` |
| head of `encode` | `EncodeTooDeep`, `EncodeBadName` |
| `beginTypeContext` and the switch of `encode` | `EncodeInvalid`, `EncodeValue`, `EncodeBadFloat`, `EncodeRefused`, `EncodeNoString`, `BeginArray`, `BeginObject` |
| `iterNext` and the loops of `encode` | `FetchItem`, `FetchMissing`, `FetchMember`, `AbandonDict`, `CloseContainer`, `NextItem`, `Unwind` |
| end of `hpy_encode_python_object` | `Finish` |
| `Buffer_EscapeString*` | `EndOfString`, `EscapeLetter`, `EscapeCode`, `CopyByte`, `EscapeSequence`, `RefuseSequence` |
| `hpy_encoder_classify_scalar`, `Buffer_Append*LongUnchecked` | `ClassifyLong`, `NotLong`, `ClassifyUnsigned`, `NotUnsigned`, `WriteRaw`, `WriteDigit`, `FinishNumber` |
| `hpy_dumps_impl`, `hpy_dump_impl`, `hpy_encode_python_object` | the actions of `DumpNext` |
| `hpy_loads_impl`, `hpy_load_impl`, `hpy_loads_dispatch` | the actions of `LoadNext` |
| `objToJSON`, `objToJSONFile`, `JSONToObj`, `JSONFileToObj` | the actions of `ClassicNext` |
| the type context of `objToJSON.c` | the actions of `ClassicEncoderNext` |
| `module_exec`, `PyInit_ujson` | `ExecCreate` to `ExecDecimal`; `CreateModule`, `ImportDecimal`, `NewException` |

A step of a model is one callback, one character or one call of the C API together
with the code around it, never less than the code between two points at which
something else may happen: no other thread touches the state of a call, and the
user's code runs only inside the steps that call it.

## Runs

| run | properties | shows | distinct states |
| --- | --- | --- | --- |
| `Decoder` | `TypeOK`, `AcceptsJson`, `DepthExact`, `StaysInText`, `OneOwner`, `ValueMeansComplete`, `NullHasReason`, `ImplementsAcceptor`, `FirstErrorKept`, `Terminates` | acceptance is the grammar, also step by step against JsonAcceptor; depth, ownership of cells, completeness of values, no NULL without a reason, first error kept, termination, with up to two failures, in terminated texts and in buffers | 595,883 |
| `StringScanner` | `FitsBuffer`, `StopsAtNull`, `OnlyCodePoints`, `OneBlockFreed`, `DecodesItsMeaning`, `RefusesOnlyMalformed` | strings are read as what they mean, in a buffer that has to move to the heap, with and without bytes behind the text | 234,856 |
| `StringRoundTrip` | `FitsReserve`, `CleanOutput`, `AcceptsUtf8`, `RoundTripsPaired` | the escaper stays in its reservation, refuses what is not UTF-8, and the scanner reads its output back | 272,500 |
| `NumberRoundTrip` | `NoticesOverflow`, `ReportsItsNumber`, `ReadsJsonNumbers`, `TakesOnlyScalars`, `RoundTripsInts` | numbers are read exactly or found too long; the grammar of numbers and its tolerated extensions; integers come back | 229,531 |
| `EncoderCPython` | `LevelExact`, `NoHandleLeak`, `TextIsJson`, `Terminates` | level, handles and text on the CPython ABI with user code that shrinks containers | 296,903 |
| `EncoderUniversal` | `TypeOK`, `RecursionBound`, `RaisedOrJson`, `RaisedMeansError`, `StopsAtFirstError` | recursion limit, errors stop the encoding, text is JSON and every item one that was found until something is raised, no text while an exception is pending or after a refusal, no handle or context is given back twice, with every fault | 599,547 |
| `EncoderBuffer` | `ReservedEnough`, `ReserveIsCurrent` | reservations cover appends, in the build that grows by just what is needed | 211,866 |
| `Entries` | `NothingHeld`, `MemoryHeld`, `EveryMemberWritten`, `KeepsContract` | whatever fails, nothing stays held but what `encode` is known to leave, and the core's pointers are good; a returned text has all members; the four calls of three bindings implement FileContract | 115,774 |

Four further runs find a documented promise broken:

| run | property | what happens |
| --- | --- | --- |
| `DecoderBuffer` | `AcceptsAnyBuffer` | JSON in a buffer, whose integer or white space goes on in the memory behind it, is refused with "Trailing data" |
| `StringRoundTripExact` | `RoundTripsExact` | with `ensure_ascii` two lone surrogates that form a pair come back as one code point; the test at `tests/test_ujson.py:1390` asserts that what went in comes back, but its random bytes hardly ever hit this |
| `EncoderBufferDrift` | `InBounds` | a NULL string leaves the level one too high; the next item is indented beyond its reservation |
| `EntriesSortedDefault` | `EveryMemberWritten` | in the classic binding, with `sort_keys`, a dict that `default` returned is written as `{}`: its iterator sees `newObj` set and takes the keys for obtained |

The passing runs check the same properties where these causes are excluded:
`AcceptsJson` claims acceptance of texts that are not cut off; `RoundTripsPaired` has
surrogates joined as `loads` joins them; `ReservedEnough` speaks of executions in
which no string failed; `Entries` combines `sort_keys` neither with `default` nor with
keys that cannot be looked up. `EncoderCPython` is without failing keys, strings and
floats and without a list of keys, each of which breaks one of its properties (see
*Known behaviour*); `EncoderUniversal` checks what holds in spite of all of them.

### Bounds, and why they are enough

* `Decoder` takes every sequence of at most four tokens (`MaxShort`), and all
  variants, by one token changed, removed or added at the end, of the JSON values of
  up to eight tokens (`MaxSeed`), names being any value. A depth limit of 2 lets
  three nestings occur, one of them refused. Each activation looks only at the next
  token, its own `len`, `lastType` and what its callee returned, so a new behaviour
  would need a third kind of item or a longer memory than the code has. Behind a text in a
  buffer stands the rest of a shorter sequence or of one of those values, the cut at
  every token and in every token and white space. Five cells
  suffice: two containers, two names and a value. Two failures: one that goes
  unreported and one after it.
* `StringScanner` has every kind of character and escape, whole, with any byte
  replaced or dropped, or broken off, several strings to a text, and a stack buffer
  of six code points in place of 256, so that strings fit, outgrow it, and find the
  block of an earlier string. None, one or seven of the bytes are behind the text: the
  next character, or more than the buffer has to spare.
* `StringRoundTrip` pairs every boundary of UTF-8 with every other, damages each
  byte, has up to three surrogates in a row, and takes all eight combinations of
  the options.
* `NumberRoundTrip` has eight bits for 64 and five for 32: texts of four characters
  reach both limits with one digit to spare, up to two of them behind the text; the integers from -400 to 700 and
  some longer ones reach every branch of the classification. The proofs hold
  for every width.
* The encoder runs have nine (`EncoderCPython`) or eight nodes, containers of up to
  three items (a first, a middle, a last one) and a limit of 2, so that the limit is
  met. Three items let a container shrink both before and after the current item.
* `EncoderBuffer` has a fixed part of 2 bytes in place of 128 and strings of one
  byte, so that every append fills its reservation: the slack of the real numbers
  would hide a missing byte. The indentations are -1, 0 and 2, which `dumps`
  distinguishes. The proofs remove these bounds.
* `Entries` needs no bound but the two members of a container in the classic
  encoder: every call of the C API may fail, in every combination. The options are none,
  `sort_keys`, `default`, bad keys, and the last two together; the pairs with
  `sort_keys` are those that break `EveryMemberWritten`.

### Fairness

`Spec` of Decoder, Encoder and Entries has weak fairness of the whole next-state
relation: one thread runs the call from its start to its end, and every step is the
next statement of that thread. Callbacks return because user code is taken to
return. No other fairness is assumed. `Stopped` is the state after the call.
FileContract promises that a call that began comes back, so `KeepsContract` is also
the termination of the entry points.

### Taken from outside the repository

User code (`default`, `toDict`, `__json__`, `__str__`, `__lt__`, an overridden
`encode` of a string) may raise, return any type, and remove items from the ends
of containers being encoded. What `__json__` returns is taken to be JSON. HPy and
CPython calls either succeed or fail with an exception, except for those, as
`PyDict_GetItem`, that hide it. What is in memory behind a buffer is arbitrary, with a
NUL somewhere. `strtod` of double-conversion reads the longest
prefix that is a number in its grammar. `str` turns an integer into its decimal
digits.

## Proofs

TLAPS proves, for every value of the constants that satisfies the assumptions of
the modules, what the runs check on small instances:

| theorem | statement |
| --- | --- |
| `DecoderProofs!TypeCorrect` | `Spec => []TypeOK` |
| `DecoderProofs!DepthCorrect` | `Spec => []DepthExact` |
| `DecoderProofs!TextCorrect` | `Spec => []StaysInText` |
| `DecoderProofs!ResultCorrect` | `Spec => []ValueMeansComplete` |
| `DecoderProofs!NullCorrect` | `Spec => []NullHasReason` |
| `DecoderProofs!FirstErrorCorrect` | `Spec => FirstErrorKept` |
| `DecoderProofs!OwnerCorrect` | `Spec => []OneOwner` |
| `DecoderProofs!NoLeak` | `Spec => []NothingLeaks` |
| `DecoderAcceptorProofs!AcceptorCorrect` | `Spec => ImplementsAcceptor` |
| `StringScannerProofs!TypeCorrect`, `NeverOverflows`, `StopsAtTheNull`, `PassesCodePoints`, `FreesItsBlock` | `Spec => []TypeOK`, `[]FitsBuffer`, `[]StopsAtNull`, `[]OnlyCodePoints`, `[]OneBlockFreed` |
| `StringScannerProofs!DecodesMeaning`, `RefusesMalformed` | `Spec => []DecodesItsMeaning`, `[]RefusesOnlyMalformed`, for every text, wherever in the memory it ends, and every size of the buffer on the stack |
| `StringRoundTripProofs!TypeCorrect`, `ReserveIsEnough`, `NothingForbidden` | `Spec => []TypeOK`, `[]FitsReserve`, `[]CleanOutput` of the escaper |
| `StringRoundTripProofs!DumpsUtf8`, `LoadsDumped` | `RoundTripSpec => []AcceptsUtf8`, `[]RoundTripsPaired`, for every byte string, all options and every size of the buffer |
| `NumberRoundTripProofs!TypeCorrect`, `OverflowNoticed`, `NumberReported`, `StopsAtTheNull` | `Spec => []TypeOK`, `[]NoticesOverflow`, `[]ReportsItsNumber`, `[]StopsAtNull`, for every width |
| `NumberRoundTripProofs!IntsRoundTrip` | `RoundTripSpec => []RoundTripsInts`, for every width and every integer |
| `NumberRoundTripProofs!NumbersOfJsonRead`, `OnlyScalarsTaken` | `RoundTripSpec => []ReadsJsonNumbers`, `[]TakesOnlyScalars`, for every text |
| `EncoderProofs!LimitCorrect` | `Spec => []RecursionBound` |
| `EncoderProofs!StopsCorrect` | `Spec => StopsAtFirstError` |
| `EncoderProofs!LevelCorrect` | `Spec => []LevelExact` if no string fails |
| `EncoderProofs!RaisedOrJsonCorrect` | `Spec => []RaisedOrJson` on the universal ABI, or without `sort_keys` |
| `EncoderProofs!RaisedCorrect` | `Spec => []RaisedMeansError`, on both ABIs and whatever fails |
| `EncoderProofs!TextCorrect` | `Spec => []TextIsJson` on the CPython ABI without `sort_keys`, when only shrinking containers interfere |
| `EncoderProofs!HandlesCorrect` | `Spec => []NoHandleLeak` if no string fails and no list of keys is stored over what `default` returned |
| `EncoderProofs!TypeCorrect` | `Spec => []TypeOK`, whatever fails |
| `EntriesProofs!HeldCorrect`, `MemoryCorrect` | `Spec => []NothingHeld`, `[]MemoryHeld` |
| `EntriesProofs!MembersCorrect` | `Spec => []EveryMemberWritten` if `sort_keys` is never given with `default` or with keys whose look-up fails (`SortAlone`) |
| `EntriesProofs!ContractCorrect` | `Spec => Contract!Safety`: the entry points implement FileContract, fairness aside |
| `EncoderBufferProofs!BufferTypeCorrect`, `ReservedCorrect`, `ReserveStaysCorrect` | `Spec => []TypeOK`, `[]ReservedEnough`, `[]ReserveIsCurrent` |

*The decoder.* None of the properties is inductive alone. `Shape` says what each
`pc` implies for the frames and the result (a key is held only between a name and
its value; a list has no key; nothing is being returned at the head of a loop).
`Reported` says that every failure is known to one of the two channels: a message
of the core is always on its way out with a NULL, a NULL always has a message or
an exception, a frame without a container and a lost item have an exception, and
the depth counter is never less than the number of frames. With these, `IInv` is
inductive; the argument for `ValueMeansComplete` is then that an exception, once
pending, is never cleared by the decoder (`ExceptionStays`).

*The end of the text.* In a terminated text the scanner passes the NUL only with an
error (`StaysInText`); in a buffer it may be anywhere, and a value is returned only
after `AtEnd` held. For the acceptor the text is rejected as soon as the scanner is
behind it (`Overrun`): from there it never comes back.

*Ownership.* `Ownership(live, fs, r)` states the ownership of pool cells as a
relation between the cells in use, the frames and the result; lemmas say how
pushing, popping and changing a frame and releasing cells transform it, and the
step proof instantiates them action by action. `NothingLeaks` follows, since at the
end there are no frames and no result.

*Acceptance.* The step simulation needs what the cells hold (`ObjKinds`, `KeyKinds`,
`RetKind`) and where the name of a member is (`KeyHere`, `NameFirst`); that a cell
which holds a name is not reused is `OneOwner`. A doomed name stays doomed until it
is refused, hence `rejected` is final; a step of the decoder that does not doom its
text takes the token the acceptor takes, or none.

*Strings.* A code point takes at least one byte, and a joined pair gives one back:
what was written never exceeds the bytes read, and the bytes left when the buffer
was looked at bound the rest (`FitsBuffer`). The escaper writes at most six bytes
for one and twelve for four, so after each character `FitsReserve` relates what was
written to what was read.

*The meaning of strings.* The reference (`Characters`, `Points` of JsonStrings) takes a
text apart from the right: what stands at a place, and then the rest. The scanner goes
from the left. Between them is `Parse`: a list of items and the places they begin at,
from one place to another. There is only one way through a text (`ParseUnique`), it
goes on until nothing fits (`ParseExists`), and the reference's items are those of the
way, then those from its end (`ParseItems`). That there is but one way rests on the
forms of the characters, byte by byte (`SequenceForm`, `CharacterForm`: no character is
the beginning of another), and these on the arithmetic of UTF-8 and of hexadecimal
digits. The invariant of the scanner (`MInv`) is then that it has read a list of
characters up to the one it is in (`HasRead`), whose points are what it wrote, and as
much of the next as `Partial` says; joined surrogates are why `Points` is put in terms
of shorter lists (`PointsMore`, `PointsJoin`), and why `HasRead` knows where the last
high surrogate was. A refusal then means that no character begins at that place.

*Strings there and back.* The reference for UTF-8 (`Decoded`) is a list of sequences
that lead from the first byte to the end or to a place where none fits. After every
character, the string up to `io` and the output stand in one of three ways
(`Standing`). `Live`: both are spelt that far, and what is written is to the reader a
list of characters whose points are the string's (`Matches`; with `ensure_ascii`, those
of the string's points written as escapes, which may join). `Middle`: they were up to a
sequence whose bytes are being copied one by one, which only the escaper that does not
validate does. `Dead`: each has a place where no sequence begins, whatever is
appended. Each kind of step moves between these (`StandsAscii`, `StandsCopied`,
`StandsSequence`); that the validating escaper's tests are those of UTF-8 is
`SequenceTaken`, by the arithmetic of each length, `TooLarge` standing for the largest
code point. At the end of the string a sequence in the middle is broken off, so the
string is UTF-8 exactly when the output is (`StandsAtEnd`), from which `AcceptsUtf8`
follows. For the way back the invariant of the scanner (`MInv`) is carried along
(`CInv`): it has read a list of characters of the text; the one that the escaper left
leads to the last quote; and there is only one way through a text (`OnlyWay`). So a
quote is met at the last byte only, with those points written, and there is no place
where the scanner could refuse.

*Numbers.* While no overflow is noticed, `intValue` is the number the digits spell.
The two tests per digit are proved equivalent to exceeding the limit, from the
division of the limit by ten; casts and the product by the sign are then identities
on the ranges the branches select.

*Integers there and back.* The decimal of a number is a recursive function over Nat;
what the proof needs of it is shown by complete induction over the set of the numbers
of which it holds (`Induction`), which needs no operator for a parameter. While the
writer takes digits off the magnitude, the decimal of what is left and the digits
written, turned round, are together always the decimal of the integer (`WriterInv`).
While the scanner reads that text, its digits so far are the decimal of `exact`
(`Reading`); decimals differ where numbers do (`DecimalInjective`), so that at the end
`exact` is the magnitude.

*The grammar of numbers.* The grammar speaks of parts of the text, the scanner of
places in it; `SliceIs`, `NumberIs` and `ToleratedIs` put the first in terms of the
second. `ScanInv` says which characters are behind the scanner, and what the digits
among them are worth; the first character that is no digit is at one place only
(`FirstNonDigitUnique`), hence the scanner and the grammar end the integer at the same
place, and `PastDouble`, which starts anew, ends where the grammar does (`DoubleEnds`).

*The encoder.* `LevelAbove` is what is left of the level when a NULL string makes
`encode` return without restoring it: it is never below the number of frames, which
is all `RecursionBound` needs. Every step is of one of eight kinds (`StepKinds`),
and the text is handled by kind: until an exception or a message, nothing is garbled
and the open brackets are those of the frames. `FateInv` says what becomes of an
exception: one that refused a value is never without `errorMsg` again, one that is
marked pending is pending.

*Handles.* `handles` and `contexts` count over all frames. The invariant has a running
total for each (`Accounts`): what the first n frames hold, as a function of n; a step
changes the last term only. `TypeOK` then says that no count falls below zero, even
where a NULL string leaves a context behind, since that only adds to what is held.

*The entry points.* Nothing is inductive but the full tables of what may be held and
what must be held at each place (`AtMost`, `AtLeast`), of what the core's pointers
point into (`Pointers`) and of what was done to the file (`Filed`); the properties are
their last lines. For the contract every step is shown to be one of its steps, or none.
That every member is written follows from what is in the type context at each place of
the iteration (`MembersInv`), for containers of any size.

*The buffer.* `ReservedEnough` depends on a number computed before the nested values
were encoded. The invariant ties the level, at each `pc`, to the number of frames
(`LevelIsDepth`), and the reservation of every open container, not of the
innermost alone, to its position in the stack (`ReservesFit`). Neither holds once a
string failed (`drifted`), nor need it hold once an error is set, since then
nothing but unwinding is left (`ErrorReturns`).

*Only model-checked.* `AcceptsJson` compares the decoder with a RECURSIVE run of the
acceptor, and a module that reaches a RECURSIVE operator cannot be proved about;
`ImplementsAcceptor`, which is proved, says the same step by step. All liveness:
`Terminates`, and the part of `KeepsContract` that a call which began comes back,
since the prover has no ENABLED. `AcceptsAnyBuffer`, `RoundTripsExact` and `InBounds`,
which are only checked by runs that end in a violation, do not hold.

## Not modelled

* A failed growth of the output buffer: `encode` goes on appending through pointers
  into the block it lost (`ultrajsonenc.c:142`) until it looks at `errorMsg`. What it
  does then is undefined, and no property of it could be stated.
* A dict that the user's code grows while `PyDict_Next` iterates it
  (`ujson_hpy.c:1489`): nothing bounds the iteration, and a bound in the model would
  hide just that.
* Reference counts of the user's objects, hence an item that is borrowed from its
  list while `default` runs (`ujson_hpy.c:1379`).
* The value of a double, and its digits; what `str` makes of keys and decimals.
* The decoder's callbacks of the classic binding (`JSONtoObj.c`), each of which is
  one call of CPython; the wrapper of double-conversion; build and benchmarks.

Known behaviour that the models include or exclude by their constants and that no run
is devoted to:

* with `sort_keys` on the CPython ABI, and in the classic binding, `PyDict_GetItem`
  suppresses the exception of a key's `__hash__` or `__eq__`, and has none for a key
  that is gone: `iterNext` returns -1 with nothing pending, and `dumps` returns a text
  in which a dict ends without its last members and its bracket (`ujson_hpy.c:1425`,
  `objToJSON.c:316`). `tests/test_ujson.py:1762` calls it a bug. `RaisedOrJson` and
  `TextIsJson` are proved without it, `EveryMemberWritten` without such keys;
* on the universal ABI the list's `iterNext` returns -1 for an item that is gone
  (`ujson_hpy.c:1371`), and the loop of `encode` (`ultrajsonenc.c:775`) takes it for one
  more item, the one before or NULL, though `ultrajson.h:204` knows only 0 and 1; the
  exception then comes out, unless a later look-up clears it (`FetchMissing`). On the CPython ABI
  `PyList_GET_ITEM` reads what is no longer the list's: the model stops there, at
  `pc = "undefined"`;
* the exception of a key, a string or a float is lost when a later value's look-up of
  `toDict` clears it (`ultrajsonenc.c:825`, `ujson_hpy.c:960`), and `dumps` succeeds, with
  a text that may be cut short; `RaisedMeansError` says that no other exception is
  lost. So what FileContract calls `made` is a text that `encode` gave, not always a
  whole one;
* what type contexts leave open: the list of keys is stored over the handle of what
  `default` returned (`ujson_hpy.c:1583`), and a NULL string leaves its context and the
  raw JSON it holds (`ultrajsonenc.c:921`); the classic binding frees a refused context
  without what `default` returned (`objToJSON.c:577`), and a NULL string leaves its
  context, of nested values too. `NothingHeld` excepts these by name
  (`LeftByEncode`); `NoHandleLeak` is claimed where they do not occur;
* with `ensure_ascii` the bytes 0x80 to 0xbf, 0xfe and 0xff outside a sequence are
  copied (`ultrajsonenc.c:97`), which `ultrajson.h` denies; only `bytes` given with
  `reject_bytes=False` hold them, and `dumps` raises when it makes a `str` of its
  buffer, so `AcceptsUtf8` asks for ASCII of what is UTF-8 only.

## Plan

The first part was the decoder with its pool, the encoder's control and the buffer
under it. The second part added the bytes of strings and numbers in both
directions, the entry points of both bindings, the two abstract specifications
and the proofs about scanners, escaper, encoder and acceptance; the third the proofs
about handles, entry points, numbers, and strings there and back. What is left, by worth:

1. the decoder's callbacks of the classic binding, as a second set of callbacks of
   Decoder, with references in place of pool cells;
2. keys of dicts that are no strings, whose text the binding makes itself.

## Running

    tlc -workers 2 -config Decoder.cfg MCDecoder
    tlc -workers 2 -config StringScanner.cfg MCStringScanner
    tlc -workers 2 -config StringRoundTrip.cfg MCStringRoundTrip
    tlc -workers 2 -config NumberRoundTrip.cfg MCNumberRoundTrip
    tlc -workers 2 -config EncoderCPython.cfg Encoder
    tlc -workers 2 -config EncoderUniversal.cfg Encoder
    tlc -workers 2 -config EncoderBuffer.cfg MCEncoderBuffer
    tlc -workers 2 -config Entries.cfg Entries
    tlapm DecoderProofs.tla             # and DecoderAcceptorProofs, StringScannerProofs,
    tlapm EncoderProofs.tla             # StringRoundTripProofs, NumberRoundTripProofs,
    tlapm EntriesProofs.tla             # EncoderBufferProofs

The runs that find a promise broken use the same modules with their own `.cfg`.
`PROJECT.json` lists every run with its module and configuration, the lines of the
source each definition stands for, the hazards, and for each property a mutation
of the model that violates it.
