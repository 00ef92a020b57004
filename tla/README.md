# A TLA+ model of libbloom

libbloom is a Bloom filter in C (`src/bloom.c`, `src/bloom.h`) with a C++
wrapper class (`src/BloomFilter.h`) and a Python extension (`src/pybf.cpp`,
`src/pybf.py`). These modules model the filter from its source, TLC checks them
on small instances, and TLAPS proves the main properties for every value of the
constants.

## The system

| part | state | operations |
|---|---|---|
| C core, `bloom.c` | `struct bloom`: entries, error, bits, bytes, hashes, hashSeed, bf, ready; the heap block bf points to | `bloom_init`, `bloom_init_size`, `bloom_init_wo_allocation`, `bloom_check`, `bloom_add`, `bloom_check_ns`, `bloom_add_ns`, `bloom_reset`, `bloom_free`, `bloom_print`, `bloom_version` |
| C++ wrapper, `BloomFilter.h` | one `struct bloom` per object; raw byte arrays that move in or are copied | constructors (sizes, moved raw bits, copied raw bits, copy), assignment, destructor, `add`, `contains`, `reset`, `set`, accessors, `popcount`, `effective_fpp` |
| Python extension | one `struct bloom` per object | `__init__`, `add`, `in`, `set_seed`, accessors |
| `BitMap`, `bitmap.h` | one word and its length | bit access and references, `set`, `reset`, `flip`, comparison, `ffs` |
| `BitUtil.h` | none | `popcount` (used by the C++ wrapper), `copyBits`, `readBits` |
| hash functions, `murmur2/`, `wyhash/` | none | MurmurHash2, or wyhash or xxHash chosen at build time |

The C++ class and the Python extension call the C core and each owns the struct
it calls it with. The core calls one hash function, twice per key: `a` is the
hash under the filter's seed, `b` the hash under the seed `a`, and probe `i` is
`(a + i*b) % bits`. There are no threads and nothing is persisted: what is hard
here is the order of calls, allocation failures, the `ready` flag that half of
the API does not look at, rounding and wrap-around, and the ownership of blocks.

What makes each part correct, and what could go wrong in it:

- **C core.** A key that was added is reported until the filter is reset,
  re-initialised or freed; `bloom_add` returns whether the key was reported
  *before* the call, although it tests and sets in one pass; no call touches
  memory outside the block; a struct whose initialisation failed refuses every
  guarded call. Hazards: sizes rounded to bytes, `a + i*b` wrapping around,
  keys that probe one bit twice, `bloom_init` on a filter that is still ready.
- **C++ wrapper.** Objects are values: a copy keeps every key and shares no
  bit with its source; one owner per block; a call that throws leaves all other
  objects alone. Hazards: `realloc` failing inside `operator=`, `set` throwing
  inside a constructor, byte arrays accepted by their length alone.
- **Python extension.** What was added is in; nothing leaks; the accessors tell
  the truth. Hazards: a constructor that drops `bloom_init`'s answer, `-1` as a
  truth value, sizes and rates narrowed to `int`, `items = -1` read as a
  `size_t`, a seed set after keys were added.
- **BitMap.** A set of positions below its length. Hazards: ones above the
  length, the full-width case, bit references.
- **BitUtil.** A copy changes exactly the bits of its range, a read takes
  exactly the bytes it needs, `popcount` is the number of ones. Hazards: bytes
  split over two at every shift, a last byte that is partial, a signed `char`
  shifted right, streams that end early, groups of bits added in place.
- **Hash functions.** They read the whole key and nothing else, always return,
  and keep near keys apart. Hazards: tails, overlapping words, boundary lengths.

## Modules

| module | models | corresponds to |
|---|---|---|
| `BloomStruct` | the struct and its heap, sizing and probing, as operators | `struct bloom`, `bloom_init_wo_allocation`; the index computation of the probe loops |
| `ApproxSet` | *abstract*: what a filter promises its caller | `bloom.h`'s description of the API |
| `Bloom` | the C API on one struct and its heap | one action per function of `bloom.c` |
| `BloomLoop` | the probe loops, one iteration per step | the bodies of `bloom_check_add`, `bloom_check_ns`, `bloom_add_ns` |
| `FilterValues` | *abstract*: several filters as values, and one in the post | what class `BloomFilter` is for |
| `BloomFilter` | C++ objects and a byte array over one heap | one action per constructor and member function |
| `PyBloom` | one Python object, from `__init__` to `__del__` | one action per method of `pybf.py`, with the `pybf.cpp` function it calls, and the extension's own `set_seed` |
| `Bitset` | *abstract*: sets of positions below a size | the `std::bitset` that `bitmap.h` refers to |
| `BitMap` | words and lengths | one action per operation of class `BitMap` |
| `BitUtil` | a destination array and one call at a time | `copyBits` one source byte per step, `readBits` one round of the buffer per step, `popcount` |
| `HashFn` | one call of a hash function at a time | one step per round of `murmurhash2` and `wyhash` |
| `BloomStructProofs` | lemmas on sizes and probes | used by the three below |
| `BloomProofs`, `BloomFilterProofs`, `PyBloomProofs` | theorems about `Bloom`, `BloomFilter` and `PyBloom` | |
| `BloomLoopProofs` | theorems about `BloomLoop`, on top of `BloomProofs` | |
| `BitMapProofs`, `BitUtilProofs`, `HashFnProofs` | theorems about `BitMap`, `BitUtil` and `HashFn` | |
| `MCBloom`, `MCBloomLoop`, `MCBloomFilter`, `MCPyBloom`, `MCBitMap`, `MCBitUtil`, `MCHashFn` | the instances TLC checks | |

`Bloom`, `BloomFilter` and `PyBloom` extend `BloomStruct`; `BloomLoop` extends
`Bloom` and is shown to implement it, `Bloom` to implement `ApproxSet`,
`PyBloom` to implement it but for the steps that set a seed, `BloomFilter` to
implement `FilterValues`, `BitMap` to implement `Bitset`. The C++ class and the
Python extension inline the C functions they call on their own struct, because
their calls do more than one of them in a row (`__init__` is `bloom_init` and
`set_seed`, a constructor `bloom_init`, `set_hash_seed` and `set`), and a
reader of one method sees one action. `BitUtil` and `HashFn` stand alone: the
filters use `popcount` for the number of ones and a hash function for any
function of key and seed, and these two modules show what entitles them to.

Operators named `X_Something` stand before `X` and are faulty forms of it: the
mistake a change to the code could make. Each property is listed in
`PROJECT.json` with a faulty form that TLC refutes it with.

### State and abstraction

- A *bit array* is the set of positions `byte*8 + bit` that are 1. A heap block
  has a size, says whether it is allocated, and holds such a set. Bytes copied
  into a filter keep their padding bits.
- A *key* is the bytes handed to the hash function; the hash function is any
  function of key and seed. Nothing that is checked or proved depends on which:
  MurmurHash2, wyhash and xxHash are all instances.
- *Hash words and `size_t`* are `0 .. HashMod-1` and wrap at `SizeMod`. A bit
  count that does not fit `size_t` is 0: the conversion of the double is
  undefined in C, and this is what x86-64 makes of it.
- *Bytes and words* of `BitUtil` are sets of the positions that are 1: bytes
  counted from the most significant bit, as `copyBits` counts, words of
  `popcount` from the least. `HashFn` computes with numbers.
- *Error rates* are multiples of `1/One`. `Bpe` gives the bits per element of
  each in hundredths, and the two formulas of the code are computed from it with
  its constants; the logarithm and the rounding of doubles are not modelled.
- A *struct on the stack* (`Bloom`) starts with a garbage pointer and any
  `ready`; calls other than `bloom_init` are made after the first `bloom_init`,
  as the header demands. The C++ class and the Python extension start from a
  zeroed struct.
- *Failure*: `calloc` and `realloc` may fail at every call. Arguments that
  `PyArg_ParseTuple` refuses (a capacity that is no C `int`, a str with a NUL)
  make the extension return `None` under a pending exception, which Python 3
  turns into a `SystemError`: `refused`, and `Unparsed` keys. A constructor
  whose seed is refused has made a filter; it is destroyed again as the
  exception leaves `__init__`, so that the whole is one step without effect.
- *History variables* (`started`, `inserted`, `keys`, `spoiled`, `added`,
  `before`) remember what the program did; no guard of a function depends on
  them except where the caller is obliged (an object whose assignment threw may
  be destroyed or assigned to, nothing else).
- *Undefined behaviour* the callers can avoid is kept out by guards, each with a
  comment: unguarded calls on a filter that is not ready, probes of a filter of
  no bits (a division by zero), repeating an assignment that threw. Where the code itself
  is undefined the outcome is any: the stack bytes that the array form of
  `contains` hashes, the double that Python's `error()` returns.

## Runs

| run | instance | what it shows |
|---|---|---|
| `bloom_api` | 3 keys, 2 blocks, valid and invalid arguments | all orders of C calls: `MemorySafe`, `NoFalseNegative`, `OnlyInsertedBits`, `LeakOnlyByReinit`, `ImplementsApproxSet` |
| `bloom_loop` | the same keys, 1 block, one step per iteration | the loops keep `LoopInvariant`, implement the atomic calls (`ImplementsBloom`) and return (`CallReturns`) |
| `cpp_objects` | 2 objects, 3 blocks, filters of 0, 9 and 18 bits | `SoleOwner`, `MemorySafe`, `NoFalseNegative`, `PopcountIsExact`, `LeakOnlyByFailedAssign`, `ImplementsFilterValues` |
| `cpp_bytes` | 2 objects, 2 blocks, two bit counts and two seeds, all one byte long | what a byte array carries from filter to filter, and what it does not |
| `py_object` | 6 Python keys, two of them with the same bytes, one of an unsupported type, one that does not parse | `BlocksAreOwned`, `KeepsPromiseUntilReseeded`, `InNeedsAFilter` |
| `bitmap` | 2 maps, words of 3 bits, all lengths | `ImplementsBitset`, `EachCallIsItsBitsetCall` |
| `bit_util` | bytes of 3 bits, copies of up to 6 bits at offsets up to 4, streams of every length, 170 words for `popcount` | `CopyExact`, `OneByteToSpare`, `AbortsOnShortStream`, `PopcountIsCardinality`, `CopyReturns` |
| `hash` | `murmurhash2` on bytes of 1 bit and keys of up to 8 bytes, `wyhash` on up to 200 bytes | `WholeKeyHashed`, `NearKeysDiffer`, `HashReturns` |
| `cpp_arrays` | as `cpp_bytes` | *violated*: an added array of integers is contained |
| `py_added` | as `py_object` | *violated*: an added key is in the filter |
| `bitmap_reference` | as `bitmap` | *violated*: `a[i] = b[j]` assigns bit `j` |
| `init_overflow` | as `bloom_api` | *violated*: a filter `bloom_init` reports as ready has bits |

The four violations are disagreements of the code with its own comments and
tests; `PROJECT.json` quotes the line and names the cause of each under
`findings`. In their traces TLC may name another action with the same effect on
the state (`construct` for an assignment); the step is a step of the action the
property names.

Where the code deviates, the properties of the passing runs say how far, so that
they go on guarding the rest:

- `CopyExact` lets a source byte that begins with a 1 set the bits in front of
  its place (its `strays`: `BitUtil.h:88` and `104` shift a signed `char`) and no
  others. This is a defect of `copyBits`, which says it copies "with bit-level
  resolution" (`BitUtil.h:59`); with `CharSigned = FALSE` there are none.
- `Bitset` lets `==` miss an equality, `ffs` of a map without bits answer any
  position from its length up, and a bit assigned from another position take any
  value. The last is the violation `bitmap_reference`. The first two come from
  the padding, which `bitmap.h:28` and `208` look at too: `BitMap(3).flip()` and
  a `BitMap(3)` after `set()` are not equal. `EachCallIsItsBitsetCall` says that
  they come from nothing else: of maps with the same padding `==` is exact, and
  so is `ffs` of a map without any.
- `LeakOnlyByReinit` and `LeakOnlyByFailedAssign` permit the two leaks the code
  has, an initialisation on top of a ready filter and an assignment whose
  `realloc` fails, and no other. No comment of the code denies either.
- `OneByteToSpare` states that a copy which starts and ends on byte boundaries
  touches the byte after its range (`BitUtil.h:89`): a destination of exactly
  the range's size is one byte too small. No comment says otherwise.
- Python's `error()` passes an `int` where a `double` is read (`pybf.cpp:159`),
  so the action `error` answers any rate.

### Why the bounds are enough

The filters of the instances are chosen for the boundaries of the code: 9 bits
(two bytes, one of them a tail of one bit), 5, 3 and 2 bits (one byte), and,
for C++, 18 bits (three bytes) and 0. Of the three keys of `MCBloom` one probes
the tail bit, one probes a single bit with all its probes, and two together
cover the third, which is then a false positive. Hash words are as wide as
`size_t`, so `a + i*b` wraps. Two blocks let a struct be initialised again over
a block it lost; with all blocks taken, allocation must fail, and it may fail
before. Six entries (and `-1` in Python) need more bits than `SizeMod` counts.
Two C++ objects and an array in transit are the most one call involves, and
three blocks let all three exist at once; `cpp_bytes` gives up the third for a
larger choice of constructor arguments (a sender is then destroyed before its
bytes are copied, or its bytes are moved). Words of two bytes make the filter
of 18 bits a word and a left-over byte for `popcount`, and that of 9 bits
exactly a word. `Obj` and `Block` of the C++ runs are symmetric: no expression
chooses among them.

Bytes of 3 bits keep every case of `copyBits`: both sides of a split byte can
hold more than one bit, the last byte can be partial with and without a spill,
and two source bytes meet in one destination byte; with a buffer of one byte
`readBits` takes one round, two, and a partial last one. The words for
`popcount` have every number of ones from 0 to 64 and runs that begin and end at
the edges of its groups of 8, 32 and 64. `murmurhash2` is computed on words of 4
bits, with the code's multiplier modulo 16, on keys of 0 to 8 bytes: no block,
one, two, with each tail; `wyhash` runs at its real sizes, to three rounds of 64
bytes and all remainders.

### Fairness and deadlock

`CallReturns`, `CopyReturns` and `HashReturns` need fairness: weak fairness of
the steps inside a call (the probe loops, the rounds of `copyBits` and
`readBits`, those of the hash functions), never of the program's choice to call.
These loops run on the caller's thread and wait for nothing but, in `readBits`,
a stream whose bytes are there or which has ended, so their next step is always
enabled until they return. No other property is about progress, and no run turns
deadlock checking off.

## Proofs

TLC checks the instances above; the theorems hold for every value of the
constants that satisfies the assumptions named where the constants are declared
(`HashAssumption`, `ErrorAssumption`, `ArgsAssumption`, `ObjAssumption`,
`PyAssumption`, `WidthAssumption`, `BitAssumption`): any keys, hash function,
seeds, number of objects and blocks, width of hash words, `size_t`, bytes and
words, any capacities and error rates. They cover the type invariant and every
other invariant and action property of every passing run, and all refinements;
what they leave to TLC is named at the end of this section.

| module | theorems | properties |
|---|---|---|
| `BloomProofs` | `TypeCorrect`, `MemorySafety`, `BitsAreInsertions`, `NoFalseNegatives`, `LeaksOnlyByReinit`, `Refinement` | those of `bloom_api` |
| | `SuccessIsUsableIfItFits` | that of `init_overflow`, when no request overflows |
| `BloomLoopProofs` | `LoopTypeCorrect`, `CounterIsRight`, `LoopRefinement`, `IterationsProgress` | those of `bloom_loop` but `CallReturns` |
| `BloomFilterProofs` | `TypeCorrect`, `BlocksHaveOneOwner`, `MemorySafety`, `NoFalseNegatives`, `PopcountExact`, `LeaksOnlyByFailedAssign`, `Refinement` | those of `cpp_objects` and `cpp_bytes` |
| `PyBloomProofs` | `TypeCorrect`, `BlocksOwned`, `NoFalseNegatives`, `InIsNeverTrueWithoutFilter`, `Refinement` | those of `py_object`; `py_added`'s for an object that has a filter |
| `BitMapProofs` | `TypeCorrect`, `Refinement`, `EachCallCorrect` | those of `bitmap` |
| `BitUtilProofs` | `TypeCorrect`, `CopiesExactly`, `TouchesItsRange`, `AbortsExactly`, `AnswersAreRight`, `RoundsProgress` | those of `bit_util` but `CopyReturns` |
| `HashFnProofs` | `TypeCorrect`, `WholeKey`, `NearKeysHashApart`, `RoundsProgress` | those of `hash` but `HashReturns` |

### Sizes and probes

Two facts about arithmetic carry all proofs about filters, and
`BloomStructProofs` states them once: `BytesCoverBits` (`bits <= 8 * bytes`,
whatever `bits % 8`) and `ProbesInBits` (each probe is below `bits`, and there
is at least one). `SameProbes` says that the probes of a key depend on the
seed and the sizes only, which is why a copy in another block keeps its keys.

### C core

None of the invariants is inductive alone. `MemorySafe` does not say that the
sizes agree with each other, nor that bits outside a key's probes are unset, and
a state that satisfies it can be one call away from writing past its block. The
inductive invariant `IInv` adds, for a ready filter, that its sizes fit each
other (`WellSized`: at least one hash, bytes that cover the bits) and
its block is live and of that size; that the bits are exactly the probes of the
inserted keys; and, for a filter that is not ready, that no key counts as
inserted. (A filter whose bit count overflowed is ready too, but no call probes
it; the invariants say of it only what its empty block allows.) Each action has
an `...Outcome` lemma (what its disjuncts leave behind) and a `...KeepsIInv`
lemma; `Holds` and `AddedHolds` state once what adding a key does to a heap, for
`bloom_add` and `bloom_add_ns` both, and `BloomLoopProofs` uses them again.

`SuccessIsUsableIfItFits` complements the run `init_overflow`: under
`NoOverflow` (the bits of every valid request fit a `size_t`) a ready filter
always has bits, so the wrap-around is the only cause of that violation.

`BloomLoopProofs` proves the loop invariant and that an iteration is a stutter
of `Bloom`, a return the atomic call. The argument is in `LInv`: the heap is the
heap at entry plus the first `i` probes, and `hits = i` exactly if all of those
were set at entry. That is what makes the value of `bloom_add` right for a key
that probes one bit twice: its second probe finds the bit the first has just set
and is counted, but the first was not, so the count stays below `i` for good.

### C++ class

`IInv` has three parts besides the types. `FiltersInv`: an object that may be
used is sized by the arguments it was built with, has a live block that is long
enough, and the block has the bits of its keys. `OwnInv`: an object that may not
be used points to nothing, no two objects to one block, and none to the byte
array in transit. `RawInv`: bytes that came from a filter still hold the keys
that filter had, under the arguments it had. The last is what
`NoFalseNegative` needs across the constructors that take raw bits, and the first
has to remember the *arguments*, not only sizes that fit each other, because a
receiver recomputes its sizes from its own arguments.

One proof per call would repeat the same argument about ownership for each. The
proof sorts the calls into six kinds of step instead (a call that changes no filter;
an object gets a new value, is spoiled by a failed assignment, or destroyed;
bytes come into transit, or go): `NextIsOfAKind` shows that each call is of
one, and each kind keeps the invariant for a reason of its own. `NewValue` is
the important one: the block is the object's own, a free one, or the byte
array that ceases to be the program's, and no other block changes. `SoleOwner`
and `LeakOnlyByFailedAssign` follow from the same kinds.

For the refinement `ArgsView`, `KeysView`, `PositiveView` and `PostView` name
what `FilterValues` sees; the `...ByView` lemmas turn a statement about these
views into a step of `FilterValues`, so that the lemma of each call speaks of
one object and of `SameView` for all others.

`PopcountExact` is about the meeting of the two loops of `popcount`: bytes
below and from `WordBytes * (bytes \div WordBytes)` partition those of the
filter.

### Python class

`IInv` says that a block is live exactly while a ready object points to it,
that the sizes of a ready filter fit, and that its bits hold the probes of the
added keys' *bytes* (`Encoded[k]`), so keys that share their bytes need no case
of their own. `set_seed` empties `added`; that is why `NoFalseNegatives` and the
refinement stop at the next `set_seed`, and no further.

### BitMap

The types are inductive. `Refinement` needs no invariant beyond them: the view
of a map is its length and the bits below it, and each operation is shown to act
on those bits alone, whatever the constructor or `flip` left above the length.
There is one lemma per operation, which names the operation of `Bitset` it is;
`EachCallCorrect` collects them, because a step of `Bitset` alone could be the
wrong one (a `set` that clears is a `Clear`). `AllOnesFill` has the case of its
own that a full word needs: a shift by 64 is undefined, and the model takes
what x86-64 computes, a shift by 64 modulo 64.
`ffs` needs a least element (`LeastElement`), which is proved from the
well-foundedness of the strict subset order on finite sets of naturals.

### BitUtil

A bit position is `ByteBits * q + r`, bit `r` of byte `q`; `DivUnique` makes the
two the only ones, and almost everything here rests on it.

`Progress` is the strengthening that makes the rest inductive: `i` and `filled`
are multiples of a byte until they reach the end, and an aligned `readBits`
leaves `copyBits` less than a byte. Without it a round could start in the
middle of a source byte, where the code's byte offset would be wrong.
`EnoughRead` says that what is in memory was in the stream.

- `CopiesExactly`. `WithBits(c, d, lo, hi)` is `d` with the bits from `lo` to
  `hi` of call `c` copied into it, strays included. `CopyByteFlat` shows that one
  round turns `Flat(dest)` into `WithBits(..., i, i + Round)`: `RoundBytes`
  says what the masks and shifts do to the bits of the two bytes that are
  written, `RoundInTwoBytes` which positions of the window fall into which byte,
  and `CombineBits` does the three operations. `WithBitsInTwo` then puts the
  round behind those before it: its window covers no bit that an earlier round
  wrote, strays included, and its own strays, which may reach back into what was
  copied, only add ones.
  `WholeBytesInPlace` is the same for the whole bytes an aligned `readBits`
  reads in place.
- `TouchesItsRange`. `EndOfRange` computes the byte of the last bit and whether a
  position is a byte boundary; `CarryIs` shows that the code's test of the carry
  mask is true exactly when the bits cross into the next byte or a whole
  byte was copied.
- `AbortsExactly`. `FillFacts`: a round of the buffer needs
  `BytesFor(i + bitsRead)` bytes of the stream, no more than the call does.
- `AnswersAreRight`, about every word of 64 bits. The argument goes by levels, as
  the code does. `Plus` is an adder: `BitSum` says what one bit of it makes of two
  bits and the carry (`CarryRuns`), and `TwoSum`, `FourSum` and `EightSum` put
  two halves together, so that 2, 4 or 8 bits add up as numbers but for the carries
  that enter and leave them. What has to be shown at each level is that none
  enters: `CarryStops`, because the bit below a group is set in neither operand.
  The masks see to that in `PairsCounted` and `FoursCounted`; after them it is the
  numbers that are small (`TopBits`): a half byte is at most 4, and the bytes at most
  8, 16, 32 and 64 while they are added up (`BytesUpTo`, `BytesDouble`,
  `BytesAdded`), which is why 7 bits hold the answer. `Cardinality` is summed the
  same way, by 4, 8, 16 and 32 bits (`OnesOfAWord`). No invariant has to be found:
  `popcount` is one step, and each answer is right by itself.

### Hash functions

*Reading.* In the middle of a call the bytes read are exactly those in front of
the pointer (`IInv`); `ReadExtendsPrefix` is the step of every full round,
`FinishReadsTheRest` the overlapping words and the three bytes of `_wyfinish16`,
case by case. `WholeKey` needs nothing about what is computed from the bytes,
so the sizes of bytes and words do not matter to it.

*Computing.* `NearKeysHashApart` follows `murmurhash2` on two inputs at once. Its
invariant `HInv` is stronger than the property: the two hash states are equal
exactly when the two seeds and the bytes read so far are
(`Apart`). One direction says that the hash is a function; the other holds because
each thing done to the state can be undone, so that states once apart stay apart:

- the exclusive-or with equal words (`XorCancels`), or of equal states with
  words that differ;
- the product with an odd number modulo a power of two (`OddTimesCancels`);
- `h ^= h >> r` (`XorShiftCancels`);
- the four bytes of a block make the same word only if they are the same bytes
  (`NumberUnique`), and mixing a block is a chain of these (`MixedWordUnique`).

It is needed that the inputs differ in one place only: once they have, what is
read after it is equal on both sides (`RoundSides`), so no second
difference can undo the first. The pointer stays at a multiple of four while
blocks are left, so one block of the property is one round of the loop. The
assumption that the multiplier is odd is the code's (`0x5bd1e995`); a byte may
have any number of bits and a word is four of them.

`Pow2` and `XorBits` are recursive functions on the naturals. The library's
induction theorems take an operator as a parameter, so `Induction` is stated over
*sets* of naturals and proved from the well-foundedness of the strict subset
order on finite sets; `Recursion` then shows that a function on the naturals
defined from its predecessor exists, which gives the equations (`Pow2Step`,
`XorStep`) on which the rest is built.

### Loops

`IterationsProgress` and the two `RoundsProgress` are the half of the liveness
properties that needs no fairness: every step of a running call leaves a smaller
natural number (probes left; bits to read plus bits to copy; bytes of the key
left) or ends the call, so no call takes steps without end. That a step can be
taken until then, and is, stays with TLC.

### Only model-checked

- `CallReturns`, `CopyReturns` and `HashReturns`: liveness under fairness, which
  the prover does not treat, but for the progress of each step.
- The four violations, which are facts about the instances.

## Not modelled

- `bloom_print`, `bloom_version`, `to_string`, `print` and debug output: text.
- The `COUNTING_SET_BITS_ON` build: `bloom.c:69` names a variable it does not
  declare, so it does not compile.
- The logarithms of `bloom_init_wo_allocation` in floating point, and
  `effective_fpp`'s power.
- Narrowing of `size_t` lengths to the `int` parameter of the C calls.
- In the moving C++ constructor, error rates outside (0, 1).
- Python: handles that `pybf.py` did not make, copies of an object, and `free`
  on a struct that `new` made.
- `BitUtil.h` without assertions, where a short stream copies uninitialised
  bytes; the `popcnt` instruction and `cpuid`.
- `wyhash`'s product of 64-bit words, `make_secret` and its random numbers (the
  filter does not call them), `WYHASH_CONDOM` other than 1; xxHash, which is not
  in the repository.
- Benchmarks, examples, scripts and build files.

## Plan

Done, in this order: `BloomStruct`, `ApproxSet`, `Bloom`, `BloomLoop`,
`FilterValues` and `BloomFilter`, `PyBloom`, `Bitset` and `BitMap`, `BitUtil`,
`HashFn`, and the proofs about each of them. What is left:

- **`PyBloom`**: what `set_seed` leaves of the keys added before it, as a
  property of a run.
