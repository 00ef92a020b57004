----------------------------- MODULE BloomFilter -----------------------------
(***************************************************************************)
(* BloomFilter.h: class BloomFilter, several objects over one heap, and    *)
(* the raw byte array a program carries from one object to another.        *)
(*                                                                         *)
(* An object is a struct bloom and the lifetime C++ gives it (alive).  The *)
(* class calls the C functions, whose bodies are inlined here on the       *)
(* object's own struct: bloom_init, bloom_init_wo_allocation, bloom_add_ns,*)
(* bloom_check_ns, bloom_reset, bloom_free.                                *)
(*                                                                         *)
(* "keys" and "spoiled" are history variables: the keys an object must     *)
(* report, and the objects whose assignment threw half way through.        *)
(***************************************************************************)
EXTENDS BloomStruct, FiniteSets

CONSTANTS Obj,        \* the objects of a program
          Seed,       \* seeds passed to constructors; 0 means the default
          RawLen,     \* lengths of byte arrays that come from no filter
          WordBytes   \* sizeof(uint64_t): popcount reads whole words

ASSUME ObjAssumption == /\ Seed \subseteq HashWord /\ RawLen \subseteq Nat
                        /\ WordBytes \in Nat \ {0}

VARIABLES alive, obj, heap, raw, keys, spoiled, result

vars == <<alive, obj, heap, raw, keys, spoiled, result>>

Throws == 3    \* the call threw std::runtime_error

\* The byte array in the program's hands: its address, its length, and what
\* the program knows of the filter it was taken from.
NoArgs == [entries |-> 0, error |-> 0, seed |-> 0]
NoRaw == [bf |-> NULL, len |-> 0, args |-> NoArgs, keys |-> {}]

Init == /\ alive = {}
        /\ obj = [o \in Obj |-> Cleared]
        /\ heap = [p \in Block |-> NoBlock]
        /\ raw = NoRaw
        /\ keys = [o \in Obj |-> {}]
        /\ spoiled = {}
        /\ result = Void

\* What a program may call anything but the destructor on.  A filter of no bits
\* divides by zero (see construct_moving).
Usable(o) == o \in alive \ spoiled /\ obj[o].bits # 0

ArgsOf(b) == [entries |-> b.entries, error |-> b.error, seed |-> b.hashSeed]

throw == result' = Throws /\ UNCHANGED <<alive, obj, heap, raw, keys, spoiled>>

\* Object o starts its life, or changes its value, as struct b with keys ks.
Becomes(o, b, ks) == /\ alive' = alive \union {o}
                     /\ obj' = [obj EXCEPT ![o] = b]
                     /\ keys' = [keys EXCEPT ![o] = ks]
                     /\ spoiled' = spoiled \ {o}
                     /\ result' = Void

------------------------------------------------------------------------------
(* Constructors.                                                           *)

Seeded(b, seed) == IF seed > 0 THEN [b EXCEPT !.hashSeed = seed] ELSE b

\* The keys that arrive with the byte array, if it arrives in a filter built
\* with the arguments of the filter it left.
Arriving(b) == IF ArgsOf(b) = raw.args THEN raw.keys ELSE {}

construct(o, entries, error, seed) ==
  /\ o \notin alive
  /\ \/ throw           \* invalid arguments, or calloc failed
     \/ /\ ValidArgs(entries, error)
        /\ LET b == Seeded(Configured(Cleared, entries, error), seed)
           IN  \E p \in Block :
                 /\ ~heap[p].live
                 /\ heap' = [heap EXCEPT ![p] = Zeroed(b.bytes)]
                 /\ Becomes(o, [b EXCEPT !.bf = p, !.ready = 1], {})
                 /\ UNCHANGED raw

\* faulty: the caller's pointer still points at the array
Taken_KeepsPointer(r) == r

Taken(r) == NoRaw

\* The moving constructor does not call bloom_init, so nothing checks entries
\* and error: it is modelled for every entries and valid error rates.
construct_moving(o, entries, error, seed) ==
  /\ o \notin alive
  /\ raw.bf # NULL
  /\ error \in ValidError
  /\ LET b == Seeded(Configured(Cleared, entries, error), seed)
     IN  \/ raw.len # b.bytes /\ throw
         \/ /\ raw.len = b.bytes
            /\ Becomes(o, [b EXCEPT !.bf = raw.bf, !.ready = 1], Arriving(b))
            /\ raw' = Taken(raw)
            /\ UNCHANGED heap

\* faulty: no bloom_free when set throws
Abandoned_Leaks(p, bytes) == [heap EXCEPT ![p] = Zeroed(bytes)]

Abandoned(p, bytes) == heap

construct_copying(o, entries, error, seed) ==
  /\ o \notin alive
  /\ raw.bf # NULL
  /\ \/ throw           \* invalid arguments, or calloc failed
     \/ /\ ValidArgs(entries, error)
        /\ LET b == Seeded(Configured(Cleared, entries, error), seed)
           IN  \E p \in Block :
                 /\ ~heap[p].live
                 /\ \/ /\ raw.len # b.bytes
                       /\ heap' = Abandoned(p, b.bytes)
                       /\ result' = Throws
                       /\ UNCHANGED <<alive, obj, raw, keys, spoiled>>
                    \/ /\ raw.len = b.bytes
                       /\ heap' = [heap EXCEPT ![p] =
                                     BlockOf(b.bytes, heap[raw.bf].ones)]
                       /\ Becomes(o, [b EXCEPT !.bf = p, !.ready = 1], Arriving(b))
                       /\ UNCHANGED raw

------------------------------------------------------------------------------
(* Copying.  realloc asks for "bits" bytes where "bytes" would do; what is *)
(* beyond the copied bytes is never read.                                  *)

\* faulty: the seed stays the target's own
Sized_KeepsSeed(b, s) == [s EXCEPT !.bf = b.bf, !.hashSeed = b.hashSeed]

\* b after a complete assignment from s: every field but the pointer.
Sized(b, s) == [s EXCEPT !.bf = b.bf]

\* b after an assignment whose realloc failed: the sizes are already s's.
HalfSized(b, s) == [s EXCEPT !.bf = NULL, !.hashSeed = b.hashSeed, !.ready = b.ready]

OldBits(b) == IF b.ready = 0 THEN 0 ELSE b.bits

\* faulty: the byte that holds the last, partial group of bits is not copied
Copied_DropsTail(s) == {x \in heap[s.bf].ones : x < 8 * (s.bits \div 8)}

Copied(s) == {x \in heap[s.bf].ones : x < 8 * s.bytes}

\* The heap after realloc(q, size) returned p, with the source copied into p.
Reallocated(q, p, size, ones) ==
  [x \in Block |-> IF x = p THEN BlockOf(size, ones)
                   ELSE IF x = q THEN NoBlock ELSE heap[x]]

copy_construct(o, from) ==
  /\ o \notin alive
  /\ Usable(from)
  /\ \/ throw           \* realloc failed
     \/ \E p \in Block :
          /\ ~heap[p].live
          /\ heap' = Reallocated(NULL, p, obj[from].bits, Copied(obj[from]))
          /\ Becomes(o, [Sized(Cleared, obj[from]) EXCEPT !.bf = p], keys[from])
          /\ UNCHANGED raw

\* After a failed assignment, the same one again copies through the null pointer;
\* one from a source of another size allocates anew and mends the target.
assign(o, from) ==
  /\ o \in alive
  /\ o \in spoiled => OldBits(obj[o]) # obj[from].bits
  /\ Usable(from)
  /\ o # from
  /\ UNCHANGED raw
  /\ LET b == obj[o]
         s == obj[from]
     IN  \/ /\ OldBits(b) = s.bits
            /\ heap' = [heap EXCEPT ![b.bf].ones = Copied(s)]
            /\ Becomes(o, Sized(b, s), keys[from])
         \/ /\ OldBits(b) # s.bits
            /\ \E p \in Block :
                 /\ p = b.bf \/ ~heap[p].live
                 /\ heap' = Reallocated(b.bf, p, s.bits, Copied(s))
                 /\ Becomes(o, [Sized(b, s) EXCEPT !.bf = p], keys[from])
         \/ /\ OldBits(b) # s.bits       \* realloc failed: the old block stays
            /\ obj' = [obj EXCEPT ![o] = HalfSized(b, s)]
            /\ spoiled' = spoiled \union {o}
            /\ keys' = [keys EXCEPT ![o] = {}]
            /\ result' = Throws
            /\ UNCHANGED <<alive, heap>>

destroy(o) ==
  /\ o \in alive
  /\ heap' = IF obj[o].ready # 0 /\ obj[o].bf # NULL
             THEN [heap EXCEPT ![obj[o].bf] = NoBlock] ELSE heap
  /\ alive' = alive \ {o}
  /\ obj' = [obj EXCEPT ![o] = Cleared]
  /\ keys' = [keys EXCEPT ![o] = {}]
  /\ spoiled' = spoiled \ {o}
  /\ result' = Void
  /\ UNCHANGED raw

------------------------------------------------------------------------------
(* Members.                                                                *)

Ones(o) == heap[obj[o].bf].ones

add(o, k) ==
  /\ Usable(o)
  /\ heap' = [heap EXCEPT ![obj[o].bf].ones = @ \union Probes(obj[o], k)]
  /\ Becomes(o, obj[o], keys[o] \union {k})
  /\ UNCHANGED raw

Contained(o, k) == Probes(obj[o], k) \subseteq Ones(o)

contains(o, k) ==
  /\ Usable(o)
  /\ result' = IF Contained(o, k) THEN 1 ELSE 0
  /\ UNCHANGED <<alive, obj, heap, raw, keys, spoiled>>

\* contains(const T *, len) hashes the bytes of the pointer it was given, and of
\* whatever follows it on the stack, not the array it points to.
contains_array(o, k) ==
  /\ Usable(o)
  /\ \E bytes \in Key : result' = IF Contained(o, bytes) THEN 1 ELSE 0
  /\ UNCHANGED <<alive, obj, heap, raw, keys, spoiled>>

reset(o) ==
  /\ Usable(o)
  /\ heap' = [heap EXCEPT ![obj[o].bf].ones = {x \in @ : x >= 8 * obj[o].bytes}]
  /\ Becomes(o, obj[o], {})
  /\ UNCHANGED raw

\* Only the length is compared, not what the array was made with.
set(o) ==
  /\ Usable(o)
  /\ raw.bf # NULL
  /\ \/ raw.len # obj[o].bytes /\ throw
     \/ /\ raw.len = obj[o].bytes
        /\ heap' = [heap EXCEPT ![obj[o].bf].ones =
                      {x \in @ : x >= 8 * raw.len} \union heap[raw.bf].ones]
        /\ Becomes(o, obj[o], Arriving(obj[o]))
        /\ UNCHANGED raw

\* Set bits counted a word at a time, then the left-over bytes bit by bit.
\* faulty: the left-over bytes are not counted
Counted_WordsOnly(bytes) == 0 .. 8 * WordBytes * (bytes \div WordBytes) - 1

Counted(bytes) ==
  LET words == bytes \div WordBytes
      leftOverBytes == bytes % WordBytes
  IN  {x \in 0 .. 8 * bytes - 1 : \/ x < 8 * WordBytes * words
                                  \/ x \div 8 >= bytes - leftOverBytes}

popcount(o) == Cardinality(Counted(obj[o].bytes) \intersect Ones(o))

------------------------------------------------------------------------------
(* The program: it copies the array of a filter (bitmap, byte_size and     *)
(* hash_seed), brings one of its own, or drops the one it has.             *)

Carries(p, len, ones, args, ks) ==
  /\ raw.bf = NULL
  /\ ~heap[p].live
  /\ heap' = [heap EXCEPT ![p] = BlockOf(len, ones)]
  /\ raw' = [bf |-> p, len |-> len, args |-> args, keys |-> ks]
  /\ result' = Void
  /\ UNCHANGED <<alive, obj, keys, spoiled>>

take_bitmap(o) ==
  Usable(o) /\ \E p \in Block : Carries(p, obj[o].bytes, Copied(obj[o]),
                                        ArgsOf(obj[o]), keys[o])

bring_bytes(len) == \E p \in Block : Carries(p, len, 0 .. 8 * len - 1, NoArgs, {})

drop_bytes == /\ raw.bf # NULL
              /\ heap' = [heap EXCEPT ![raw.bf] = NoBlock]
              /\ raw' = NoRaw
              /\ result' = Void
              /\ UNCHANGED <<alive, obj, keys, spoiled>>

Construct(o) == \E n \in Entries, e \in Error, s \in Seed :
                  \/ construct(o, n, e, s)
                  \/ construct_moving(o, n, e, s)
                  \/ construct_copying(o, n, e, s)

Next == \/ \E o \in Obj : \/ Construct(o) \/ destroy(o)
                          \/ reset(o) \/ set(o) \/ take_bitmap(o)
        \/ \E o, from \in Obj : copy_construct(o, from) \/ assign(o, from)
        \/ \E o \in Obj, k \in Key : \/ add(o, k) \/ contains(o, k)
                                     \/ contains_array(o, k)
        \/ \E len \in RawLen : bring_bytes(len)
        \/ drop_bytes

Spec == Init /\ [][Next]_vars

------------------------------------------------------------------------------
(* Properties.                                                             *)

ArgsType == [entries: Nat, error: Nat, seed: HashWord]

\* Types; a block's bits lie within it.
TypeOK == /\ alive \subseteq Obj /\ spoiled \subseteq alive
          /\ obj \in [Obj -> StructOf(Block \union {NULL})]
          /\ heap \in [Block -> BlockType]
          /\ \A p \in Block : heap[p].ones \subseteq 0 .. 8 * heap[p].size - 1
          /\ raw \in [bf: Block \union {NULL}, len: Nat, args: ArgsType, keys: SUBSET Key]
          /\ keys \in [Obj -> SUBSET Key]
          /\ result \in {0, 1, Void, Throws}

Owners(p) == {o \in alive : obj[o].bf = p}
Owned(p) == Owners(p) # {} \/ raw.bf = p

\* Every object the program may use, and the array in its hands, has a live
\* block that nothing else points to, long enough for all it reads and writes:
\* no use after free, no double free, no write through another object.
SoleOwner ==
  \A p \in Block : Owned(p) =>
    /\ heap[p].live
    /\ Cardinality(Owners(p)) + (IF raw.bf = p THEN 1 ELSE 0) = 1

MemorySafe ==
  /\ \A o \in Obj : Usable(o) =>
       /\ obj[o].ready = 1 /\ obj[o].bf \in Block
       /\ obj[o].bytes <= heap[obj[o].bf].size
       /\ \A k \in Key : \A x \in Probes(obj[o], k) : x \div 8 < obj[o].bytes
  /\ raw.bf # NULL => heap[raw.bf].size = raw.len
  /\ \A o \in spoiled : obj[o].bf = NULL

\* A key added to a filter is reported by it, by its copies, by what is assigned
\* from it and by the filter rebuilt from its bytes with the same arguments.
NoFalseNegative == \A o \in Obj : Usable(o) => \A k \in keys[o] : Contained(o, k)

\* The one way to lose a block is an assignment whose realloc fails.
LosesBlock(p) == heap'[p].live /\ ~Owned(p)' /\ (heap[p].live => Owned(p))

LeakOnlyByFailedAssign ==
  [][\A p \in Block : LosesBlock(p) =>
       \E o, from \in Obj : assign(o, from) /\ result' = Throws]_vars

\* popcount counts every set bit once, whichever of its two loops reads it.
PopcountIsExact ==
  \A o \in Obj : Usable(o) =>
    popcount(o) = Cardinality({x \in Ones(o) : x \div 8 < obj[o].bytes})

\* Filters are values.
Positive(b, ones) == {k \in Key : Probes(b, k) \subseteq ones}

RawFilter == [Configured(Cleared, raw.args.entries, raw.args.error)
                EXCEPT !.hashSeed = raw.args.seed]

RawPositive == IF raw.args = NoArgs THEN {}
               ELSE Positive(RawFilter, heap[raw.bf].ones)

Values == INSTANCE FilterValues WITH
  Args <- [entries: Entries, error: Error \intersect ValidError,
           seed: (Seed \ {0}) \union {DefaultSeed}],
  live <- {o \in Obj : Usable(o)},
  args <- [o \in Obj |-> IF Usable(o) THEN ArgsOf(obj[o]) ELSE NoArgs],
  members <- [o \in Obj |-> IF Usable(o) THEN keys[o] ELSE {}],
  positive <- [o \in Obj |-> IF Usable(o) THEN Positive(obj[o], Ones(o)) ELSE {}],
  post <- [sent |-> raw.bf # NULL, args |-> raw.args, members |-> raw.keys,
           positive |-> IF raw.bf = NULL THEN {} ELSE RawPositive],
  answer <- result

\* Every step of the class is a step on values: copies do not share bits, the
\* receiver of a byte array is the sender if it was built with its arguments,
\* and a call that throws changes no other filter.
ImplementsFilterValues == Values!Spec

\* An array that was added is contained (BloomFilter.h:202).
ArraysAreFound ==
  [][\A o \in Obj, k \in Key : contains_array(o, k) /\ k \in keys[o]
        => result' = 1]_vars
==============================================================================
