--------------------------- MODULE BloomLoopProofs ---------------------------
(***************************************************************************)
(* The probe loops of bloom.c, iteration by iteration, do what the atomic  *)
(* calls of Bloom say, for every hash function and every number of hashes. *)
(* The case that makes it more than bookkeeping is a key that probes one   *)
(* bit twice: bloom_add counts a hit on the bit it has just set itself.    *)
(***************************************************************************)
EXTENDS BloomLoop, BloomProofs

USE DEF BlockType, StructOf, Probing

------------------------------------------------------------------------------
(* The inductive invariant.  Between calls it is that of Bloom.  Inside a  *)
(* call it says that the filter was sound when the call began, and what    *)
(* LoopInvariant says of the bits set and the hits counted since.          *)

InCall == /\ bloom \in StructType /\ result \in {-1, 0, 1, Void}
          /\ started \in BOOLEAN /\ inserted \subseteq Key
          /\ Probing /\ WellSized(bloom)
          /\ Holds(bloom, before, inserted)
          /\ call.key \in Key
          /\ i \in Nat /\ hits \in Nat

LInv == /\ call \in [kind: Kinds, key: Key] \union {Idle}
        /\ i \in Nat /\ hits \in Nat
        /\ before \in [Block -> BlockType]
        /\ ~Running => IInv
        /\ Running => InCall
        /\ LoopInvariant

\* The first n + 1 probes are the first n and the n-th.
LEMMA OneMoreProbe ==
  ASSUME NEW b, NEW k, NEW n \in Nat
  PROVE  ProbesUpTo(b, k, n + 1) = ProbesUpTo(b, k, n) \union {Index(b, k, n)}
<1>1. 0 .. n = (0 .. n - 1) \union {n} /\ n + 1 - 1 = n
  OBVIOUS
<1> QED
  BY <1>1 DEF ProbesUpTo

\* Before the first iteration there are no probes.
LEMMA NoProbes ==
  ASSUME NEW b, NEW k
  PROVE  ProbesUpTo(b, k, 0) = {}
<1>1. 0 .. 0 - 1 = {}
  OBVIOUS
<1> QED
  BY <1>1 DEF ProbesUpTo

\* A filter between calls whose heap holds its keys satisfies Bloom's invariant.
LEMMA HoldsIsIInv ==
  ASSUME bloom' \in StructType, result' \in {-1, 0, 1, Void},
         started' \in BOOLEAN, inserted' \subseteq Key,
         Ready', bloom'.bits # 0, WellSized(bloom'), Holds(bloom', heap', inserted')
  PROVE  IInv'
BY DEF IInv, TypeOK, BitsInBlocks, ReadyInv, EmptyInv, OnlyInsertedBits, Holds, Ones

\* Setting no bit leaves the heap alone.
LEMMA NothingAdded ==
  ASSUME NEW h \in [Block -> BlockType], NEW p \in Block
  PROVE  [h EXCEPT ![p].ones = @ \union {}] = h
<1> DEFINE g == [h EXCEPT ![p].ones = @ \union {}]
<1>1. g \in [Block -> BlockType]
  OBVIOUS
<1>2. \A q \in Block : g[q].live = h[q].live /\ g[q].size = h[q].size
                         /\ g[q].ones = h[q].ones
  OBVIOUS
<1>3. \A q \in Block : g[q] = h[q]
  <2> HIDE DEF g
  <2>1. \A r, t \in BlockType : r.live = t.live /\ r.size = t.size
                                  /\ r.ones = t.ones => r = t
    OBVIOUS
  <2> QED
    BY <1>1, <1>2, <2>1
<1> QED
  BY <1>1, <1>3

\* What the heap looks like inside a call.
LEMMA HeapInCall ==
  ASSUME LInv, Running
  PROVE  /\ ~Writes => heap = before
         /\ Writes => heap = WithBits(bloom, before, Done)
         /\ Ones = Then \union NewBits
<1>1. before \in [Block -> BlockType] /\ bloom.bf \in Block
  BY DEF LInv, InCall, Holds
<1>2. heap = [before EXCEPT ![bloom.bf].ones = @ \union NewBits]
  BY DEF LInv, LoopInvariant
<1>3. Ones = Then \union NewBits
  BY <1>1, <1>2 DEF Ones, Then
<1>4. CASE Writes
  BY <1>2, <1>3, <1>4 DEF WithBits, NewBits
<1>5. CASE ~Writes
  BY <1>1, <1>2, <1>3, <1>5, NothingAdded DEF NewBits
<1> QED
  BY <1>4, <1>5

\* No loop is running.
LEMMA LoopInitLInv == LoopInit => LInv
<1> SUFFICES ASSUME LoopInit PROVE LInv
  OBVIOUS
<1>1. IInv
  BY InitIInv DEF LoopInit
<1>2. ~Running
  BY DEF LoopInit, Running, Idle, Kinds
<1>3. before \in [Block -> BlockType]
  BY DEF LoopInit, NoBlock
<1> QED
  BY <1>1, <1>2, <1>3 DEF LInv, LoopInit, LoopInvariant

------------------------------------------------------------------------------
(* Every step keeps the invariant.                                         *)

\* Entering a loop, with its counters at 0.
LEMMA EnterKeepsLInv ==
  ASSUME LInv, NEW kind \in Kinds, NEW k \in Key, Enter(kind, k)
  PROVE  LInv'
<1>1. /\ call' = [kind |-> kind, key |-> k] /\ i' = 0 /\ hits' = 0
      /\ before' = heap /\ ~Running /\ Probing /\ UNCHANGED vars
  BY DEF Enter
<1>2. IInv
  BY <1>1 DEF LInv
<1>3. WellSized(bloom) /\ Holds(bloom, heap, inserted)
  BY <1>1, <1>2, ReadyHolds DEF IInv
<1>4. InCall'
  BY <1>1, <1>2, <1>3 DEF InCall, IInv, TypeOK, vars, Ready, Holds
<1>5. Running' /\ before' \in [Block -> BlockType]
  BY <1>1, <1>3 DEF Running, Holds
<1>6. Done' = {} /\ NewBits' = {}
  BY <1>1, NoProbes DEF Done, NewBits
<1>7. heap = [heap EXCEPT ![bloom.bf].ones = @ \union {}]
  BY <1>3, NothingAdded DEF Holds
<1>8. LoopInvariant'
  <2>1. Ready' /\ i' <= bloom'.hashes /\ hits' <= i'
    BY <1>1, <1>3 DEF vars, Ready, WellSized
  <2>2. heap' = [before' EXCEPT ![bloom'.bf].ones = @ \union {}]
    BY <1>1, <1>7 DEF vars
  <2> QED
    BY <1>1, <1>6, <2>1, <2>2 DEF LoopInvariant
<1> QED
  BY <1>1, <1>4, <1>5, <1>8 DEF LInv

\* One more iteration that stays in the loop: one more probe is done.
LEMMA IterationKeepsLInv ==
  ASSUME LInv, Running, i < bloom.hashes, ProbeHit \/ ProbeMissSets
  PROVE  LInv'
<1>1. /\ i' = i + 1 /\ call' = call
      /\ UNCHANGED <<bloom, result, started, inserted, before>>
  BY DEF ProbeHit, ProbeMissSets, Continue
<1>2. /\ InCall /\ i \in Nat /\ hits \in Nat /\ hits <= i
      /\ bloom.hashes \in Nat /\ before \in [Block -> BlockType]
      /\ bloom.bf \in Block
  BY DEF LInv, InCall, LoopInvariant, WellSized, Holds
<1>3. Done' = Done \union {ProbedBit}
  BY <1>1, <1>2, OneMoreProbe DEF Done, ProbedBit
<1>4. Ones = Then \union NewBits
  BY HeapInCall
<1>5. /\ call.kind \in {"check", "add"} => (hits = i <=> Done \subseteq Then)
      /\ ~Writes => Done \subseteq Then
      /\ heap = [before EXCEPT ![bloom.bf].ones = @ \union NewBits]
  BY DEF LInv, LoopInvariant
<1>6. /\ Then' = Then /\ Writes' = Writes /\ Running' /\ Ready'
      /\ call'.kind = call.kind /\ i' <= bloom'.hashes
      /\ NewBits' = IF Writes THEN Done' ELSE {}
  BY <1>1, <1>2 DEF Then, Writes, Running, Ready, InCall, NewBits
<1>7. CASE ProbeHit
  <2>1. /\ ProbedBit \in Ones /\ heap' = heap
        /\ hits' = IF call.kind \in {"check", "add"} THEN hits + 1 ELSE hits
    BY <1>7 DEF ProbeHit
  <2>2. hits' \in Nat /\ hits' <= i'
    BY <1>1, <1>2, <2>1
  <2>3. ~Writes => Done' \subseteq Then
    BY <1>3, <1>4, <1>5, <2>1 DEF NewBits
  <2>4. call.kind \in {"check", "add"} => (hits' = i' <=> Done' \subseteq Then)
    <3> SUFFICES ASSUME call.kind \in {"check", "add"}
                 PROVE  hits' = i' <=> Done' \subseteq Then
      OBVIOUS
    <3>1. hits' = i' <=> hits = i
      BY <1>1, <1>2, <2>1
    <3>2. Done \subseteq Then => ProbedBit \in Then
      BY <1>4, <2>1 DEF NewBits
    <3> QED
      BY <1>3, <1>5, <3>1, <3>2
  <2>5. Then \union NewBits' = Then \union NewBits
    BY <1>3, <1>4, <1>6, <2>1 DEF NewBits
  <2>6. heap' = [before' EXCEPT ![bloom'.bf].ones = @ \union NewBits']
    BY <1>1, <1>5, <2>1, <2>5 DEF Then
  <2>7. LoopInvariant'
    BY <1>6, <2>2, <2>3, <2>4, <2>6 DEF LoopInvariant
  <2> QED
    BY <1>1, <1>2, <1>6, <2>2, <2>7 DEF LInv, InCall
<1>8. CASE ProbeMissSets
  <2>1. /\ ProbedBit \notin Ones /\ Writes /\ hits' = hits
        /\ heap' = [heap EXCEPT ![bloom.bf].ones = @ \union {ProbedBit}]
    BY <1>8 DEF ProbeMissSets, Set
  <2>2. hits' \in Nat /\ hits' <= i' /\ hits' # i'
    BY <1>1, <1>2, <2>1
  <2>3. ~(Done' \subseteq Then)
    BY <1>3, <1>4, <2>1
  <2>4. heap' = [before' EXCEPT ![bloom'.bf].ones = @ \union NewBits']
    <3>1. NewBits' = NewBits \union {ProbedBit}
      BY <1>3, <1>6, <2>1 DEF NewBits
    <3>2. PICK p \in Block : p = bloom.bf
      BY <1>2
    <3>3. heap = [before EXCEPT ![p].ones = @ \union NewBits]
      BY <1>5, <3>2
    <3>4. heap' = [heap EXCEPT ![p].ones = @ \union {ProbedBit}]
      BY <2>1, <3>2
    <3>5. heap' = [before EXCEPT ![p].ones = @ \union (NewBits \union {ProbedBit})]
      BY <1>2, <3>3, <3>4
    <3> QED
      BY <1>1, <3>1, <3>2, <3>5
  <2>5. LoopInvariant'
    BY <1>6, <2>1, <2>2, <2>3, <2>4 DEF LoopInvariant
  <2> QED
    BY <1>1, <1>2, <1>6, <2>2, <2>5 DEF LInv, InCall
<1> QED
  BY <1>7, <1>8

\* Leaving the loop: the bits of the whole call have been set, or none.
LEMMA ReturnKeepsLInv ==
  ASSUME LInv, Running, NEW v \in {-1, 0, 1, Void}, Return(v), UNCHANGED heap,
         Writes => Done = Probes(bloom, call.key)
  PROVE  LInv'
<1>1. /\ call' = Idle /\ i' = 0 /\ hits' = 0 /\ result' = v
      /\ before' = [p \in Block |-> NoBlock]
      /\ bloom' = bloom /\ started' = started /\ heap' = heap
      /\ inserted' = IF Writes THEN inserted \union {call.key} ELSE inserted
  BY DEF Return
<1>2. ~Running'
  BY <1>1 DEF Running, Idle, Kinds
<1>3. /\ bloom \in StructType /\ started \in BOOLEAN /\ inserted \subseteq Key
      /\ Ready /\ bloom.bits # 0
      /\ WellSized(bloom) /\ Holds(bloom, before, inserted) /\ call.key \in Key
  BY DEF LInv, InCall
<1>4. Holds(bloom', heap', inserted')
  <2>1. CASE Writes
    <3>1. heap = WithBits(bloom, before, Probes(bloom, call.key))
      BY <2>1, HeapInCall
    <3> QED
      BY <1>1, <1>3, <2>1, <3>1, AddedHolds
  <2>2. CASE ~Writes
    BY <1>1, <1>3, <2>2, HeapInCall
  <2> QED
    BY <2>1, <2>2
<1>5. Ready' /\ inserted' \subseteq Key
  BY <1>1, <1>3 DEF Ready
<1>6. IInv'
  BY <1>1, <1>3, <1>4, <1>5, HoldsIsIInv
<1>7. before' \in [Block -> BlockType]
  BY <1>1 DEF NoBlock
<1> QED
  BY <1>1, <1>2, <1>6, <1>7 DEF LInv, LoopInvariant

\* At i = hashes every probe has been done, and the counter tells whether all
\* of them were set before the call.
LEMMA AtTheEnd ==
  ASSUME LInv, Running, i >= bloom.hashes
  PROVE  /\ Done = Probes(bloom, call.key)
         /\ call.kind \in {"check", "add"}
              => CountedResult = Reported(bloom, Then, call.key)
         /\ call.kind = "check_ns" => Reported(bloom, Then, call.key) = 1
<1>1. i \in Nat /\ i <= bloom.hashes /\ bloom.hashes \in Nat
  BY DEF LInv, InCall, LoopInvariant, WellSized
<1>2. i = bloom.hashes
  BY <1>1
<1>3. Done = Probes(bloom, call.key)
  BY <1>2 DEF Done, Probes
<1>4. /\ call.kind \in {"check", "add"} => (hits = i <=> Done \subseteq Then)
      /\ call.kind = "check_ns" => Done \subseteq Then
  BY DEF LInv, LoopInvariant, Writes
<1> QED
  BY <1>2, <1>3, <1>4 DEF CountedResult, Reported

\* A probe found clear by a call that only reads: the key is not reported.
LEMMA AtAMiss ==
  ASSUME LInv, Running, i < bloom.hashes, ProbedBit \notin Ones, ~Writes
  PROVE  Reported(bloom, Then, call.key) = 0
<1>1. ProbedBit \notin Then
  BY HeapInCall
<1>2. i \in Nat /\ bloom.hashes \in Nat
  BY DEF LInv, InCall, WellSized
<1>3. ProbedBit \in Probes(bloom, call.key)
  BY <1>2 DEF ProbedBit, Probes, ProbesUpTo
<1> QED
  BY <1>1, <1>3 DEF Reported

\* The calls without a loop are those of Bloom.
LEMMA OtherCallsKeepIInv ==
  ASSUME IInv, OtherCalls
  PROVE  IInv'
<1>1. CASE \E n \in Entries, e \in Error : bloom_init(n, e)
  BY <1>1, InitKeepsIInv
<1>2. CASE NotInitialized
  BY <1>2 DEF NotInitialized, IInv, TypeOK, ReadyInv, EmptyInv,
              OnlyInsertedBits, Ready, Ones, BitsInBlocks
<1>3. CASE bloom_free
  BY <1>3, FreeKeepsIInv
<1>4. CASE bloom_reset
  BY <1>4, ResetKeepsIInv
<1> QED
  BY <1>1, <1>2, <1>3, <1>4 DEF OtherCalls

\* Every iteration keeps the loop invariant.
LEMMA LoopNextKeepsLInv == LInv /\ [LoopNext]_allVars => LInv'
<1> SUFFICES ASSUME LInv, [LoopNext]_allVars PROVE LInv'
  OBVIOUS
<1>1. ASSUME NEW kind \in Kinds, NEW k \in Key, Enter(kind, k) PROVE LInv'
  BY <1>1, EnterKeepsLInv
<1>2. CASE ProbeHit \/ ProbeMissSets
  BY <1>2, IterationKeepsLInv DEF ProbeHit, ProbeMissSets
<1>3. CASE ProbeMissReturns
  BY <1>3, ReturnKeepsLInv DEF ProbeMissReturns
<1>4. CASE Finish
  <2>1. Running /\ i >= bloom.hashes /\ UNCHANGED heap
    BY <1>4 DEF Finish
  <2>2. PICK v : v = (CASE call.kind \in {"check", "add"} -> CountedResult
                        [] call.kind = "check_ns" -> 1
                        [] call.kind = "add_ns" -> Void)
    OBVIOUS
  <2>3. v \in {-1, 0, 1, Void}
    BY <2>1, <2>2 DEF Running, Kinds, CountedResult
  <2>4. Return(v)
    BY <1>4, <2>2 DEF Finish
  <2> QED
    BY <2>1, <2>3, <2>4, AtTheEnd, ReturnKeepsLInv
<1>5. CASE OtherCalls
  <2>1. ~Running /\ ~Running' /\ UNCHANGED loopVars
    BY <1>5 DEF OtherCalls, loopVars, Running
  <2>2. IInv
    BY <2>1 DEF LInv
  <2>3. IInv'
    BY <1>5, <2>2, OtherCallsKeepIInv
  <2> QED
    BY <2>1, <2>3 DEF LInv, LoopInvariant, loopVars
<1>6. CASE UNCHANGED allVars
  BY <1>6 DEF allVars, LInv, InCall, IInv, TypeOK, ReadyInv, EmptyInv, OnlyInsertedBits,
              Ready, Ones, BitsInBlocks, Running, LoopInvariant, Done, Then, NewBits, Writes
<1> QED
  BY <1>1, <1>2, <1>3, <1>4, <1>5, <1>6 DEF LoopNext

\* The loop invariant holds in every reachable state.
LEMMA LoopInvariance == LoopSpec => []LInv
<1> QED
  BY LoopInitLInv, LoopNextKeepsLInv, PTL DEF LoopSpec

------------------------------------------------------------------------------
(* The theorems.                                                           *)

\* In the middle of a call the filter's types hold: no iteration sets a bit
\* outside the filter's block.
THEOREM LoopTypeCorrect == LoopSpec => []LoopTypeOK
<1>1. LInv => TypeOK
  <2> SUFFICES ASSUME LInv, Running PROVE TypeOK
    BY DEF LInv, IInv
  <2>1. InCall /\ i \in Nat /\ i <= bloom.hashes
    BY DEF LInv, LoopInvariant
  <2>2. Done \in SUBSET (0 .. bloom.bits - 1)
    <3>1. \A j \in 0 .. i - 1 : j \in Nat
      BY <2>1
    <3> QED
      BY <2>1, <3>1, IndexInBits DEF InCall, Done, ProbesUpTo
  <2>3. /\ heap \in [Block -> BlockType]
        /\ \A p \in Block : heap[p].ones \subseteq 0 .. 8 * heap[p].size - 1
    <3>1. CASE Writes
      BY <2>1, <2>2, <3>1, HeapInCall, BitsFit DEF InCall
    <3>2. CASE ~Writes
      BY <2>1, <3>2, HeapInCall DEF InCall, Holds
    <3> QED
      BY <3>1, <3>2
  <2> QED
    BY <2>1, <2>3 DEF InCall, TypeOK, BitsInBlocks
<1>2. LInv => LoopTypeOK
  BY <1>1 DEF LInv, LoopTypeOK
<1> QED
  BY <1>2, LoopInvariance, PTL

\* Inside the loop of bloom_check_add the counter equals the number of probes
\* done exactly if those bits were all set before the call.
THEOREM CounterIsRight == LoopSpec => []LoopInvariant
<1>1. LInv => LoopInvariant
  BY DEF LInv
<1> QED
  BY <1>1, LoopInvariance, PTL

\* The operators of BloomStruct and Bloom do not depend on the heap, so the
\* instance Atomic has the same ones.
LEMMA SameOperators ==
  ASSUME NEW b, NEW k, NEW ones
  PROVE  /\ Atomic!Probes(b, k) = Probes(b, k)
         /\ Atomic!Reported(b, ones, k) = Reported(b, ones, k)
         /\ Atomic!AddedBits(b, k) = Probes(b, k)
         /\ Atomic!AddedBitsNs(b, k) = Probes(b, k)
         /\ Atomic!ContainedNs(b, ones, k) <=> ContainedNs(b, ones, k)
<1>1. Atomic!Probes(b, k) = Probes(b, k)
  BY DEF Atomic!Probes, Atomic!ProbesUpTo, Atomic!Index, Probes, ProbesUpTo, Index
<1> QED
  BY <1>1 DEF Atomic!Reported, Atomic!AddedBits, Atomic!AddedBitsNs, Atomic!ContainedNs,
              Atomic!Index, Reported, ContainedNs, Index

\* A call that returns value v out of its loop is the atomic call.
LEMMA ReturnIsACall ==
  ASSUME LInv, Running, NEW v \in {-1, 0, 1, Void}, Return(v), UNCHANGED heap,
         Writes => Done = Probes(bloom, call.key),
         call.kind = "add_ns" => v = Void,
         call.kind # "add_ns" => v = Reported(bloom, Then, call.key)
  PROVE  Atomic!Next
<1> DEFINE k == call.key
<1>1. /\ result' = v /\ bloom' = bloom /\ started' = started /\ heap' = heap
      /\ inserted' = IF Writes THEN inserted \union {k} ELSE inserted
      /\ ~Running'
  BY DEF Return, Running, Idle, Kinds
<1>2. /\ k \in Key /\ Ready /\ WellSized(bloom) /\ bloom.ready # 0 /\ bloom.bits # 0
      /\ before \in [Block -> BlockType] /\ bloom.bf \in Block
  BY DEF LInv, InCall, Ready, Holds
<1>3. Atomic!Ones = Then
  BY DEF Atomic!Ones, Then
<1>4. CASE call.kind = "check"
  <2>1. heap = before
    BY <1>4, HeapInCall DEF Writes
  <2>2. Atomic!bloom_check(k)
    BY <1>1, <1>2, <1>3, <1>4, <2>1, SameOperators
       DEF Atomic!bloom_check, Ready, Writes
  <2> QED
    BY <1>2, <2>2 DEF Atomic!Next
<1>5. CASE call.kind = "check_ns"
  <2>1. heap = before
    BY <1>5, HeapInCall DEF Writes
  <2>2. v = IF ContainedNs(bloom, Then, k) THEN 1 ELSE 0
    BY <1>2, <1>5, IndexSetIsProbes DEF Reported
  <2>3. Atomic!bloom_check_ns(k)
    BY <1>1, <1>2, <1>3, <1>5, <2>1, <2>2, SameOperators
       DEF Atomic!bloom_check_ns, Atomic!Probing, Atomic!Ready, Ready, Writes
  <2> QED
    BY <1>2, <2>3 DEF Atomic!Next
<1>6. CASE Writes
  <2>1. heap = [before EXCEPT ![bloom.bf].ones = @ \union Probes(bloom, k)]
    BY <1>6, HeapInCall DEF WithBits
  <2>2. CASE call.kind = "add"
    <3>1. Atomic!bloom_add(k)
      BY <1>1, <1>2, <1>3, <1>6, <2>1, <2>2, SameOperators
         DEF Atomic!bloom_add, Ready
    <3> QED
      BY <1>2, <3>1 DEF Atomic!Next
  <2>3. CASE call.kind = "add_ns"
    <3>1. Atomic!Probing
      BY <1>2 DEF Atomic!Probing, Atomic!Ready, Ready
    <3>2. result' = Atomic!Void
      BY <1>1, <2>3 DEF Atomic!Void, Void
    <3>3. Atomic!bloom_add_ns(k)
      BY <1>1, <1>2, <1>6, <2>1, <3>1, <3>2, SameOperators DEF Atomic!bloom_add_ns
    <3> QED
      BY <1>2, <3>3 DEF Atomic!Next
  <2> QED
    BY <1>6, <2>2, <2>3 DEF Writes
<1> QED
  BY <1>4, <1>5, <1>6 DEF Running, Kinds, Writes

\* Calls without a loop are the same calls of the instance.
LEMMA OtherCallsAreCalls ==
  ASSUME OtherCalls
  PROVE  Atomic!Next
<1>1. ~Running /\ ~Running'
  BY DEF OtherCalls, loopVars, Running
<1>2. ASSUME NEW n \in Entries, NEW e \in Error, bloom_init(n, e)
      PROVE  Atomic!Next
  <2> DEFINE b == Configured(bloom, n, e)
  <2>1. Atomic!Configured(bloom, n, e) = b
    BY DEF Configured, Atomic!Configured, BitsFor, Atomic!BitsFor, BytesFor,
           Atomic!BytesFor, HashesFor, Atomic!HashesFor, CeilDiv, Atomic!CeilDiv
  <2>2. /\ Atomic!ValidArgs(n, e) <=> ValidArgs(n, e)
        /\ Atomic!RejectArgs(bloom) = RejectArgs(bloom)
        /\ Atomic!Zeroed(b.bytes) = Zeroed(b.bytes)
    BY DEF ValidArgs, Atomic!ValidArgs, RejectArgs, Atomic!RejectArgs,
           Zeroed, Atomic!Zeroed
  <2> HIDE DEF b
  <2>3. started' = TRUE /\ inserted' = {}
    BY <1>2 DEF bloom_init
  <2>4. CASE ~ValidArgs(n, e)
    <3>1. bloom' = RejectArgs(bloom) /\ result' = 1 /\ heap' = heap
      BY <1>2, <2>4 DEF bloom_init
    <3>2. Atomic!bloom_init(n, e)
      BY <1>1, <2>2, <2>3, <2>4, <3>1 DEF Atomic!bloom_init
    <3> QED
      BY <3>2 DEF Atomic!Next
  <2>5. CASE ValidArgs(n, e)
    <3>1. \/ bloom' = [b EXCEPT !.bf = NULL, !.ready = 0]
             /\ result' = 1 /\ heap' = heap
          \/ \E p \in Block : /\ ~heap[p].live
                              /\ bloom' = [b EXCEPT !.bf = p, !.ready = 1]
                              /\ heap' = [heap EXCEPT ![p] = Zeroed(b.bytes)]
                              /\ result' = 0
      BY <1>2, <2>5 DEF bloom_init, b
    <3>2. CASE bloom' = [b EXCEPT !.bf = NULL, !.ready = 0]
               /\ result' = 1 /\ heap' = heap
      <4>1. Atomic!bloom_init(n, e)
        BY <1>1, <2>1, <2>2, <2>3, <2>5, <3>2 DEF Atomic!bloom_init
      <4> QED
        BY <4>1 DEF Atomic!Next
    <3>3. ASSUME NEW p \in Block, ~heap[p].live,
                 bloom' = [b EXCEPT !.bf = p, !.ready = 1],
                 heap' = [heap EXCEPT ![p] = Zeroed(b.bytes)],
                 result' = 0
          PROVE  Atomic!Next
      <4>1. Atomic!bloom_init(n, e)
        BY <1>1, <2>1, <2>2, <2>3, <2>5, <3>3 DEF Atomic!bloom_init
      <4> QED
        BY <4>1 DEF Atomic!Next
    <3> QED
      BY <3>1, <3>2, <3>3
  <2> QED
    BY <2>4, <2>5
<1>3. ASSUME NEW k \in Key, started, NotInitialized
      PROVE  Atomic!Next
  <2>1. Atomic!bloom_check(k)
    BY <1>1, <1>3 DEF NotInitialized, Atomic!bloom_check, Atomic!NotInitialized
  <2> QED
    BY <2>1 DEF Atomic!Next
<1>4. CASE bloom_free
  <2>1. Atomic!bloom_free
    BY <1>1, <1>4 DEF bloom_free, Atomic!bloom_free, Released, Atomic!Released,
                      NoBlock, Atomic!NoBlock, Void, Atomic!Void
  <2> QED
    BY <2>1 DEF Atomic!Next
<1>5. CASE bloom_reset
  <2>1. Atomic!bloom_reset
    BY <1>1, <1>5 DEF bloom_reset, Atomic!bloom_reset, Erased, Atomic!Erased
  <2> QED
    BY <2>1 DEF Atomic!Next
<1> QED
  BY <1>2, <1>3, <1>4, <1>5 DEF OtherCalls

\* Steps inside a loop change nothing the caller sees.
LEMMA InsideACall ==
  ASSUME LInv
  PROVE  /\ (\E kind \in Kinds, k \in Key : Enter(kind, k))
              => UNCHANGED Atomic!vars
         /\ ProbeHit \/ ProbeMissSets => UNCHANGED Atomic!vars
<1>1. ASSUME NEW kind \in Kinds, NEW k \in Key, Enter(kind, k)
      PROVE  UNCHANGED Atomic!vars
  <2>1. ~Running /\ Running' /\ before' = heap /\ UNCHANGED vars
    BY <1>1 DEF Enter, Running
  <2> QED
    BY <2>1 DEF vars, Atomic!vars
<1>2. ASSUME ProbeHit \/ ProbeMissSets
      PROVE  UNCHANGED Atomic!vars
  <2>1. Running /\ Running' /\ UNCHANGED <<bloom, result, started, inserted, before>>
    BY <1>2 DEF ProbeHit, ProbeMissSets, Continue, Running
  <2> QED
    BY <2>1 DEF Atomic!vars
<1> QED
  BY <1>1, <1>2

\* The iteration that returns is the call; those before it change nothing
\* a caller sees.
LEMMA LoopNextImplementsBloom ==
  ASSUME LInv, [LoopNext]_allVars
  PROVE  [Atomic!Next]_(Atomic!vars)
<1>1. CASE \E kind \in Kinds, k \in Key : Enter(kind, k)
  BY <1>1, InsideACall
<1>2. CASE ProbeHit \/ ProbeMissSets
  BY <1>2, InsideACall
<1>3. CASE ProbeMissReturns
  <2>1. /\ Running /\ ~Writes /\ Return(0) /\ UNCHANGED heap
        /\ i < bloom.hashes /\ ProbedBit \notin Ones
    BY <1>3 DEF ProbeMissReturns
  <2>2. Reported(bloom, Then, call.key) = 0 /\ call.kind # "add_ns"
    BY <2>1, AtAMiss DEF Writes
  <2> QED
    BY <2>1, <2>2, ReturnIsACall
<1>4. CASE Finish
  <2>1. Running /\ i >= bloom.hashes /\ UNCHANGED heap
    BY <1>4 DEF Finish
  <2>2. PICK v : v = (CASE call.kind \in {"check", "add"} -> CountedResult
                        [] call.kind = "check_ns" -> 1
                        [] call.kind = "add_ns" -> Void)
    OBVIOUS
  <2>3. v \in {-1, 0, 1, Void}
    BY <2>1, <2>2 DEF Running, Kinds, CountedResult
  <2>4. Return(v)
    BY <1>4, <2>2 DEF Finish
  <2>5. /\ Done = Probes(bloom, call.key)
        /\ call.kind \in {"check", "add"}
             => CountedResult = Reported(bloom, Then, call.key)
        /\ call.kind = "check_ns" => Reported(bloom, Then, call.key) = 1
    BY <2>1, AtTheEnd
  <2>6. /\ call.kind = "add_ns" => v = Void
        /\ call.kind # "add_ns" => v = Reported(bloom, Then, call.key)
    BY <2>1, <2>2, <2>5 DEF Running, Kinds
  <2> QED
    BY <2>1, <2>3, <2>4, <2>5, <2>6, ReturnIsACall
<1>5. CASE OtherCalls
  BY <1>5, OtherCallsAreCalls
<1>6. CASE UNCHANGED allVars
  BY <1>6 DEF allVars, Atomic!vars, Running
<1> QED
  BY <1>1, <1>2, <1>3, <1>4, <1>5, <1>6 DEF LoopNext

\* The loops implement the atomic calls: every value returned and every bit
\* left behind is the one Bloom gives.
THEOREM LoopRefinement == LoopSpec => ImplementsBloom
<1>1. LoopInit => Atomic!Init
  BY DEF LoopInit, Init, Atomic!Init, Running, Idle, Kinds, NoBlock, Atomic!NoBlock,
         Void, Atomic!Void, Cleared, Atomic!Cleared
<1>2. LInv /\ [LoopNext]_allVars => [Atomic!Next]_(Atomic!vars)
  BY LoopNextImplementsBloom
<1> QED
  BY <1>1, <1>2, LoopInvariance, PTL DEF LoopSpec, ImplementsBloom, Atomic!Spec

\* Every iteration of a probe loop leaves fewer probes or returns: no call takes
\* more than hashes + 1 steps (bloom.c:87, 171, 187).
THEOREM IterationsProgress ==
  LoopSpec => [][Running => bloom.hashes' - i' \in 0 .. bloom.hashes - i - 1
                              \/ ~Running']_allVars
<1>1. ASSUME LInv, Running, LoopNext
      PROVE  bloom.hashes' - i' \in 0 .. bloom.hashes - i - 1 \/ ~Running'
  <2>1. i \in Nat /\ bloom.hashes \in Nat
    BY <1>1 DEF LInv, InCall, StructType
  <2>2. CASE ProbeHit \/ ProbeMissSets
    BY <2>1, <2>2 DEF ProbeHit, ProbeMissSets, Continue
  <2>3. CASE ProbeMissReturns \/ Finish
    BY <2>3 DEF ProbeMissReturns, Finish, Return, Running, Idle, Kinds
  <2> QED
    BY <1>1, <2>2, <2>3 DEF LoopNext, Enter, OtherCalls
<1> QED
  BY <1>1, LoopInvariance, PTL DEF LoopSpec
==============================================================================
