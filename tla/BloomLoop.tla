------------------------------ MODULE BloomLoop ------------------------------
(***************************************************************************)
(* The four probe loops of bloom.c, one iteration at a time:               *)
(* bloom_check_add with add = 0 and add = 1, bloom_check_ns, bloom_add_ns. *)
(* Bloom takes each of these calls as one step on whole sets of bits; here *)
(* a step tests or sets the one bit the iteration reaches, counts hits in  *)
(* a counter and leaves the loop early where the code does.  The property  *)
(* ImplementsBloom says the two agree.  All other calls are Bloom's.       *)
(*                                                                         *)
(* "before" is a history variable: the heap when the running call began.   *)
(***************************************************************************)
EXTENDS Bloom

VARIABLES call,   \* the running call: its kind and key, or Idle
          i,      \* the loop counter
          hits,   \* probes found set (bloom_check_add only)
          before

loopVars == <<call, i, hits, before>>
allVars == <<bloom, heap, result, started, inserted, call, i, hits, before>>

Kinds == {"check", "add", "check_ns", "add_ns"}
Idle == [kind |-> "idle", key |-> 0]
Running == call.kind \in Kinds
Writes == call.kind \in {"add", "add_ns"}

LoopInit == /\ Init
            /\ call = Idle /\ i = 0 /\ hits = 0
            /\ before = [p \in Block |-> NoBlock]

------------------------------------------------------------------------------
(* Entry: the ready test of bloom_check_add has passed (bloom.c:76), the   *)
(* registers are initialised and the loop is about to test i < hashes.     *)

Enter(kind, k) == /\ ~Running
                  /\ Probing
                  /\ call' = [kind |-> kind, key |-> k]
                  /\ i' = 0
                  /\ hits' = 0
                  /\ before' = heap
                  /\ UNCHANGED vars

ProbedBit == Index(bloom, call.key, i)   \* x in the code

\* faulty: the byte is assigned the mask, losing the bits it held
Set_Overwrites(bit) ==
  heap' = [heap EXCEPT ![bloom.bf].ones =
             {y \in @ : y \div 8 # bit \div 8} \union {bit}]

Set(bit) == heap' = [heap EXCEPT ![bloom.bf].ones = @ \union {bit}]

Return(value) == /\ call' = Idle
                 /\ i' = 0 /\ hits' = 0
                 /\ before' = [p \in Block |-> NoBlock]
                 /\ result' = value
                 /\ inserted' = IF Writes THEN inserted \union {call.key}
                                          ELSE inserted
                 /\ UNCHANGED <<bloom, started>>

\* faulty: the counter does not advance
Continue_Stuck == UNCHANGED <<bloom, result, started, inserted, call, before, i>>

Continue == /\ i' = i + 1
            /\ UNCHANGED <<bloom, result, started, inserted, call, before>>

------------------------------------------------------------------------------
(* One iteration (bloom.c:87-95, 171-174, 187-190).                        *)

ProbeHit == /\ Running /\ i < bloom.hashes
            /\ ProbedBit \in Ones
            /\ hits' = IF call.kind \in {"check", "add"} THEN hits + 1 ELSE hits
            /\ Continue
            /\ UNCHANGED heap

ProbeMissSets == /\ Running /\ i < bloom.hashes
                 /\ ProbedBit \notin Ones
                 /\ Writes
                 /\ Set(ProbedBit)
                 /\ Continue
                 /\ UNCHANGED hits

ProbeMissReturns == /\ Running /\ i < bloom.hashes
                    /\ ProbedBit \notin Ones
                    /\ ~Writes
                    /\ Return(0)
                    /\ UNCHANGED heap

------------------------------------------------------------------------------
(* Leaving the loop at i = hashes (bloom.c:101-105, 175).                  *)

\* faulty: an add that found any of its bits set answers "already in"
CountedResult_AnyHit == IF hits > 0 THEN 1 ELSE 0

CountedResult == IF hits = bloom.hashes THEN 1 ELSE 0

Finish == /\ Running /\ i >= bloom.hashes
          /\ Return(CASE call.kind \in {"check", "add"} -> CountedResult
                      [] call.kind = "check_ns" -> 1
                      [] call.kind = "add_ns" -> Void)
          /\ UNCHANGED heap

OtherCalls == /\ ~Running
              /\ \/ \E n \in Entries, e \in Error : bloom_init(n, e)
                 \/ \E k \in Key : started /\ NotInitialized
                 \/ bloom_free
                 \/ bloom_reset
              /\ UNCHANGED loopVars

LoopNext == \/ \E kind \in Kinds, k \in Key : Enter(kind, k)
            \/ ProbeHit \/ ProbeMissSets \/ ProbeMissReturns
            \/ Finish
            \/ OtherCalls

LoopSpec == LoopInit /\ [][LoopNext]_allVars

\* The caller runs the loop it has entered.
FairLoopSpec == LoopSpec /\ WF_allVars(ProbeHit \/ ProbeMissSets
                                        \/ ProbeMissReturns \/ Finish)

------------------------------------------------------------------------------
(* Properties.                                                             *)

\* Types, those of Bloom included: no iteration sets a bit outside the block.
LoopTypeOK == /\ TypeOK
              /\ call \in [kind: Kinds, key: Key] \union {Idle}
              /\ i \in Nat /\ hits \in Nat
              /\ before \in [Block -> BlockType]

\* In the middle of a call: the bits a writing call has set are exactly its
\* first i probes, a reading call has set none, and the hits counted so far
\* equal i only if all those probes were set BEFORE the call - although a key
\* may probe one bit twice, and then finds the bit it has just set itself.
Done == ProbesUpTo(bloom, call.key, i)
Then == before[bloom.bf].ones
NewBits == IF Writes THEN Done ELSE {}

LoopInvariant ==
  Running => /\ Ready
             /\ i <= bloom.hashes
             /\ hits <= i
             /\ heap = [before EXCEPT ![bloom.bf].ones = @ \union NewBits]
             /\ call.kind \in {"check", "add"} => (hits = i <=> Done \subseteq Then)
             /\ ~Writes => Done \subseteq Then

\* One call, loop and all, is one step of Bloom: the value it returns, the
\* bits it leaves behind and the refusals are those of the atomic call.
Atomic == INSTANCE Bloom WITH heap <- IF Running THEN before ELSE heap

ImplementsBloom == Atomic!Spec

\* Every call that has entered its loop returns.
CallReturns == Running ~> ~Running
==============================================================================
