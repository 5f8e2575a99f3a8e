---------------------------- MODULE LuaAllocator ----------------------------
(***************************************************************************)
(* The allocator of a Lua state (engine/lua/executor.cpp) over the         *)
(* MemoryLimitChecker that belongs to one execution.                       *)
(*                                                                         *)
(* The Lua core calls the allocator in any order, for any of its blocks:   *)
(* a new block, a growing or shrinking one, a freed one.  When a request   *)
(* is refused it collects garbage and repeats it, and a script may catch   *)
(* the error and go on, so calls after a refusal are ordinary calls.       *)
(***************************************************************************)
EXTENDS Integers, FiniteSets, Functions

CONSTANTS
  Blocks,       \* the blocks Lua may hold at once
  Sizes,        \* the sizes it asks for
  Tags,         \* what it passes as osize with a null pointer (a type tag)
  Limit,        \* ExecuteOptions::memoryLimit
  HeapMayFail,  \* whether realloc can fail (never, where memory is overcommitted)
  SizeModulus   \* std::size_t counts modulo this

ASSUME AllocatorAssumption ==
  /\ IsFiniteSet(Blocks)
  /\ Sizes \subseteq 1 .. (SizeModulus - 1)
  /\ Tags \subseteq Nat
  /\ SizeModulus \in Nat /\ SizeModulus > 0
  /\ HeapMayFail \in BOOLEAN
  /\ Limit \in 0 .. (SizeModulus - 1)

(***************************************************************************)
(* size[b] is the size of block b, 0 while there is none (a null pointer); *)
(* used_ is the checker's counter.  The others are history variables: live *)
(* counts the bytes of all blocks, drift the bytes that used_ holds beyond *)
(* them, wrapped says that used_ has overflowed.                           *)
(***************************************************************************)
VARIABLES size, used_, live, drift, wrapped

vars == <<size, used_, live, drift, wrapped>>

Init ==
  /\ size = [b \in Blocks |-> 0]
  /\ used_ = 0
  /\ live = 0 /\ drift = 0 /\ wrapped = FALSE

-----------------------------------------------------------------------------
(* MemoryLimitChecker.                                                     *)

Allocated(n) == IF used_ + n >= SizeModulus THEN used_ + n - SizeModulus ELSE used_ + n

\* Mutant: the clamped subtraction forgets a byte.
DeallocatedOffByOne(n) == IF used_ <= n THEN 0 ELSE used_ - n - 1

\* Mutant: the subtraction is not clamped.
DeallocatedUnclamped(n) == used_ - n

Deallocated(n) == IF used_ < n THEN 0 ELSE used_ - n

IsLimitReached(counter) == counter > Limit

-----------------------------------------------------------------------------
(* LuaAllocator(ud, ptr, osize, nsize).                                    *)

\* Mutant: the type tag that comes with a null pointer is taken for a size.
OsizeFromTag(b, tag) == IF size[b] = 0 THEN tag ELSE size[b]

\* osize, which means nothing with a null pointer.
Osize(b, tag) == IF size[b] = 0 THEN 0 ELSE size[b]

\* What a request for n bytes is charged: a block that shrinks is charged too.
Charge(osize, n) == IF n > osize THEN n - osize ELSE osize - n

Free(b, tag) ==
  /\ used_' = Deallocated(Osize(b, tag))
  /\ live' = live - size[b]
  /\ size' = [size EXCEPT ![b] = 0]
  /\ UNCHANGED <<drift, wrapped>>

\* The allocator answers a null pointer: the charge stays on the counter.
Refused(charge) ==
  /\ drift' = IF wrapped THEN drift ELSE drift + charge
  /\ UNCHANGED <<size, live>>

Granted(b, n, charge) ==
  /\ size' = [size EXCEPT ![b] = n]
  /\ live' = live - size[b] + n
  /\ drift' = IF wrapped \/ n >= size[b] THEN drift ELSE drift + 2 * charge

Reallocate(b, tag, n) ==
  LET charge == Charge(Osize(b, tag), n)
  IN  /\ used_' = Allocated(charge)
      /\ wrapped' = (wrapped \/ used_ + charge >= SizeModulus)
      /\ \/ IsLimitReached(Allocated(charge)) /\ Refused(charge)
         \/ HeapMayFail /\ Refused(charge)
         \/ ~IsLimitReached(Allocated(charge)) /\ Granted(b, n, charge)

Next == \E b \in Blocks, tag \in Tags :
          Free(b, tag) \/ \E n \in Sizes : Reallocate(b, tag, n)

Spec == Init /\ [][Next]_vars

-----------------------------------------------------------------------------
\* The counter stays a size_t and every block has a size Lua asked for.
TypeOK ==
  /\ size \in [Blocks -> Sizes \cup {0}]
  /\ used_ \in 0 .. (SizeModulus - 1)
  /\ live \in Int /\ drift \in Int /\ wrapped \in BOOLEAN

(* While the counter has not overflowed, the blocks a script holds never   *)
(* exceed the memory limit, and the counter never falls below them:        *)
(* charging shrinks, refusals and failed reallocs can only make the        *)
(* allocator stricter.                                                     *)
LimitHolds == ~wrapped => live <= used_ /\ live <= Limit

(* While the counter has not overflowed it is exactly the size of all      *)
(* blocks plus the drift (a refused or failed request once, a shrink       *)
(* twice).  So Deallocated never meets a counter below the block it        *)
(* releases, and its warning branch is dead code.                          *)
AccountedExactly ==
  ~wrapped => /\ used_ = SumFunction(size) + drift
              /\ drift >= 0 /\ live = SumFunction(size)
              /\ \A b \in Blocks : size[b] <= used_

(* The memory limit is a limit on memory: while the counter has not        *)
(* overflowed, a request that fits under the limit beside the blocks that  *)
(* are live is not refused on account of the limit.                        *)
FittingRequestIsAllowed ==
  ~wrapped => \A b \in Blocks, n \in Sizes :
                live - size[b] + n <= Limit
                  => ~IsLimitReached(Allocated(Charge(size[b], n)))

=============================================================================
