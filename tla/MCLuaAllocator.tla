--------------------------- MODULE MCLuaAllocator ---------------------------
(* Small instances of LuaAllocator for TLC. *)
EXTENDS LuaAllocator, TLC

BlockSymmetry == Permutations(Blocks)

=============================================================================
