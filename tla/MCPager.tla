------------------------------ MODULE MCPager ------------------------------
(* Pager for TLC: what is interchangeable. *)
EXTENDS Pager, TLC

Symm == Permutations(Pages) \union Permutations(Frames) \union Permutations(Ents)
          \union Permutations(Sectors) \union Permutations(Threads)
=============================================================================
