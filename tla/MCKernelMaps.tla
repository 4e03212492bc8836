---------------------------- MODULE MCKernelMaps ----------------------------
(* One protected host, two source addresses and their three prefixes: the  *)
(* smallest instance in which one prefix hides another in either trie.     *)
EXTENDS KernelMaps
MCTTLs == {0, 1}
=============================================================================
