-------------------------------- MODULE Vectors --------------------------------
(***************************************************************************)
(* Vec::retain and VecDeque::retain of Rust's standard library, as         *)
(* key_cache.rs, quantum_kernel.rs and did.rs call them, and the filters   *)
(* of qkd/mod.rs and mcp_http.py: in the order of the elements, those to   *)
(* be dropped go and the others stay.                                      *)
(*                                                                         *)
(* It is SelectSeq with a set for the test, so that LibraryProofs can say  *)
(* in a lemma what it does to every sequence.                              *)
(***************************************************************************)
EXTENDS Sequences, SequencesExt

Passed(dropped, kept, x) == IF x \in dropped THEN kept ELSE Append(kept, x)
retain(s, dropped) == FoldLeft(LAMBDA kept, x : Passed(dropped, kept, x), <<>>, s)
===============================================================================
