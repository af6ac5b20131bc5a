------------------------------ MODULE Ordered ------------------------------
(***************************************************************************)
(* Sets of indices taken in order, as loops over a list and sort.Ints do.  *)
(***************************************************************************)
EXTENDS Naturals, Sequences, FiniteSets

(* A finite sequence, of whatever elements.                                *)
IsList(s) == s \in Seq({s[i] : i \in DOMAIN s})

(* The n-th index has n - 1 before it.                                     *)
InOrder(indices) ==
    [n \in 1 .. Cardinality(indices) |->
       CHOOSE i \in indices : Cardinality({j \in indices : j < i}) = n - 1]

(* The elements of a list at some of its indices.                          *)
Chosen(list, indices) ==
    [n \in 1 .. Cardinality(indices) |-> list[InOrder(indices)[n]]]
=============================================================================
