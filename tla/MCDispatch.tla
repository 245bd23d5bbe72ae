----------------------------- MODULE MCDispatch -----------------------------
(***************************************************************************)
(* Instances of Dispatch for TLC: what a node may find.  Category 1 opens  *)
(* the prompt's section, category 2 does not.                              *)
(***************************************************************************)
EXTENDS Dispatch

Found(c, s) == [cat |-> c, size |-> s]

\* A child node has room for three: the second of two large records is dropped,
\* and a small one of an earlier node still taken.
MCOutputs == {<<Found(1, 2), Found(2, 2)>>, <<Found(1, 1)>>}
\* Only what does not open the section.
QuietOutputs == {<<>>, <<Found(2, 1)>>}
=============================================================================
