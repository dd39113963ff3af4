----------------------------- MODULE MCPathWalk -----------------------------
(***************************************************************************)
(* Every string of up to six characters over two letters and '/', in a    *)
(* few trees: empty, nested, with the empty name that "//" makes.          *)
(***************************************************************************)
EXTENDS PathWalk

CONSTANT MaxLen

MCPathStrings == UNION {[1..n -> Chars] : n \in 0..MaxLen}

LOCAL A == <<"a">>
LOCAL B == <<"b">>

MCTrees ==
  {{<<>>},
   {<<>>, <<A>>, <<A, B>>},
   {<<>>, <<A \o B>>, <<B>>},
   {<<>>, << <<>> >>, << <<>>, A>>, <<A>>}}
=============================================================================
