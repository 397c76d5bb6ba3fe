------------------------- MODULE MCCachingEmbedder -------------------------
(***************************************************************************)
(* Two spellings of one text, two other texts, and room for two of three   *)
(* keys.                                                                   *)
(***************************************************************************)
EXTENDS CachingEmbedder

CONSTANTS tree, Tree, leaf, root

MCKeyOf == [x \in Texts |-> IF x = Tree THEN tree ELSE x]

One(x) == [kind |-> "one", texts |-> <<x>>]
Batch(s) == [kind |-> "batch", texts |-> s]

\* A batch with an empty text and more keys than the cache has room for, and one
\* with a text twice in two spellings.
MCAsks ==
  {One(Tree), One(leaf), Batch(<<NoText, leaf, root, tree>>), Batch(<<tree, Tree>>)}
=============================================================================
