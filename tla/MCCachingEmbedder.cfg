SPECIFICATION Spec
CONSTANTS
  Tasks = {t1, t2}
  tree = tree
  Tree = Tree
  leaf = leaf
  root = root
  Texts = {tree, Tree, leaf, root}
  NoText = NoText
  KeyOf <- MCKeyOf
  Asks <- MCAsks
  CacheSize = 2
  Counts = {2}
  MaxCalls = 4
INVARIANTS CacheSound LeastRecentlyUsedGoes PairedByKey EveryTextOrError CountedOnce
