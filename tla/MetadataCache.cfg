SPECIFICATION Spec
CONSTANTS
  p1 = p1
  p2 = p2
  Proc <- MCProc
  Path <- MCPath
  Root = "/"
  DirOf <- MCDirOf
  Under <- MCUnder
  Traversal = "../x"
  None = None
  Sizes = {1}
  MaxEntries = 3
  MaxBytes = 3
  Queried <- MCQueriedPair
  Mutated <- MCMutated
  Shared = {"f"}
  MaxGeneration = 4
  MaxVersion = 1
SYMMETRY Symmetry
INVARIANTS TypeOK CacheFresh ReadYourWrites NothingKeptAfterClose
PROPERTY ImplementsFreshReads
