SPECIFICATION FairSpec
CONSTANTS
  p1 = p1
  p2 = p2
  Proc <- MCProc
  Path <- MCPathFlat
  Root = "/"
  DirOf <- MCDirOfFlat
  Under <- MCUnderFlat
  Traversal = "../x"
  None = None
  Sizes = {1, 2, 3}
  MaxEntries = 2
  MaxBytes = 2
  Queried <- MCQueriedFlat
  Mutated <- MCMutatedFile
  Shared = {"f"}
  MaxGeneration = 2
  MaxVersion = 0
INVARIANTS SingleFlight Accounting
PROPERTIES OwnCancellation QueryReturns
