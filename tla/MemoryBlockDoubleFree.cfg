SPECIFICATION CarelessSpec
CONSTANTS
  Holders = {h1, h2, h3}
  zTypeSize = 2
  zAlignment = 2
  zLength = 3
  Foreign <- MCForeign
  NULL = NULL
  Zero = Zero
  Junk = Junk
SYMMETRY Symmetry
PROPERTY DoubleFreeRejected
