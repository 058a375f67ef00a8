SPECIFICATION Spec
CONSTANTS
  u = u
  w = w
  Comps = {u, w}
  Scenes <- Pairs
  Supply <- Calls
  MaxPuts = 3
  MaxFaults = 1
SYMMETRY Alike
INVARIANTS
  
  FromACall
  
  
  NamesOfThisCall

  
CHECK_DEADLOCK FALSE
