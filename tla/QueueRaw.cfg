SPECIFICATION RawSpec
CONSTANTS
  MaxCount = 2
  MaxAdds = 6
INVARIANTS AssertionsHold
PROPERTIES ValuesIncrease
