CONSTANTS
  first = first
  retry = retry
  other = other
  elsewhere = elsewhere
  key1 = key1
  key2 = key2
  printA = printA
  printB = printB
  Requests = {first, retry, other, elsewhere}
  Keys = {key1, key2}
  KeyOf <- KeyOfDef
  Prints = {printA, printB}
  PrintOf <- PrintOfDef
  TTL = 2
SPECIFICATION FairSpec
INVARIANTS SingleRunner ReplayIsOfTheSameRequest
PROPERTIES OneEffectPerWindow ReservationEnds
