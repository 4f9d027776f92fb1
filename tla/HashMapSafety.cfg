SPECIFICATION Spec
CONSTANTS
  Keys = {3, 4, 7}
  Vals = {v1, v2}
  NoVal = NoVal
  Capacities = {4}
  Ops = {"put", "get", "has", "remove", "reset", "destroy"}
  MaxCapacity = 8
INVARIANTS LiveKeysUnique LiveReachable SizeCoversLive
PROPERTIES ImplementsMap
