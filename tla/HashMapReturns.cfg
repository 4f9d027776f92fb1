SPECIFICATION Spec
CONSTANTS
  Keys = {0, 1, 2, 4, 5}
  Vals = {v1}
  NoVal = NoVal
  Capacities = {4}
  Ops = {"put", "remove"}
  MaxCapacity = 8
PROPERTIES ReturnsWithoutRemovals ReturnsIfRoom
