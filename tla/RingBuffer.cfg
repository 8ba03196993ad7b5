SPECIFICATION Spec
CONSTANTS
  Capacity = 4
  Modulus = 8
  Values = {v1, v2}
  NoValue = NoValue
  Consumers = {c1}
INVARIANTS
  TypeOK
  CountersAgree
  NoSlotRace
PROPERTIES
  ImplementsFifo
