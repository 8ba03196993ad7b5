SPECIFICATION Spec
CONSTANTS
  Capacity = 2
  Modulus = 4
  Values = {v1, v2}
  NoValue = NoValue
  Consumers = {process_thread, along_thread}
PROPERTIES
  ImplementsFifo
