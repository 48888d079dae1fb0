\* Requests and transmissions among the transfers of a foreign master.
CONSTANTS
  BufferLength = 2
  Quantities = {1, 2, 3}
  MaxCalls = 3
  MaxWrites = 3
  MaxTransfers = 2
SPECIFICATION Spec
INVARIANTS  RequestIntact TransmissionIntact
CHECK_DEADLOCK FALSE
