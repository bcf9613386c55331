\* One client and an operator: one re-send, one poll, one busy retry, one
\* query slot of the relay, which the client's last request may still hold.
SPECIFICATION ClientFairSpec
CONSTANTS
  Clients = {client}
  Hosts = {operator}
  client = client
  operator = operator
  MaxCalls = 1
  MaxHeals = 1
  HealPolls = 1
  BusyRetries = 1
  ReadyPolls = 1
  QuerySlots = 1
  AuthSlots = 2
INVARIANTS ReplayBounded
PROPERTIES LatchEndsWait UnblockStopsLatched CallsEnd SlotsReturned
CHECK_DEADLOCK FALSE
