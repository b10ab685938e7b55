\* A send() of more than maxSend with Botan
SPECIFICATION Spec
CONSTANTS
  Providers = {"botan"}
  MaxData = 2
  MaxRecords = 6
  MaxSend = 1
  BotanSizes = {2}
INVARIANT SentInTrunks
CHECK_DEADLOCK FALSE
