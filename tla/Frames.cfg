CONSTANTS
  broker = broker
  server = server
  Link = {broker, server}
  Sent <- SomeMessages
  StoredIn <- BrokerRemaindata
  Base = 3
  One = 1
  Zero = 0
  MaxRead = 10
SPECIFICATION FairSpec
CHECK_DEADLOCK FALSE
INVARIANTS
  ReceivedAsSent
PROPERTIES
  AllButLastReceived
