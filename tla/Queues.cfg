CONSTANTS
  p1 = p1
  p2 = p2
  main = main
  queuethread = queuethread
  sender = sender
  META = META
  COMPLETE = COMPLETE
  Pusher = {p1, p2}
  Poller = {main, queuethread}
  Sender = {sender}
  Sharings <- Shared
  Kind = {META, COMPLETE}
  TakenBy <- Looked
  Max = 2
  MaxPushes = 3
SPECIFICATION FairSpec
CHECK_DEADLOCK FALSE
INVARIANTS
  TypeOK
  AllWaitOnlyWhenFull
PROPERTIES
  PushReturns
  Mailbox
  MailboxFair
