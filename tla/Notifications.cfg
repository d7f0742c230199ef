SPECIFICATION FairSpec
CONSTANTS
  ada = ada
  max = max
  e1 = e1
  Event = {e1}
  User = {ada, max}
  Admins = {ada}
  Leasers = {max}
  NoEvent = NoEvent
  MaxStall = 1
  MaxCrashes = 2
CHECK_DEADLOCK FALSE
INVARIANTS
  TypeOK
  ToldOnce
  DeliveryInOrder
  MailedBoundedly
PROPERTIES
  InboxSpec
  EventsSettle
