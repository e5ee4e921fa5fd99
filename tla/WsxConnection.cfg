(* One page, two sockets, one slot per connection. *)
SPECIFICATION ConnectionsSpec
CONSTANTS
  s1 = s1
  s2 = s2
  open1 = open1
  open2 = open2
  endless = endless
  ping = ping
  none = none
  Connections = {s1, s2}
  Pages = {page}
  Messages = {open1, open2, endless, ping}
  On <- SentOn
  Kind <- Kinds
  PageOf <- OnePage
  NeverReturns = {endless}
  MaxConcurrent = 1
INVARIANTS AssociationHolds
PROPERTIES RequestsAnswered ConnectionEnds
CHECK_DEADLOCK FALSE
