\* One client with pages of one item, one waiter, two events among three notifications.
SPECIFICATION FairSpec
CONSTANTS
  Clients = {c1}
  Waiters = {w1}
  Latest = Latest
  limit = 1
  MaxEvents = 2
  MaxNotifications = 3
INVARIANTS
  TypeOK
  FeedExact
  NoSleepThroughCommit
PROPERTIES
  FeedCatchesUp
