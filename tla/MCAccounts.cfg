CONSTANT Clients = {c1, c2}
CONSTANT Emails <- MCEmails
CONSTANT Folded <- MCFolded
CONSTANT SchedulerEmail = "scheduler"
CONSTANT Seeded = {"manage_subscriptions", "manage_class_schedule"}
CONSTANT MaxPeople = 3
SPECIFICATION FairSpec
INVARIANT AccountsAreReachable
PROPERTY SchedulerIsReady
PROPERTY TransactionsEnd
CHECK_DEADLOCK FALSE
