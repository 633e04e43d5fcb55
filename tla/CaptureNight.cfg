\* The late-night capture, an operator's, a pregame task and a synchronization.
SPECIFICATION Spec
CONSTANTS
    DayTicks = 6
    Tolerance = 1
    WindowTicks = 3
    RetryTicks = 1
    WaitTicks = 1
    MinimumMigration = 33
    MaxAttempts = 2
    FirstFiring = 4
    Horizon = 6
    MaxEvents = 1
    RoleOf <- MCRoleOf
    Tasks <- MCTasks
    Manuals <- MCManuals
    Syncs <- MCSyncs
    Together <- MCTogether
    ScheduledAt <- MCScheduledAt
    DayOffset <- MCDayOffset
    Offers <- MCOffers
    Listings <- MCListings
INVARIANTS SingleSnapshot OwnSlate EarlyEntryOfOwnSnapshot OrientationKept BooksKept
PROPERTIES RetriesRepeatNothing TasksEnd
CHECK_DEADLOCK FALSE
