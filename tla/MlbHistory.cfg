SPECIFICATION Spec
CONSTANTS
    DayTicks = 4
    Tolerance = 0
    Syncers = {"i1", "i2", "p1", "p2", "s1", "s2"}
    Rosters = {"s1", "s2"}
    RosterAnswers <- MCRosterAnswers
    KnownPlayers <- MCKnownPlayers
    StoredAssignments <- MCStoredAssignments
    Today <- MCToday
    Ingesters = {"i1", "i2"}
    DateOfIngest <- MCDate
    Reingest = {"i2"}
    SchedulesOf <- MCSchedulesOf
    BoxScores <- MCBoxScores
    StoredGames <- MCStoredGames
    StoredSources <- MCStoredSources
    StoredHistory <- MCStoredHistory
    Recoveries = {"r1"}
    DateOfRecovery <- MCDate
    AllowList <- MCAllowList
    TeamGameLimit = 2
    StartLimit = 1
    ShortWindow = 1
    Scale = 100
    SeasonTicks = 1000
    Missing = Missing
    Predictors = {"p1", "p2"}
    SlateDate = 6
    SlatesOf <- MCSlatesOf
    Trainers = {"t1"}
    BuildOf <- MCBuildOf
    InitialRows = 4
    BlockSize = 2
    TuningSplits = 2
    FirstTick = 25
    Horizon = 27
    Crews <- MCCrews
INVARIANTS OneTeamAtATime FoldsSeeThePast PackageIsWhole
PROPERTIES GuardedRecovery PredictedFromWholeHistory
CHECK_DEADLOCK FALSE
