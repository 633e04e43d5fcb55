SPECIFICATION Spec
CONSTANTS
    Importers = {"future", "backfill"}
    CommandOf <- MCCommandOf
    Schedules <- MCSchedules
    Statistics <- MCStatistics
    Stored <- MCStored
    StoredStats <- MCStoredStats
    ForwardSeason = 26
    FirstTick = 1
    MatureGames = 1
    DevelopmentFrom = 21
    DevelopmentTo = 24
    EarlyFrom = 22
    DevelopmentFolds <- MCDevelopmentFolds
    EarlyFolds <- MCEarlyFolds
    Policies <- MCPolicies
    MinimumRetention = 60
    EvidenceFolds <- MCEvidenceFolds
    Forecast <- MCForecast
    Measures <- MCMeasures
    Researchers = {"develop", "early", "holdout", "rebuild", "freeze", "x1", "x2"}
    ResearchOf <- MCResearchOf
    FolderOf <- MCFolderOf
    Predictors = {"p1", "p2", "p3"}
    RequestOf <- MCRequestOf
    WindowOpens = 3
    WindowCloses = 0
    Attempts = 3
    HomeProbability <- MCHomeProbability
    Threshold = 50
    Captures = {"c1", "c2", "c3"}
    DateOf <- MCDateOf
    Answers <- MCAnswers
    Drift = 1
    Scale = 100
    Evaluators = {"e1", "e2"}
    MinContributors = 2
    MaxReceiptLag = 2
    MaxEvaluationLag = 1
    Stale = 1
    Rounds = 3
    Crews <- MCRaceCrews
PROPERTY CompletedGamesStay
CHECK_DEADLOCK FALSE
