SPECIFICATION AndroidFairSpec
CONSTANT MaxFailures = 2
PROPERTY RemovalWins OneRefresh SetupSettles
