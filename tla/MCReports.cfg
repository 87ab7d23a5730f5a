SPECIFICATION FairReports
CONSTANTS
    Reporters = {"console", "json", "collectd"}
    Walkers = {w1, w2}
    w1 = w1
    w2 = w2
    NoThread = NoThread
    HostLength = 9
    Metrics <- MCMetrics
    PluginLength <- MCPluginLength
    InstanceLength <- MCInstanceLength
    MaxUpdates = 2
    MaxClears = 1
    MaxReports = 2
INVARIANTS ReportInv ReportsWhole CountCoversSample
PROPERTY ReportsEnd
