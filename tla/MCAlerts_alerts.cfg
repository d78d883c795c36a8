SPECIFICATION MCSpec
CONSTANTS
    Watch = {w1, w2}
    Channel = {"email"}
    Supported = {"email"}
    Scanner = {s1}
    Run = {r1}
    MaxAttempts = 2
    MaxWatches = 2
    Prompt = TRUE
    MaxReports = 4
    MaxReportsWide = 3
    MaxEvents = 2
    MaxFaults = 1
    None = None
 
 
PROPERTY OwedIsSettled
CHECK_DEADLOCK FALSE
