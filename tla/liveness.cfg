SPECIFICATION FairSpec
CONSTANTS
    Job = {j1}
    Groups = 1
    Worker = {w1, w2}
    Mortal = {w1}
    NoWorker = NoWorker
    NoJob = NoJob
    Cold = {}
    Faults = {"stream", "poll", "kill"}
    Cancels = {}
    Stops = {}
PROPERTIES RunningEnds ExitedIsDeregistered
