SPECIFICATION Spec
CONSTANTS
    main = main
    worker = worker
    submit = submit
    slot = slot
    other = other
    stream = stream
    Process <- MCProcess
    Thread <- MCThread
    Reader = {stream}
    ProcessOf <- MCProcessOf
    NoThread = NoThread
    Attempts = 2
    Limit = 2
    Drops = 1
    Submitter = submit
    Slots = {slot}
    Cancellers = {other}
    Finishers = {other}
    Reapers = {other}
    Progress = 1
    Endings = {"serving", "failed", "cancelled", "stopped"}
    Mortal = {worker}
CHECK_DEADLOCK FALSE
PROPERTIES EndsComplete
