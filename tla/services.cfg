SPECIFICATION MCSpec
CONSTANTS
    Threads = {1, 2, 3, 4}
    GrantLimit = 2
    EventLimit = 4
    Caller = {"x", "y"}
    CallIds = {"a"}
    Sockets = 3
    TextEvents = 1
    WriteFaults = 1
    ClientIds = {"p"}
    Pids = {1}
    Providers = {"c", "r"}
    Booted = "c"
    Tries = 2
    Resets = 3
    Faults = 1
    Settings = 2
    Crashes = 2
    Toggles = 4
    Boots = 2
    Parts = {"bridge", "scope", "pages", "reads", "rows", "blobs", "edits", "tools", "config", "plugins", "headlines", "threads", "views", "codex", "codex tools", "claude", "claude text"}
INVARIANTS TypesOK CallsAreHonest ReachIsGiven StoresAgree AnsweredIsDone DriversAreHonest ThreadsAreTrue
PROPERTIES RevokedStaysRevoked
CHECK_DEADLOCK FALSE
