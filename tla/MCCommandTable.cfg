SPECIFICATION Spec
CONSTANTS
    c1 = c1
    c2 = c2
    c3 = c3
    c4 = c4
    c5 = c5
    c6 = c6
    Cell = {c1, c2, c3, c4, c5, c6}
    NULL = NULL
    Bucket = {1, 2}
    Module = {"stat.so", "commands.so", "comm_engine.so"}
    Absent = {"comm_engine.so"}
    Startup <- MCStartup
    Registered <- MCRegistered
    Level <- MCLevel
    Word = {"insmod", "rmmod", "ifconfig", "save", "who", "WHO", "Save", "nothing"}
    LowerCase <- MCLowerCase
    comm_hash_num <- MChash
    Privs <- MCPrivs
SYMMETRY MCSymmetry
INVARIANTS
    TableExact
    RunsNewest
