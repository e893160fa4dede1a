SPECIFICATION DSpec
CONSTANTS
    b1 = b1
    b2 = b2
    b3 = b3
    b4 = b4
    Block = {b1, b2, b3, b4}
    Nil = Nil
    dfile_hardload <- MChardload
    File = {"motd_msg", "room_msg", "rules"}
    Version = {"says"}
SYMMETRY MCSymmetry
INVARIANTS
    DataOwned
    SystemServed
    ReloadReachesAll
