CONSTANTS
    Name = {n1}
    Conn = {c1, c2}
    MaxGen = 2
    DiskFaults = {"read"}
    Requests = {"leave", "serverend", "idle"}
    Crashes = TRUE
SPECIFICATION FairSpec
CHECK_DEADLOCK FALSE
PROPERTIES ConnectSettles SessionsAreClosed EmptyExits
