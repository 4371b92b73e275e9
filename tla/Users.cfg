SPECIFICATION UsersSpec
CONSTANTS
    Slots = {s1, s2}
    Addresses = {"ann", "Ann", "admin"}
    Passwords = {"p", "q"}
    MaxUsers = 3
    MaxRequests = 4
    MaxRestarts = 1
    Kinds = {"signUp", "signIn", "create", "approve", "deactivate", "rename", "password", "remove", "read"}
    Tabs = {t1, t2}
    Users = {"ann"}
    Lines = {1, 2}
    MaxLogins = 2
    MaxSent = 3
INVARIANTS
    AccountsSafe
    SessionSafe
PROPERTIES
    LoaderEnds
CHECK_DEADLOCK FALSE
