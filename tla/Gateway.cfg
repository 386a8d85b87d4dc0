SPECIFICATION GatewaySpec
CONSTANTS
    MaxResult = 3
    DefaultPerPage = 2
    Wrap = 16
    Columns = {"type", "weight"}
    Fields = {"tags"}
    Values = {"a", "b"}
    Weight = "weight"
    Clients = {c1}
    Accounts = {u1}
    Names = {"ann", "bob"}
    Passwords = {"x", "y"}
    Ids = {1, 2, 3}
    Content <- ContentValue
    FirstAccounts <- FirstAccountsValue
    FirstNodes <- FirstNodesValue
    HttpForms <- HttpFormValues
    None = None
    Subject = 1
    Validity = 1
    MaxClock = 1
    MaxWrites = 2
    MaxChanges = 1
    MaxRequests = 2
    MaxPage = 3
CHECK_DEADLOCK FALSE
INVARIANTS
    GatewayTypeOK
    WalkAccurate
    SessionBacked
    OneAnswer
    WalkBounded
