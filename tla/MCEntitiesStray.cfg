CONSTANTS
    a1 = a1
    MaxClients = 1
    MaxEntities = 4
    Accounts = {a1}
    NoAccount = NoAccount
SPECIFICATION Spec
PROPERTIES
    DeletesWhatIsShown
CHECK_DEADLOCK FALSE
