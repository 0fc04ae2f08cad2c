CONSTANTS
    NONE = NONE  SLEEP = SLEEP  STOPPED = STOPPED  BAD = BAD
    forge = forge  mirror = mirror  relay = relay  proxyA = proxyA  proxyB = proxyB
    idp = idp  valkey1 = valkey1  valkey2 = valkey2  bucket = bucket  wikiA = wikiA  wikiB = wikiB
    NoKey = 0
    MaxKeys = 4
    Options <- AllOptions
    Deployed <- Everything
    MaxChanges = 2
    MaxFaults = 1
SPECIFICATION FairSpec
CHECK_DEADLOCK FALSE
INVARIANTS AssetsAreWithdrawn ShellboxKeysAgree SettingsAreServed
PROPERTIES EventuallyReflected
