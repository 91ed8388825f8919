SPECIFICATION FairSpec
CONSTANTS
    t1 = t1
    t2 = t2
    t3 = t3
    f1 = f1
    f2 = f2
    phone = phone
    laptop = laptop
    Families = {f1}
    Devices = {laptop}
    Tabs = {t1}
    DeviceOf <- OnLaptop
    MaxActive = 1
    MaxTokens = 2
    MaxQueued = 2
    Endings = {"logout", "one", "others", "reset", "staff", "deactivate", "suspend"}
    Losses = TRUE
    NoFamily = NoFamily
    NoDevice = NoDevice
CHECK_DEADLOCK FALSE
INVARIANT EndedIsOut
PROPERTIES RequestsSettle
