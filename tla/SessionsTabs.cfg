SPECIFICATION Spec
CONSTANTS
    t1 = t1
    t2 = t2
    t3 = t3
    f1 = f1
    f2 = f2
    phone = phone
    laptop = laptop
    Families = {f1, f2}
    Devices = {laptop}
    Tabs = {t1, t2}
    DeviceOf <- OnLaptop
    MaxActive = 1
    MaxTokens = 2
    MaxQueued = 1
    Endings = {"password"}
    Losses = FALSE
    NoFamily = NoFamily
    NoDevice = NoDevice
CHECK_DEADLOCK FALSE
SYMMETRY AnyTabAnyFamily
INVARIANTS OneActiveRow ReuseNeedsDelay CapKept
