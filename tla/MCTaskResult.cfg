CONSTANTS
    Task = {t1, t2}
    TotalRetries = 1
SPECIFICATION Spec
PROPERTIES
    ResultIsHandled
CHECK_DEADLOCK FALSE
