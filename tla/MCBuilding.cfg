CONSTANTS
    Task = {a, b, c}
    Sequence = {q}
    MaxAdds = 3
SPECIFICATION AuthorSpec
INVARIANTS
    ReadyIsExact
    OrdersAreKept
CHECK_DEADLOCK FALSE
