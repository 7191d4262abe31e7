CONSTANTS
    alice = alice
    bob = bob
    old = old
    new = new
    reader = reader
    writer = writer
    Ops = {1, 2, 3}
    Names = {alice, bob}
    Labels = {old, new}
    Roles = {reader, writer}
    DefaultRoles = {reader, writer}
    Tasks <- MCTasks
    FirstKeys = 2
    MaxOpenConns = 2
    None = None
SPECIFICATION MCSpec
CHECK_DEADLOCK FALSE
PROPERTIES
    StoreAnswers
