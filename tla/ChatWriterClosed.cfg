CONSTANTS
    a = a
    b = b
    a1 = a1
    a2 = a2
    a3 = a3
    b1 = b1
    None = None
    Chats = {a, b}
    Jobs = {a1, a2, b1}
    ChatOf <- MCChatOf
    Workers = 1
    Pumped = {a}
    Impatient = {a1}
SPECIFICATION Spec
INVARIANTS NothingStartsAfterClose
CHECK_DEADLOCK FALSE
