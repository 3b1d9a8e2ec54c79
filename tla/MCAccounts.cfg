SPECIFICATION Spec
CONSTANTS
    h1 = h1
    h2 = h2
    u1 = u1
    u2 = u2
    p1 = p1
    p2 = p2
    t1 = t1
    t2 = t2
    None = None
    Garbled = Garbled
    Handlers = {h1, h2}
    MaxRequests = 3
    Users = {u1, u2}
    Passwords = {p1, p2}
    Chats = {t1, t2}
    MaxCodes = 2
    MaxSessions = 2
    MaxTokens = 2
    Forms <- MCForms
    Messages <- MCMessages
    Events = {"pr_created"}
    ToAdmins = {"pr_created"}
    FirstUsers <- MCFirstUsers
INVARIANTS TypeOK SingleUse SessionsCurrent InitialPasswordMustChange CodeLinksOnce RowsBeforeMessages
PROPERTIES DeleteKeepsAdmin
CHECK_DEADLOCK FALSE
