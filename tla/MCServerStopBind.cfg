SPECIFICATION ServerSpec
CONSTANTS
    Uris = {u1}
    Sources = {s1}
    Observers = {o1}
    Binders = {o1}
    Descriptor <- MCDescriptor
    MaxAccepts = 1
    MaxSends = 1
    MaxUnread = 1
    MaxBinds = 2
    MayShutdown = TRUE
INVARIANT ServerStops

