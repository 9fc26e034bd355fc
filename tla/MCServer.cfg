SPECIFICATION ServerSpec
CONSTANTS
    Uris = {u1}
    Sources = {s1, s2}
    Observers = {o1}
    Binders = {o1}
    Descriptor <- MCDescriptor
    MaxAccepts = 2
    MaxSends = 1
    MaxUnread = 0
    MaxBinds = 2
    MayShutdown = TRUE
SYMMETRY SourceSymmetry
INVARIANTS PostsFit SamePicture GoneClientsLeave StraysLeave ShutdownReturns
