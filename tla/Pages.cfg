SPECIFICATION Spec
CONSTANTS
    Slots = {t1, t2}
    Places = {p1, p2}
    Notes = {n1}
    Sessions = {s1}
    Phones = {f1}
    BarePhones = {f1}
    Passwords = {k1}
    UserIds = {u1}
    Admins = {Ana}
    SuperAdmins = {Root}
    SuperAdmin = TRUE
    ListedCompanies = {1, 2}
    OwnCompanies = {1}
    PageSize = 1
    MaxTotal = 2
    MaxCalls = 2
    MaxCompanies = 1
    MaxContacts = 2
    MaxRequests = 1
    MaxVisits = 2
    MaxClicks = 1
    Pieces = 2
    None = None
INVARIANTS
    ListsStayPrivate
    SpinnersAreAwaited
    FormIsOfContact
    RequestingIsAwaited
    BusyIsAwaited
    NotesAreNotLost
    NotesStayInTheirChat
    InputIsAwaited
PROPERTIES
    DeletedAccountStaysDeleted
SYMMETRY Alike
CHECK_DEADLOCK FALSE
