SPECIFICATION MCSpec
CONSTANTS
    Clients = {c1, c2}
    Objects = {o1, o2}
    Fds = {1, 2}
    Routes = {order, orderbook}
    MaxBroadcasts = 1
    MaxUnits = 3
    Names = {"root", "user"}
    Root = "root"
    Passwords = {p1}
    Urls = {"/", "/nowhere", "/register_new_user", "/login", "/add_account", "/set_active_account", "/add_activate_account", "/instrument_subscribe", "/position_list", "/account_list"}
    MaxRequests = 3
    Keys = {k1, k2}
    NoKey = nokey
    Instruments = {s, p}
    Spot = {s}
INVARIANTS PoolConserved OwnResponse RoutesKept AccountsAgree SubscriptionsKept
PROPERTIES RefusedChangesNothing
SYMMETRY Symmetry
