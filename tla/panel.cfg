\* An administrator, a user whose name has a dot, and one browser with two tabs.
SPECIFICATION PanelSpec
CONSTANTS
    admin = admin
    dotted = dotted
    b1 = b1
    Names = {admin, dotted}
    AdminName = admin
    Dots <- MCDots
    Browsers = {b1}
    Tabs = {t1, t2}
    Owner <- MCOwner
    Shells = {s1}
    MaxSecrets = 2
SYMMETRY MCTabs
INVARIANTS PanelTypeOK OnlyAdminsChange
PROPERTIES LogoutSticks
