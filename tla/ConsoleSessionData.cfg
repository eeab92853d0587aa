\* An administrator and a viewer, two logins, two requests under way at once: one answer can
\* overtake another.  Under fairness, and so without symmetry.
SPECIFICATION FairSpec
CONSTANTS
    Users = {alice, bob}
    Admins = {alice}
    Tokens = {t1, t2}
    Pages = {pair}
    Standalone = {pair}
    Nobody = Nobody
    NoToken = NoToken
    NoPage = NoPage
    MaxRequests = 2
    MaxFaults = 1
    MaxChanges = 1
INVARIANTS
    SignedOutHoldsNothing
    DataOfThePersonShown
PROPERTIES
    DeadSessionIsNoticed
