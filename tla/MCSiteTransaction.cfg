CONSTANTS
    r1 = r1
    r2 = r2
    r3 = r3
    r4 = r4
    Rows = {r1, r2, r3, r4}
    NoRow = NoRow
    Refers <- SomeRefers
    Slips = {"s1", "s2"}
    CatchesLoss = TRUE
SPECIFICATION SiteDbSpec
INVARIANT TransactionsAreWhole
