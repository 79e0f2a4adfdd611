\* Two users buying two names: wrong payments and lost acknowledgements, and
\* what mints bring in flushed to the treasury and to the master.
SPECIFICATION FairSpec
CONSTANTS
    alice = alice
    ali = ali
    Names <- MCNames
    Users = {u1, u2}
    QueryIds = {1}
    Price <- OddPrice
    Funds = 3
    Scenes <- MCScenes
    MaxMints = 2
INVARIANTS OneAnswer Solvent PaymentsAccounted
PROPERTIES MintOutcome EachDecided
CHECK_DEADLOCK FALSE
