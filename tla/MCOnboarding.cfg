SPECIFICATION FairSpec
CONSTANTS
    None = None
    e1 = e1
    w1 = w1
    Emails = {e1}
    OwnerEmail = e1
    Wallets = {w1}
    DemoWallet = w1
    Challenges = {h1}
    Tokens = {t1}
    MaxCodes = 2
    FailLimit = 2
    Keys = {k1}
    Agents = {a1, a2}
    Accounts = {x1, x2}
    MaxFaults = 1
INVARIANTS
    ActiveCodesAreFresh
    OneOwner
    ClaimSpentOnce
    FundedHasDeposit
PROPERTY
    DepositIsSeen
