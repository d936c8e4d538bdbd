CONSTANTS
    r1 = r1
    r2 = r2
    r3 = r3
    r4 = r4
    r5 = r5
    u1 = u1
    u2 = u2
    NoTokens = NoTokens
    User = {u1, u2}
    Request = {r1, r5}
    Span = 1
    CleanupAfter = 1
    MaxTime = 2
    MaxSetBack = 1
    RetentionDays = 2
    MaxRecords = 1
    UserOf <- MCUserOf
    RateOf <- MCRateOf
    DailyOf <- MCDailyOf
    MonthlyOf <- MCMonthlyOf
    TokensOf <- MCTokensOf
    DateAt <- MCDateAt
    MonthStart <- MCMonthStart

SPECIFICATION AdmissionSpec
PROPERTY DailyQuotaEnforced
