CONSTANTS
    s1 = s1
    s2 = s2
    s3 = s3
    a1 = a1
    a2 = a2
    t1 = t1
    t2 = t2
    t3 = t3
    t4 = t4
    t5 = t5
    t6 = t6
    NoAccount = NoAccount
    Subjects = {s1, s2, s3}
    HasQueue = TRUE
    Tickets = {t1, t2, t3, t4, t5}
    Accounts = {a1, a2}
    SubjectOf <- SharedSubjects
    AccountOf <- SharedAccounts
    Total = 3
    SubjectLimit <- TwoPerSubject
    AccountLimit <- OnePerAccount
    QueueTotal = 5
    QueuePerSubject = 2
SPECIFICATION FairSpec
PROPERTIES
    NoIndefiniteOvertaking
