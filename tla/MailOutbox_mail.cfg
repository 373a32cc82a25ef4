CONSTANTS
    Mails = {1, 2, 3}
    Senders = {s1, s2}
    People = {p1}
    MaxWaiting = 1
    MaxWaitingForTest = 0
    BatchSize = 2
    MaxAttempts = 2
    MaxDays = 1
    MaxEdits = 1
    MaxFaults = 1
    MaxRestarts = 1
SPECIFICATION Explore
INVARIANTS MailTypeOK WaitingIsBounded TriesAreBounded CopiesAreBounded SendingIsHandled OneDigestADay
PROPERTY MailsEnd
CHECK_DEADLOCK FALSE
