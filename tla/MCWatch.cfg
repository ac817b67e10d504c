SPECIFICATION Spec
CONSTANTS
    r1 = r1
    r2 = r2
    Receivers = {r1, r2}
    FirstReceiver = r1
    Sender = Sender
    Nobody = Nobody
    MaxVersion = 3
INVARIANTS TypeOK NoLostWakeup NeverBehind RefusedMeansNobody
PROPERTIES ImplementsWatch AnswersOwed
CHECK_DEADLOCK FALSE
