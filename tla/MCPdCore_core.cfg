CONSTANTS
    card = card
    answer = answer
    NoEvent = NoEvent
    NoKey = NoKey
    Events = {card, answer}
    Answers <- MCAnswers
    Keys = {oldKey, newKey}
    Faults = {"noise", "send"}
SPECIFICATION FairSpec
INVARIANTS
    Ownership
    ParkedReplyAnswersLast
PROPERTIES
    EventOkMeansSent
    KeyCommitsOnAck
    EnforceHidesData
    EventsLeave
