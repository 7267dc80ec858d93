\* Two merged, then one more merged or added, or one dropped
SPECIFICATION Spec
CONSTANTS
    Flows = {"refer_first", "subscribe_first", "notify_refer"}
    MaxUsers = 3
    MaxAsked <- TwoOrThree
    MaxCommands = 2
INVARIANTS
    TypeOK
    
    AnsweredOnce
PROPERTIES
    OwnAnswer
    EndedCloses
\* The controller is closed, or nothing happens any more.
CHECK_DEADLOCK FALSE
