SPECIFICATION FairSpec
CONSTANTS
    none = none
    ItemsScopes <- MCItems
    CardsScopes <- MCCards
    MirrorScopes <- MCMirror
    FormsScopes <- MCForms
    GuildScopes <- MCGuild
    CallsScopes <- MCCalls
    PagesScopes <- MCPages
    AsksScopes <- MCAsks
    GoneScopes <- MCGone
    LimitScopes <- MCLimit
    MenusScopes <- MCMenus
INVARIANTS
    TypeOK
    GapIsSaid
    
    CardIsCurrent
    TurnAgrees
    RestAgrees
    RunsWhatItShows
    CancelIsTrue
    
    CursorsSkipNothing
    PageAgrees
    AnswersFit
    LockHolds
PROPERTIES
    CardKeepsItsTurn
    CardSettles
    
    DeletionHappens
CHECK_DEADLOCK FALSE
