SPECIFICATION Spec
CHECK_DEADLOCK FALSE

CONSTANTS
    deploy = deploy
    deploy2 = deploy2
    controller = controller
    operator = operator
    Clients <- AllClients
    Controllers <- OneController
    Operators <- OneOperator
    MaxTokens = 4

INVARIANT TypeOK
INVARIANT InsideOwns
INVARIANT MutualExclusion
INVARIANT NothingLeftBehind
PROPERTY OwnTokenOnly
PROPERTY RecoveryAudited
