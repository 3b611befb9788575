SPECIFICATION Spec
INVARIANTS
    OneAnswer
    LoggedAsSent
    SecuredNeedsPrincipal
    ContractAfterSecurity
PROPERTY
    NoFalseReject
