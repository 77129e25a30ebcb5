SPECIFICATION ApprovalSpec
CONSTANTS
    SignIns = {r1}
    OAuthStates = {"s1"}
INVARIANT EveryUseIsGated
