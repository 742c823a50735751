SPECIFICATION Spec
CONSTANTS
    NameOrder <- MCNameOrder
    Nil = Nil
    Unset = Unset
    Self = "api"
    NgrokRelease = "ngrok"
    Inputs <- MCInputs
INVARIANTS RolloutTypeOK ValuesReachPods HostValuesInSecret AgentIsCurrent StartupWindow
PROPERTIES UnchangedKeepsPods
