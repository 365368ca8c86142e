CONSTANTS
    newRut = newRut
    disabledRut = disabledRut
    Ruts = {newRut, disabledRut}
    Passwords = {chosen, demo}
    DemoPassword = demo
    DemoAccounts <- MCDemoAccounts
    Snapshot <- MCSnapshot
    Routes <- MCRoutes
    Requests = {r1, r2}
    NoAccount = NoAccount
    NoPassword = NoPassword
    NoJob = NoJob
SPECIFICATION Spec
SYMMETRY Symmetry
INVARIANT SurvivesRestart
