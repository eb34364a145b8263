\* Decisions: two applications, ten messages, seven contexts, four settings, one retry.
SPECIFICATION Spec
CONSTANTS
    notes = notes
    mail = mail
    Apps = {notes, mail}
    NoApp = NoApp
    MaxRetries = 1
    Messages <- MCMessages
    Contexts <- MCContexts
    Gates <- MCGates
    Answers <- MCAnswers
    Settings <- MCSettings
CHECK_DEADLOCK FALSE
INVARIANTS TypeOK RiskyAsksFirst OnlyMentionedAppsOpened PlanCallsBounded DeclaredOnly
PROPERTY StepsKept
