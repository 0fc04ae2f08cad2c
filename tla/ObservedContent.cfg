\* Dashboards, scrape jobs, alert rules, fields, log lines and actions.
SPECIFICATION ContentSpec
CONSTANTS
    NONE = NONE
    LokiNames <- MCLokiNames
    GrafanaNames <- MCGrafanaNames
    Boards <- MCBoards
    Collections <- MCCollections
    Applications <- MCApplications
    RuleSets <- MCRuleSets
    Providers <- MCProviders
    Texts <- MCTexts
    Sessions <- MCSessions
INVARIANTS
    PanelsKeepTheirMeaning
    DashboardsAreShownOnce
    TargetsAreScrapedOnce
    RulesAreLoaded
    FieldsAreFound
    SecretsAreMasked
    ActionsTellWhatHappened
CHECK_DEADLOCK FALSE
