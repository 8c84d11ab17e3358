SPECIFICATION Spec
CONSTANTS
    Catalog <- MVPControlCatalog
    LegacyControls <- LegacyRuleControlKeys
    IdentityOf <- ResourceIdentityAttributes
    Unrestricted = {"0.0.0.0/0", "::/0"}
    Attempts = 2
    Rules <- MCRules
    Segments <- MCSegments
    Workers = {w1, w2}
    TypeOf <- MCTypeOf
    Governance = "governance"
    Configurations <- MCConfigurations
    Deployed <- MCDeployed
    MaxChanges = 1
    MaxReceives = 3
    Replies <- MCReplies
    Files <- MCFiles
    Documents <- MCDocuments
    RemediationPlans <- MCRemediationPlans
    None = None
SYMMETRY MCSymmetry
INVARIANTS AssessmentTypeOK StoreAgrees ResultsAreOfOneDelivery DriftIsOfStoredVerdicts ScoresAreOfEverythingPlanned VerificationMeasuresTheSame
PROPERTIES ComparisonStands
CHECK_DEADLOCK FALSE
