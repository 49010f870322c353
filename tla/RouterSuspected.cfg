SPECIFICATION Spec
CONSTANTS
    Texts <- MCTexts
    Findings <- MCFindings
    AsksToShow = {}
    Rules <- MCRules
    Hits <- MCHits
    Keywords <- MCKeywords
    Confidences = {30, 60, 90}
    Config <- MCConfig
    Core <- MCCore
    Corrections <- MCCorrections
    Limits <- MCLimits
    MaxCases = 2
    MaxObjections = 2
    NoReport = NoReport
    NoCorrection = NoCorrection
    NoVerdict = NoVerdict
INVARIANT RiskIsOnlyRaised
