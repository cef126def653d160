SPECIFICATION QuotationSpec
CONSTANTS
    inr = inr jpy = jpy s1 = s1 s2 = s2
    Null = Null
    Currency = {inr, jpy}
    WholeUnits = {jpy}
    Service = {s1, s2}
    Feature = {"colour", "song"}
    Mappable = {"colour"}
    Tier = {"0", "5+"}
    DefaultTier = "5+"
    MaxPrice = 200
    PolicyForms <- Policies
    ServiceForms <- Services
    PlanForms <- Plans
    FeatureForms <- Scores
    TestPrices <- Tests
    TestCurrency = inr
    Brief <- Briefs
    MaxEdits = 4
    MaxQuotes = 2
INVARIANTS AgreementIsForTheBrief
CHECK_DEADLOCK FALSE
