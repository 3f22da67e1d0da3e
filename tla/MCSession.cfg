SPECIFICATION Spec
CONSTANTS
    Callers = {p, q}
    None = None
    Texts <- MCTexts
    NameTypes <- MCNameTypes
    StructuredTypes <- MCStructuredTypes
    Candidates <- MCCandidates
    Encrypt <- MCEncrypt
    Plain <- MCPlain
    Detectable <- MCDetectable
SYMMETRY CallerSymmetry
INVARIANTS
    OneToOne
    RoundTrip
    NoRehydrationError
    RestoresWhatItReplaced
PROPERTIES
    ExhaustedByDistinctValues
    ImplementsLedger
