SPECIFICATION AuthoritySpec
CONSTANTS
    Transactions = {t1, t2}
    None = None
    MaxEpoch = 3
INVARIANTS
    AdmittedEpochIsCurrent
PROPERTIES
    EpochsNeverGoBack
    AdvancesAreNeverLost
