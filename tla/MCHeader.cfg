CONSTANTS
    UW = 16
    NameSize = 2
    PrefixSize = 3
    Fields <- MCFields
    Jobs <- MCJobs
SPECIFICATION Spec
INVARIANTS
    NumbersExact
    MembersExact
    OptionsObeyed
