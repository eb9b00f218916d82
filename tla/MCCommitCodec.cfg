CONSTANTS
    Lba <- MCLba
    Header <- MCHeader
    Lengths <- MCLengths
    MaxCommits <- MCMaxCommits

SPECIFICATION Spec

INVARIANT TypeOK
INVARIANT ReadsCommitted
INVARIANT AllRead
