CONSTANTS
    Lba <- MCLba
    Header <- MCHeader
    Lengths <- MCLongLengths
    MaxCommits <- MCMaxCommits

SPECIFICATION Spec

INVARIANT AllRead
