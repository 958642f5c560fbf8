SPECIFICATION Spec
CONSTANTS
    Quarter = 4
    Block = 2
    LoaderRead = 2
    SingleLoader = 1
    Cards <- MCCards
    Requests <- MCRequests
INVARIANT
    OfficialIsOfficial
