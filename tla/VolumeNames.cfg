SPECIFICATION Spec
CONSTANTS
    ArrayIDs <- ShortIDs
    MaxName = 4
    MaxVolumes = 2
INVARIANT SpellingsAgree
INVARIANT ServiceNameLegal
INVARIANT ExportsKeptApart
