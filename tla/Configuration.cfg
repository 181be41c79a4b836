\* Every file of MCConfiguration, read and refused or run.
SPECIFICATION Spec
CONSTANTS
    Files <- MCFiles
    Absent = Absent
    NoVlan = NoVlan
    NoName = NoName
INVARIANTS
    CfgTypeOK
PROPERTIES
    ReadsTheFile
    SecondReadingKeeps
CHECK_DEADLOCK FALSE
