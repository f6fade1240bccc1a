\* Every run of diagnose against a dev server that changes under it.
SPECIFICATION Spec
CONSTANTS
    notes = notes
    other = other
    NotArray = NotArray
    Absent = Absent
    NoOptions = NoOptions
    ItemLists <- MCItemLists
    GroupLists <- MCGroupLists
INVARIANTS
    PassesWereSeen
    ExitTells
    FirstFailing
