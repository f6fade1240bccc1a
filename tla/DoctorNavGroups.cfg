\* The command never looks at the contributions.
SPECIFICATION Spec
CONSTANTS
    notes = notes
    other = other
    NotArray = NotArray
    Absent = Absent
    NoOptions = NoOptions
    ItemLists <- MCItemLists
    GroupLists <- MCGroupLists
INVARIANTS
    DoctorReportsNavGroups
