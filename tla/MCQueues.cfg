SPECIFICATION Spec
CONSTANTS
    MaxStalled = 1
    Forms = {f1, f2}
    Products = {"p1"}
    Worksheets <- MCWorksheets
    MaxRows = 2
    Sales = {s1}
    Recipients = {c1, c2}
    Mute = {c2}
INVARIANTS
    TypeOK
    RowsBookedOncePerRun ReportsTellTheBooks
    MailedOncePerRun
PROPERTIES FormsSettle CustomersAreTold
CHECK_DEADLOCK FALSE
