SPECIFICATION Spec
CONSTANTS
    Employee = {e1, e2}
    Request = {q1, q2}
    Extension = {x1, x2}
    Type = {t1}
    Days = {1, 2}
    Grant = {0, 3}
    None = None
INVARIANT TypeOK
PROPERTIES BooksAreKept OverdrawnByApproval
SYMMETRY Symmetry
