SPECIFICATION Spec
CONSTANTS
    Pods = {n1, n2, n3}
    Namespaces = {a, b}
    Home <- MCHome
    Flags <- MCFlags
    a = a
    b = b
    n1 = n1
    n2 = n2
    n3 = n3
INVARIANTS
    AllCounted
