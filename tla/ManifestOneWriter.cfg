SPECIFICATION Spec
SYMMETRY Symmetric
CONSTANTS
    Procs = {dag, api, ops}
    Writers = {dag}
    Values = {v1, v2}
    Inodes = {i1, i2, i3, i4}
    NoInode = NoInode
    Hole = Hole
    Torn = Torn
    Size = 2
INVARIANTS
    TypeOK
    LoadNotTorn
PROPERTIES
    ImplementsRegister
