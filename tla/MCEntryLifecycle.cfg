SPECIFICATION Spec
CONSTANTS
    Agents = {agent}
    Options = {o1, o2}
    Servers = {server}
    Keys = {k1, None}
    Flows = {f1, f2}
    None = None
    V0Agent = agent
    V0Options = o1
    MaxReloads = 2
    MaxChanges = 2
SYMMETRY Symmetry
INVARIANTS
    TypeOK
    QuietEntryIsCurrent
    CreatedDistinct
PROPERTIES
    SavedReloadsOnce
    SavedAsProbed
