SPECIFICATION Spec
CONSTANTS
    find = find
    create = create
    stream = stream
    Names <- TwoNames
    Methods = {find, create, stream}
    Unsupported = {stream}
    Interfaces <- SmallInterfaces
    Configs <- SmallConfigs
    MaxEdits = 2
INVARIANT ForeignFileHasNoBackend
