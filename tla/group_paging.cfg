SPECIFICATION Spec
CONSTANTS
    a = a  b = b
    Users = {1, 2, 3, 4}
    Configured <- TwoGroups
    PageSize = 2
    Federated = {2}
    Allowed = {1, 2, 3}
    ChangeKinds = {"join", "leave", "delete"}
    MaxChanges = 2
INVARIANTS StableMembersFound ScopeIsSound
