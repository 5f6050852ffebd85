SPECIFICATION CommunitySpec
CONSTANTS
    Users = {u1, u2}
    Polls = {p1}
    Options = {o1, o2}
    NoVote = NoVote
    Initiatives = {i1}
    Contacts = {c1, c2, c3}
    Categories = {water, gas}
    ContactLimit = 2
    Calls = {k1, k2, k3}
    Topics = {"polls", "initiatives", "contacts"}
SYMMETRY Symmetry
INVARIANTS
    PollAnswersAreTrue
    CategoriesAreLimited
PROPERTIES
    ClosedTakesNothing
