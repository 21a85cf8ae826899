SPECIFICATION Spec
CONSTANTS
    OfferIds = {o1, o2, o3}
    NoOffer = NoOffer
    MaxMade = 3
    MaxSets = 2
CONSTRAINT FewRequests
SYMMETRY Symmetry
INVARIANTS PlacesAgree SelectionsAgree FailsOnlyAfterAppDestroy SourcesAgree
CHECK_DEADLOCK FALSE
