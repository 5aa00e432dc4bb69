SPECIFICATION Spec
CONSTANTS
    NoSlot = NoSlot
    Candidates = {c1}
    Complete = {}
    Requests = {r1, r2, r3}
    Slots = {s1}
    Times = {1}
    MaxCandidates = 1
    MaxBookings = 3
    MaxTurns = 1
SYMMETRY RequestSymmetry
INVARIANT OneActiveBooking
INVARIANT AssignedAsAsked
INVARIANT Inv
PROPERTY TransitionsAreLegal
PROPERTY RescheduledAreReplaced
PROPERTY RemindersAreDisplacedOnlyByOffersAndRepetition
CHECK_DEADLOCK FALSE
