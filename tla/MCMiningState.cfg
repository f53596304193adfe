SPECIFICATION Spec
CONSTANTS
    MaxJobs = 2
    Jobs = {j1, j2}
    Diffs = {d1, d2}
    Readers = {r1}
    MaxPublish = 5
    None = None
SYMMETRY Symmetry
INVARIANTS ExactJob LatestIsExact JobDiffOfSlot
PROPERTY RetainedJobsAreImmutable
