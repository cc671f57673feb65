\* Two racing jobs with two inputs each, any overwrite flags, an output path
\* that is empty or already holds an archive.
CONSTANTS
    j1 = j1  j2 = j2
    Jobs <- MCJobs
    NumInputs = 2
SPECIFICATION Spec
SYMMETRY JobSymmetry
INVARIANT TypeOK
INVARIANT NoTmpLeak
INVARIANT OutputComplete
INVARIANT ResultTruthful
\* A batch of jobs ends once every job has returned or been dropped.
CHECK_DEADLOCK FALSE
