\* The nine migrations, run, reverted and run again by releases that add them in
\* batches, while the application stores rows and the seeder starts over.
SPECIFICATION Spec

CONSTANTS
    Failed = Failed
    Values <- SomeValues

INVARIANT TypeOK
INVARIANT SchemaMatches
INVARIANT RevertUndoes
PROPERTY FailuresExplained
