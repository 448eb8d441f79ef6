SPECIFICATION Spec
CONSTANTS
    Corpora <- SomeCorpora
    MaxRevision = 3
    TestFile <- SomeTestFiles
    Retrieved = {1, 2}
    Unruly = {"tests/test_docker.py"}
    DirOf <- SomeDirs
    OwnSpecs <- SomeSpecs
    MaxEvents = 1
    NoFile = NoFile
    Bare = Bare
INVARIANTS
    ManifestsDescribeCheckouts
    
    
