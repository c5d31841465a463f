SPECIFICATION Spec
CONSTANTS
    Release <- Releases
    Source <- Sources
    Content <- Contents
    Collects <- WithCollector
    Legacy = {1}
    None = None
INVARIANT CommittedOrUndone
INVARIANT CollectorsSeeOneRelease
PROPERTY ReleasesAreAtomic
VIEW View
