SPECIFICATION Spec
CONSTANTS
    MaxThreads = 3
    MaxTasks = 1
    Forks = 0
PROPERTIES
    SingleThreadedInShutdown
