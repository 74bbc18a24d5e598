SPECIFICATION Spec
CONSTANTS
  BOT_OF_HEAP = 4096
  TOP_OF_HEAP = 4352
  NUM_ALLOC_CHUNKS = 4
  Programs <- SomePrograms
INVARIANTS BlocksApart FreeIsCompact
CHECK_DEADLOCK FALSE
