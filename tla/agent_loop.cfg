CONSTANTS
  tool_search = tool_search
  read_file = read_file
  write_file = write_file
  jira_update = jira_update
  delegate_task = delegate_task
  ghost = ghost
  Registered = {tool_search, read_file, write_file, jira_update, delegate_task}
  CodingTools = {tool_search, read_file, write_file}
  Core = {tool_search, read_file, write_file, delegate_task}
  Untimed = {delegate_task}
  ReadOnly = {tool_search, read_file}
  ConcurrencySafe = {tool_search, read_file, jira_update}
  SearchTool = tool_search
  Unknown = ghost
  MaxRounds = 2
  MaxContinuations = 2
  MaxAttempts = 2
  MinKeep = 1
  CompressPercent = 50
  MaxBatch = 2
  MaxApprovals = 3
SPECIFICATION FairSpec
INVARIANTS
  EveryCallAnswered
  WritesAreApproved
  UnsafeRunsAlone
PROPERTY TurnEnds
