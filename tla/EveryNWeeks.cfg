\* The instance of Services.cfg, and the claim of the docstring of Task.
CONSTANTS
  Tool = {"brain_query", "cancel_task", "escalate", "schedule_task", "sql_query", "web_search"}
  Alphabetical <- MCAlphabetical
  Known = {"brain_query", "cancel_task", "escalate", "schedule_task", "sql_query", "web_search"}
  Default = {"escalate", "web_search"}
  NonDisableable = {"escalate"}
  TaskTool = {"cancel_task", "schedule_task"}
  NoteTool = {}
  Template <- MCTemplate
  Service = {"brain", "database", "smtp"}
  ServiceOf <- MCServiceOf
  Required = {"smtp"}
  Supported = {"database"}
  CockpitEnv = {"brain"}
  Flag = {"image"}
  MaxForms = 2
  MaxStarts = 2
  Url = {"/", "/a", "/b", "/c", "/d"}
  Seed = "/"
  Web <- MCWeb
  SlugOf <- MCSlugOf
  Name = {"a"}
  MaxDepth = 2
  MaxPages = 4
  MaxIngests = 2
  MonthLength <- MCMonthLength
  FirstWeekday = 4
  FirstDue <- MCFirstDue
  Rule <- MCRule
  MaxFirings = 12
  Conversation = {c1, c2, c3}
  MaxConversations = 2
  MaxChanges = 1
  MaxLoads = 2
  MaxViews = 1
  Damage = FALSE
SPECIFICATION MCSpec
SYMMETRY MCSymmetry
INVARIANT
  EveryNWeeks
\* the instance stops when its pages, starts, crawls and firings are used up
CHECK_DEADLOCK FALSE
