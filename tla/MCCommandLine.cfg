SPECIFICATION CommandSpec
CONSTANTS
  Report = {monday, tuesday}
  Sender = {shell, engine}
  MailLimit = 2
  Foreign = {elsewhere}
  Drafter = {draft_1, draft_2}
  Images = 1
  Scheduler = {"launchd", "run_now"}
  ByLaunchd = {"launchd"}
  DailyChild = {daily_1, daily_2}
INVARIANTS
  PublishedIsPushed
  DraftedOnce
PROPERTY NoResendUnasked
SYMMETRY Alike
ACTION_CONSTRAINT OneKind
