\* One task and one page, three environments, four pasts, two saves.
CONSTANTS
  Missing = Missing
  Unreadable = Unreadable
  Unread = Unread
  Cap = 2
  Secrets = {"key", "envkey", "new"}
  SealedTexts <- SomeTexts
  Sealed <- SomeSealed
  Tasks = {w1}
  Pages = {a1}
  Environments <- SomeEnvironments
  Histories <- SomeHistories
  Edits <- SomeEdits
  MaxVersions = 5
SPECIFICATION SettingsSpec
INVARIANTS UsesCurrent SecretShownIsUsed OneNotionOfComplete
PROPERTY ResaveChangesNothing
CHECK_DEADLOCK FALSE
