SPECIFICATION PipelineFairSpec
CONSTANTS
  Reqs = {r1}
  GlobalLimit = 2
  AuthLimit = 1
  AppStatuses = {400, 404}
INVARIANTS LogTellsAnswer OneRecord AnswersDressed HandlersGuarded RefusedForCause
PROPERTY AllAnswered
