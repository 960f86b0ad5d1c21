\* One run: what it waits for ends whatever another run does.
CONSTANTS
  Runs = {r1}
  maxConcurrent = 1
  None = None
SPECIFICATION PromptSpec
PROPERTY EveryRunReports
