SPECIFICATION SupervisorSpec
CHECK_DEADLOCK FALSE
INVARIANT HopsAreCapped
CONSTANTS
  Section = {1, 2} MaxSections = 2 Agent = {a1, a2} Router = {} Word = {1}
  Questions = {{1}} Request = {k1, k2} Server = {v1, v2}
  NoAgent = noagent NoSection = nosection MaxHops = 1 MaxRuns = 2 MaxServerDeaths = 0
