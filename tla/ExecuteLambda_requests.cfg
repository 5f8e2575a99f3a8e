\* Concurrent requests for two scripts of two projects, without a cache; rows
\* that change, go and move to the other project.
CONSTANTS
  Tasks = {t1, t2}
  s1 = s1
  s2 = s2
  p1 = p1
  p2 = p2
  lua = lua
  ScriptIds <- MCScriptIds
  BadId = BadId
  Projects <- MCProjects
  NullProject = NullProject
  Sources = {lua}
  Compilable = {lua}
  NoRow = NoRow
  NullScript = NullScript
  MaxCacheSize = 0
  MaxVersions = 2
SPECIFICATION MCSpec
INVARIANTS RejectedIsNotExecuted NotFoundAnswerIsHonest ExecutedIsRequested
PROPERTIES  ImplementsService
