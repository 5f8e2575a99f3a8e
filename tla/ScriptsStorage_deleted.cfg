\* A row that is deleted while its script is cached.
CONSTANTS
  Tasks = {t1, t2}
  ScriptIds = {s1}
  Projects = {p}
  NullProject = NullProject
  Sources = {lua}
  Compilable = {lua}
  NoRow = NoRow
  NullScript = NullScript
  MaxCacheSize = 1
  MaxVersions = 2
SPECIFICATION Spec
INVARIANTS DeletedScriptIsNotServed
