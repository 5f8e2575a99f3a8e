\* One cached node, two ids: fills, evictions and refreshes overlap, while a
\* row changes from one source to another or goes.
CONSTANTS
  Tasks = {t1, t2}
  ScriptIds = {s1, s2}
  Projects = {p}
  NullProject = NullProject
  Sources = {lua1, lua2}
  Compilable = {lua1, lua2}
  NoRow = NoRow
  NullScript = NullScript
  MaxCacheSize = 1
  MaxVersions = 2
SPECIFICATION Spec
SYMMETRY Symmetry
INVARIANTS TypeOK ServedScriptIsARow NotFoundIsHonest AnswerFreshness
