\* Two executions, of scripts of one project or of two, write the same keys.
CONSTANTS
  Executions = {e1, e2}
  Projects = {p1, p2}
  NoProject = NoProject
  Keys = {"k"}
  Values = {"digit", "deep", "deeper", "noNum", "low", "badKey", "mixed"}
  Texts = {"digit", "deep", "deeper"}
  NoValue = NoValue
  Types = {"string", "number", "boolean", "table"}
  Serialized <- MCSerialized
  Deserialized <- MCDeserialized
  Plain <- MCPlain
  MaxLate = 1
  Words = {"true", "false", "null", "a", "b", "c", "f", "nul", "nan"}
  CString <- MCCString
  Numerals = {"1.0", "2.0", "8.0"}
  nan = nan
  Numbers <- MCNumbers
  Doubles <- MCDoubles
  Double <- MCDouble
  Written <- MCWritten
  Lexical <- MCLexical
  MaxDepth = 11
  Content <- MCContent
  TextContent <- MCTextContent
SPECIFICATION Spec
SYMMETRY Symmetry
INVARIANTS TypeOK ProjectsAreIsolated ReadYourWrites PlainValueComesBack StackStaysInFrame
