---------------------------- MODULE KvStorageJson ---------------------------
(***************************************************************************)
(* KvStorage with the conversions of LuaJson: its values and texts are     *)
(* names, Content and TextContent tell what they name, and Serialized and  *)
(* Deserialized are what the serializer and the deserializer make of that. *)
(***************************************************************************)
EXTENDS KvStorage, LuaJson

CONSTANTS
  Content,     \* the Lua value that a member of Values names
  TextContent  \* the text that a member of Texts names

DepthOfValue(v) == Min({n \in 0 .. MaxDepth : v \in Level[n].value})
DepthOfText(text) == Min({n \in 0 .. MaxDepth : text \in Level[n].text})

\* ToString is called with the value on top of the arguments of store.
SerializedAs(v) ==
  LET r == SerializerToString(Content[v]) IN
  /\ Serialized[v].depth = DepthOfValue(Content[v])
  /\ Serialized[v].ok = r.ok
  /\ Serialized[v].top = StoreArguments + r.top
  /\ Serialized[v].peak = StoreArguments + r.peak
  /\ r.ok => TextContent[Serialized[v].value] = r.value

\* FromString is called when the arguments of the cast are gone.
DeserializedAs(type, text) ==
  LET r == FromString[<<type, TextContent[text]>>]
      d == Deserialized[<<type, text>>]
  IN  /\ d.depth = DepthOfText(TextContent[text])
      /\ d.ok = r.ok /\ d.top = r.top /\ d.peak = r.peak
      /\ \A v \in Values : r.ok /\ Content[v] = r.value => d.value = v

\* Plain values are nested as deep as the stack slots of a call allow.
ASSUME ConversionAssumption ==
  /\ Content \in [Values -> Level[MaxDepth].value]
  /\ TextContent \in [Texts -> Level[MaxDepth].text]
  /\ Types \subseteq LuaTypes
  /\ \A v \in Values : SerializedAs(v)
  /\ \A type \in Types, text \in Texts : DeserializedAs(type, text)
  /\ \A c \in Plain : /\ Content[c[2]] \in Level[MaxDepth].plain
                      /\ c[1] = Content[c[2]][1]
                      /\ Serialized[c[2]].depth <= SafeDepth

=============================================================================
