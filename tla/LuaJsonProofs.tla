---------------------------- MODULE LuaJsonProofs ---------------------------
(***************************************************************************)
(* The conversions of LuaJson, for every value, text and depth: they are   *)
(* recursive functions on values by how deep these are nested, so a claim  *)
(* about all of them follows by induction over the depth.  First that the  *)
(* functions are what their definitions say, then how far the conversions  *)
(* move the stack, then that a value comes back from its text, and at last *)
(* what this means for KvStorage.                                          *)
(***************************************************************************)
EXTENDS KvStorageJson, KvStorageProofs, SequenceTheorems, WellFoundedInduction

\* Induction over the naturals, from their well-foundedness.
LEMMA NatInductionOnSet ==
  ASSUME NEW G, 0 \in G, \A n \in Nat : n \in G => n + 1 \in G
  PROVE  Nat \subseteq G
<1> SUFFICES ASSUME Nat \ G # {} PROVE FALSE
  OBVIOUS
<1>1. PICK n \in Nat \ G : \A m \in Nat \ G : <<m, n>> \notin OpToRel(<, Nat)
  BY NatLessThanWellFounded, WFMin
<1>2. \A m \in Nat \ G : ~(m < n)
  BY <1>1 DEF OpToRel
<1>3. QED
  BY <1>2

\* The part of the assumption that most steps need.
LEMMA DepthIsNatural == MaxDepth \in Nat
BY JsonAssumption

\* What a step of a bounded recursion reaches.
LEMMA DepthInduction ==
  ASSUME NEW G, 0 \in G, \A n \in 0 .. (MaxDepth - 1) : n \in G => n + 1 \in G
  PROVE  0 .. MaxDepth \subseteq G
<1> DEFINE H == {n \in Nat : n <= MaxDepth => n \in G}
<1>1. MaxDepth \in Nat
  BY DepthIsNatural
<1>2. 0 \in H
  OBVIOUS
<1>3. ASSUME NEW n \in Nat, n \in H PROVE n + 1 \in H
  BY <1>1, <1>3
<1>4. Nat \subseteq H
  <2> HIDE DEF H
  <2>1. QED
    BY <1>2, <1>3, NatInductionOnSet
<1>5. QED
  BY <1>1, <1>4

\* A level is made from the one below.
LEMMA LevelEquation ==
  \A n \in 0 .. MaxDepth : Level[n] = IF n = 0 THEN Flat ELSE Nested(Level[n - 1])
<1> DEFINE IsLevel(g, n) == g = [m \in 0 .. n |-> IF m = 0 THEN Flat ELSE Nested(g[m - 1])]
           G == {n \in Nat : \E g : IsLevel(g, n)}
<1>1. 0 \in G
  <2>1. IsLevel([m \in 0 .. 0 |-> Flat], 0)
    OBVIOUS
  <2> HIDE DEF IsLevel
  <2>2. QED
    BY <2>1
<1>2. ASSUME NEW n \in Nat, n \in G PROVE n + 1 \in G
  <2>1. PICK g : IsLevel(g, n)
    BY <1>2
  <2> DEFINE h == [m \in 0 .. (n + 1) |-> IF m = 0 THEN Flat ELSE Nested(g[m - 1])]
  <2>2. ASSUME NEW m \in 0 .. n PROVE h[m] = g[m]
    BY <2>1
  <2>3. \A m \in 0 .. (n + 1) : m # 0 => m - 1 \in 0 .. n
    OBVIOUS
  <2>4. IsLevel(h, n + 1)
    BY <2>2, <2>3
  <2> HIDE DEF IsLevel, h
  <2>5. QED
    BY <2>4
<1>3. MaxDepth \in G
  <2> HIDE DEF G
  <2>1. QED
    BY <1>1, <1>2, NatInductionOnSet, DepthIsNatural
<1>4. IsLevel(Level, MaxDepth)
  <2>1. \E g : IsLevel(g, MaxDepth)
    BY <1>3
  <2>2. Level = CHOOSE g : IsLevel(g, MaxDepth)
    BY DEF Level
  <2> HIDE DEF IsLevel
  <2>3. QED
    BY <2>1, <2>2
<1>5. QED
  BY <1>4

\* Sequences of more elements are more sequences.
LEMMA SeqMonotone ==
  ASSUME NEW S, NEW T, S \subseteq T
  PROVE  Seq(S) \subseteq Seq(T)
<1> SUFFICES ASSUME NEW s \in Seq(S) PROVE s \in Seq(T)
  OBVIOUS
<1>1. QED
  OBVIOUS

\* What is made from more is more.
LEMMA NestedMonotone ==
  ASSUME NEW a, NEW b, a.text \subseteq b.text, a.value \subseteq b.value
  PROVE  /\ NestedText(a) \subseteq NestedText(b)
         /\ Nested(a).text \subseteq Nested(b).text
         /\ Nested(a).value \subseteq Nested(b).value
<1>1. Json(a.text) \subseteq Json(b.text) /\ Scalar(a.text) \subseteq Scalar(b.text)
  BY DEF Json, Scalar
<1>2. /\ Seq(Json(a.text)) \subseteq Seq(Json(b.text))
      /\ Seq(a.text \X Json(a.text)) \subseteq Seq(b.text \X Json(b.text))
      /\ Seq(Scalar(a.text) \X a.value) \subseteq Seq(Scalar(b.text) \X b.value)
  <2>1. a.text \X Json(a.text) \subseteq b.text \X Json(b.text)
    BY <1>1
  <2>2. Scalar(a.text) \X a.value \subseteq Scalar(b.text) \X b.value
    BY <1>1
  <2>3. QED
    BY <1>1, <2>1, <2>2, SeqMonotone
<1>3. NestedText(a) \subseteq NestedText(b)
  BY <1>2 DEF NestedText
<1>4. Scalar(NestedText(a)) \subseteq Scalar(NestedText(b))
  BY <1>3 DEF Scalar
<1>5. QED
  BY <1>2, <1>3, <1>4 DEF Nested

\* The fields of a level.
LEMMA LevelFields ==
  /\ Level[0].text = Basic /\ Level[0].value = Scalar(Basic) /\ Level[0].plain = PlainScalar(Basic)
  /\ \A n \in 0 .. (MaxDepth - 1) :
       LET below == Level[n] IN
       /\ Level[n + 1].text = NestedText(below)
       /\ Level[n + 1].value = Scalar(Level[n + 1].text)
                                 \cup ({"table"} \X Seq(Scalar(below.text) \X below.value))
       /\ Level[n + 1].plain = PlainScalar(Level[n + 1].text)
                                 \cup ({"table"} \X (PlainEntries(below) \ {<<>>}))
<1>1. /\ 0 \in 0 .. MaxDepth
      /\ \A n \in 0 .. (MaxDepth - 1) : n + 1 \in 0 .. MaxDepth /\ (n + 1) - 1 = n /\ n + 1 # 0
  BY DepthIsNatural
<1>2. Level[0] = Flat /\ \A n \in 0 .. (MaxDepth - 1) : Level[n + 1] = Nested(Level[n])
  BY <1>1, LevelEquation
<1>3. Flat.text = Basic /\ Flat.value = Scalar(Basic) /\ Flat.plain = PlainScalar(Basic)
  BY DEF Flat
<1>4. ASSUME NEW below
      PROVE  /\ Nested(below).text = NestedText(below)
             /\ Nested(below).value = Scalar(NestedText(below))
                                        \cup ({"table"} \X Seq(Scalar(below.text) \X below.value))
             /\ Nested(below).plain = PlainScalar(NestedText(below))
                                        \cup ({"table"} \X (PlainEntries(below) \ {<<>>}))
  BY DEF Nested
<1>5. ASSUME NEW n \in 0 .. (MaxDepth - 1)
      PROVE  /\ Level[n + 1].text = NestedText(Level[n])
             /\ Level[n + 1].value = Scalar(NestedText(Level[n]))
                                       \cup ({"table"} \X Seq(Scalar(Level[n].text) \X Level[n].value))
             /\ Level[n + 1].plain = PlainScalar(NestedText(Level[n]))
                                       \cup ({"table"} \X (PlainEntries(Level[n]) \ {<<>>}))
  <2>1. Level[n + 1] = Nested(Level[n])
    BY <1>2
  <2>2. QED
    BY <1>4, <2>1, Zenon
<1>6. QED
  BY <1>2, <1>3, <1>5, Zenon

\* What is nested n deep counts as nested n + 1 deep.
LEMMA LevelsGrow ==
  \A n \in 0 .. (MaxDepth - 1) : /\ Level[n].text \subseteq Level[n + 1].text
                                 /\ Level[n].value \subseteq Level[n + 1].value
<1> DEFINE Grows(n) == n < MaxDepth => /\ Level[n].text \subseteq Level[n + 1].text
                                       /\ Level[n].value \subseteq Level[n + 1].value
           G == {n \in 0 .. MaxDepth : Grows(n)}
<1>1. 0 \in G
  <2>1. Basic \subseteq NestedText(Level[0])
    BY DEF NestedText
  <2>2. 0 \in 0 .. MaxDepth /\ (0 < MaxDepth => 0 \in 0 .. (MaxDepth - 1))
    BY DepthIsNatural
  <2>3. ASSUME 0 < MaxDepth
        PROVE  Level[0].text \subseteq Level[0 + 1].text /\ Level[0].value \subseteq Level[0 + 1].value
    <3>1. /\ Level[0].text = Basic /\ Level[0].value = Scalar(Basic)
          /\ Level[0 + 1].text = NestedText(Level[0])
          /\ Scalar(NestedText(Level[0])) \subseteq Level[0 + 1].value
      BY <2>2, <2>3, LevelFields
    <3>2. Scalar(Basic) \subseteq Scalar(NestedText(Level[0]))
      BY <2>1 DEF Scalar
    <3>3. QED
      BY <2>1, <3>1, <3>2
  <2>4. QED
    BY <2>2, <2>3
<1>2. ASSUME NEW n \in 0 .. (MaxDepth - 1), n \in G PROVE n + 1 \in G
  <2>1. Level[n].text \subseteq Level[n + 1].text /\ Level[n].value \subseteq Level[n + 1].value
    BY <1>2, DepthIsNatural
  <2>2. n + 1 \in 0 .. MaxDepth
    BY DepthIsNatural
  <2>3. ASSUME n + 1 < MaxDepth
        PROVE  Level[n + 1] = Nested(Level[n]) /\ Level[(n + 1) + 1] = Nested(Level[n + 1])
    <3>1. n + 1 \in 0 .. MaxDepth /\ (n + 1) + 1 \in 0 .. MaxDepth
          /\ (n + 1) - 1 = n /\ ((n + 1) + 1) - 1 = n + 1 /\ n + 1 # 0 /\ (n + 1) + 1 # 0
      BY <2>3, DepthIsNatural
    <3>2. QED
      BY <3>1, LevelEquation
  <2>4. QED
    BY <2>1, <2>2, <2>3, NestedMonotone
<1>3. 0 .. MaxDepth \subseteq G
  <2> HIDE DEF G
  <2>1. QED
    BY <1>1, <1>2, DepthInduction
<1>4. QED
  BY <1>3, DepthIsNatural

\* All levels are in the last.
LEMMA LevelsAreBounded ==
  \A n \in 0 .. MaxDepth : /\ Level[n].text \subseteq Level[MaxDepth].text
                           /\ Level[n].value \subseteq Level[MaxDepth].value
<1> DEFINE Within(n) == /\ Level[n].text \subseteq Level[MaxDepth].text
                        /\ Level[n].value \subseteq Level[MaxDepth].value
           G == {k \in 0 .. MaxDepth : Within(MaxDepth - k)}
<1>1. 0 \in G
  BY DepthIsNatural
<1>2. ASSUME NEW k \in 0 .. (MaxDepth - 1), k \in G PROVE k + 1 \in G
  <2>1. MaxDepth - (k + 1) \in 0 .. (MaxDepth - 1) /\ (MaxDepth - (k + 1)) + 1 = MaxDepth - k
        /\ k + 1 \in 0 .. MaxDepth
    BY DepthIsNatural
  <2>2. /\ Level[MaxDepth - (k + 1)].text \subseteq Level[MaxDepth - k].text
        /\ Level[MaxDepth - (k + 1)].value \subseteq Level[MaxDepth - k].value
    BY <2>1, LevelsGrow
  <2>3. Within(MaxDepth - k)
    BY <1>2
  <2>4. Within(MaxDepth - (k + 1))
    BY <2>2, <2>3
  <2>5. QED
    BY <2>1, <2>4
<1>3. 0 .. MaxDepth \subseteq G
  <2> HIDE DEF G
  <2>1. QED
    BY <1>1, <1>2, DepthInduction
<1>4. ASSUME NEW n \in 0 .. MaxDepth PROVE Within(n)
  <2>1. MaxDepth - n \in 0 .. MaxDepth /\ MaxDepth - (MaxDepth - n) = n
    BY DepthIsNatural
  <2>2. QED
    BY <1>3, <2>1
<1>5. QED
  BY <1>4

-----------------------------------------------------------------------------
\* All does nothing but make TLC evaluate a sequence.
LEMMA AllIsItself ==
  ASSUME NEW S, NEW s \in Seq(S) PROVE All(s) = s
<1>1. Len(s) \in Nat /\ (Len(s) < 1 => s = <<>>)
  BY EmptySeq
<1>2. All(s) = SubSeq(s, 1, Len(s))
  BY DEF All
<1>3. QED
  BY <1>1, <1>2, SubSeqProperties

\* What a table holds is nested less deep.
LEMMA EntriesOfValue ==
  ASSUME NEW n \in 0 .. MaxDepth, NEW v \in Level[n].value, v[1] = "table"
  PROVE  /\ n > 0
         /\ v[2] \in Seq(Scalar(Level[n - 1].text) \X Level[n - 1].value)
<1>1. \A T : v \in Scalar(T) => v[1] # "table"
  BY DEF Scalar, Booleans
<1>2. n # 0
  <2>1. Level[0].value = Scalar(Basic)
    BY LevelFields
  <2>2. QED
    BY <1>1, <2>1
<1>3. n - 1 \in 0 .. (MaxDepth - 1) /\ (n - 1) + 1 = n /\ n > 0
  BY <1>2, DepthIsNatural
<1>4. Level[n].value = Scalar(Level[n].text)
                         \cup ({"table"} \X Seq(Scalar(Level[n - 1].text) \X Level[n - 1].value))
  BY <1>3, LevelFields
<1>5. QED
  BY <1>1, <1>3, <1>4

\* ToValue depends only on its results for what the value holds.
LEMMA ToValueAgrees ==
  ASSUME NEW v, NEW g, NEW h,
         v[1] = "table" => \A i \in 1 .. Len(v[2]) : g[v[2][i][2]] = h[v[2][i][2]]
  PROVE  ToValueFrom(v, g) = ToValueFrom(v, h)
<1>1. CASE v[1] = "table"
  <2>1. [i \in 1 .. Len(v[2]) |-> g[v[2][i][2]]] = [i \in 1 .. Len(v[2]) |-> h[v[2][i][2]]]
    BY <1>1
  <2>2. ValuesOf(v[2], g) = ValuesOf(v[2], h)
    BY <2>1 DEF ValuesOf
  <2>3. QED
    BY <1>1, <2>2 DEF ToValueFrom
<1>2. CASE v[1] # "table"
  BY <1>2 DEF ToValueFrom
<1>3. QED
  BY <1>1, <1>2

\* ToValue is what its definition says: there is such a function at each level.
LEMMA ToValueEquation ==
  \A v \in Level[MaxDepth].value : ToValue[v] = ToValueFrom(v, ToValue)
<1> DEFINE IsToValue(g, n) == g = [v \in Level[n].value |-> ToValueFrom(v, g)]
           G == {n \in 0 .. MaxDepth : \E g : IsToValue(g, n)}
<1>1. ASSUME NEW n \in 0 .. MaxDepth, NEW g,
             n > 0 => IsToValue(g, n - 1)
      PROVE  \E h : IsToValue(h, n)
  <2> DEFINE h == [v \in Level[n].value |-> ToValueFrom(v, g)]
  <2>1. ASSUME NEW v \in Level[n].value PROVE ToValueFrom(v, g) = ToValueFrom(v, h)
    <3>1. ASSUME v[1] = "table", NEW i \in 1 .. Len(v[2])
          PROVE  g[v[2][i][2]] = h[v[2][i][2]]
      <4>1. n > 0 /\ v[2] \in Seq(Scalar(Level[n - 1].text) \X Level[n - 1].value)
        BY <3>1, EntriesOfValue
      <4>2. v[2][i] \in Scalar(Level[n - 1].text) \X Level[n - 1].value
        BY <4>1
      <4>3. v[2][i][2] \in Level[n - 1].value
        BY <4>2
      <4>4. v[2][i][2] \in Level[n].value
        <5>1. n - 1 \in 0 .. (MaxDepth - 1) /\ (n - 1) + 1 = n
          BY <4>1, DepthIsNatural
        <5>2. QED
          BY <4>3, <5>1, LevelsGrow
      <4>5. g[v[2][i][2]] = ToValueFrom(v[2][i][2], g)
        BY <1>1, <4>1, <4>3
      <4>6. QED
        BY <4>4, <4>5
    <3> HIDE DEF h
    <3>2. QED
      BY <3>1, ToValueAgrees
  <2>2. IsToValue(h, n)
    BY <2>1
  <2> HIDE DEF IsToValue, h
  <2>3. QED
    BY <2>2
<1>2. 0 \in G
  <2>1. 0 \in 0 .. MaxDepth
    BY DepthIsNatural
  <2> HIDE DEF IsToValue
  <2>2. QED
    BY <1>1, <2>1
<1>3. ASSUME NEW n \in 0 .. (MaxDepth - 1), n \in G PROVE n + 1 \in G
  <2>1. n + 1 \in 0 .. MaxDepth /\ (n + 1) - 1 = n
    BY DepthIsNatural
  <2>2. PICK g : IsToValue(g, n)
    BY <1>3
  <2> HIDE DEF IsToValue
  <2>3. \E h : IsToValue(h, n + 1)
    BY <1>1, <2>1, <2>2
  <2>4. QED
    BY <2>1, <2>3
<1>4. MaxDepth \in G
  <2> HIDE DEF G
  <2>1. QED
    BY <1>2, <1>3, DepthInduction, DepthIsNatural
<1>5. IsToValue(ToValue, MaxDepth)
  <2>1. \E g : IsToValue(g, MaxDepth)
    BY <1>4
  <2>2. ToValue = CHOOSE g : IsToValue(g, MaxDepth)
    BY DEF ToValue
  <2> HIDE DEF IsToValue
  <2>3. QED
    BY <2>1, <2>2
<1>6. QED
  BY <1>5

-----------------------------------------------------------------------------
\* What texts there are.
LEMMA KindsOfText ==
  ASSUME NEW n \in 0 .. MaxDepth, NEW text \in Level[n].text
  PROVE  \/ text[1] = "word" /\ text[2] \in Words /\ text = <<"word", text[2]>>
         \/ text[1] = "numeral" /\ text[2] \in Numerals /\ text = <<"numeral", text[2]>>
         \/ /\ n > 0 /\ text[1] = "array" /\ text = <<"array", text[2]>>
            /\ text[2] \in Seq(Json(Level[n - 1].text))
         \/ /\ n > 0 /\ text[1] = "object" /\ text = <<"object", text[2]>>
            /\ text[2] \in Seq(Level[n - 1].text \X Json(Level[n - 1].text))
<1>1. CASE text \in Basic
  BY <1>1 DEF Basic
<1>2. CASE text \notin Basic
  <2>1. Level[0].text = Basic
    BY LevelFields
  <2>2. n - 1 \in 0 .. (MaxDepth - 1) /\ (n - 1) + 1 = n /\ n > 0
    BY <1>2, <2>1, DepthIsNatural
  <2>3. Level[n].text = NestedText(Level[n - 1])
    BY <2>2, LevelFields
  <2>4. QED
    BY <1>2, <2>2, <2>3 DEF NestedText
<1>3. QED
  BY <1>1, <1>2

\* What a text holds is nested less deep.
LEMMA MembersOfText ==
  ASSUME NEW n \in 0 .. MaxDepth, NEW text \in Level[n].text
  PROVE  /\ Len(Members(text)) > 0 => n > 0
         /\ n > 0 => Members(text) \in Seq(Json(Level[n - 1].text))
         /\ \A i \in 1 .. Len(Members(text)) : n > 0 /\ Members(text)[i] \in Json(Level[n - 1].text)
         /\ text[1] = "array" => Members(text) = text[2]
         /\ text[1] = "object" => /\ Len(Members(text)) = Len(text[2])
                                  /\ \A i \in 1 .. Len(text[2]) :
                                       /\ text[2][i] = <<text[2][i][1], Members(text)[i]>>
                                       /\ text[2][i][1] \in Level[n - 1].text
<1>1. CASE text[1] \in {"word", "numeral"}
  <2>1. Members(text) = <<>>
    BY <1>1 DEF Members
  <2>2. QED
    BY <1>1, <2>1
<1>2. CASE text[1] = "array"
  <2>1. Members(text) = text[2]
    BY <1>2 DEF Members
  <2>2. n > 0 /\ text[2] \in Seq(Json(Level[n - 1].text))
    BY <1>2, KindsOfText
  <2>3. QED
    BY <1>2, <2>1, <2>2
<1>3. CASE text[1] = "object"
  <2>1. Members(text) = [i \in 1 .. Len(text[2]) |-> text[2][i][2]]
    BY <1>3 DEF Members
  <2>2. n > 0 /\ text[2] \in Seq(Level[n - 1].text \X Json(Level[n - 1].text))
    BY <1>3, KindsOfText
  <2>3. Len(text[2]) \in Nat
    BY <2>2
  <2>4. ASSUME NEW i \in 1 .. Len(text[2])
        PROVE  /\ text[2][i] = <<text[2][i][1], text[2][i][2]>>
               /\ text[2][i][1] \in Level[n - 1].text
               /\ text[2][i][2] \in Json(Level[n - 1].text)
    <3>1. text[2][i] \in Level[n - 1].text \X Json(Level[n - 1].text)
      BY <2>2
    <3>2. QED
      BY <3>1
  <2>5. Members(text) \in Seq(Json(Level[n - 1].text)) /\ Len(Members(text)) = Len(text[2])
    BY <2>1, <2>3, <2>4
  <2>6. QED
    BY <1>3, <2>1, <2>2, <2>4, <2>5
<1>4. QED
  BY <1>1, <1>2, <1>3, KindsOfText

\* What FromString is called with for a member.
LEMMA TextOfJson ==
  ASSUME NEW n \in 0 .. MaxDepth, NEW json \in Json(Level[n].text)
  PROVE  <<GetType(json), TextOf(json)>> \in LuaTypes \X Level[n].text
<1>1. GetType(json) \in LuaTypes
  BY DEF GetType, LuaTypes
<1>2. CASE json[1] = "string"
  <2>1. json \notin Level[n].text
    BY <1>2, KindsOfText
  <2>2. json \in {"string"} \X Level[n].text
    BY <2>1 DEF Json
  <2>3. QED
    BY <1>1, <1>2, <2>2 DEF TextOf
<1>3. CASE json[1] # "string"
  <2>1. json \in Level[n].text
    BY <1>3 DEF Json
  <2>2. QED
    BY <1>1, <1>3, <2>1 DEF TextOf
<1>4. QED
  BY <1>2, <1>3

\* FromString depends only on its results for what the text holds.
LEMMA FromStringAgrees ==
  ASSUME NEW type, NEW text, NEW g, NEW h,
         \A i \in 1 .. Len(Members(text)) :
           LET c == <<GetType(Members(text)[i]), TextOf(Members(text)[i])>> IN g[c] = h[c]
  PROVE  FromStringFrom(type, text, g) = FromStringFrom(type, text, h)
<1> DEFINE json == Members(text)
           Pushed(f) == [i \in 1 .. Len(json) |->
                           PushValue(json[i], f[<<GetType(json[i]), TextOf(json[i])>>])]
<1>1. Pushed(g) = Pushed(h)
  OBVIOUS
<1>2. PushedBy(Members(text), g) = PushedBy(Members(text), h)
  BY <1>1 DEF PushedBy
<1>3. QED
  BY <1>2 DEF FromStringFrom

\* FromString is what its definition says: there is such a function at each level.
LEMMA FromStringEquation ==
  \A type \in LuaTypes, text \in Level[MaxDepth].text :
    FromString[<<type, text>>] = FromStringFrom(type, text, FromString)
<1> DEFINE Calls(n) == LuaTypes \X Level[n].text
           IsFromString(g, n) == g = [c \in Calls(n) |-> FromStringFrom(c[1], c[2], g)]
           G == {n \in 0 .. MaxDepth : \E g : IsFromString(g, n)}
<1>1. ASSUME NEW n \in 0 .. MaxDepth, NEW g,
             n > 0 => IsFromString(g, n - 1)
      PROVE  \E h : IsFromString(h, n)
  <2> DEFINE h == [c \in Calls(n) |-> FromStringFrom(c[1], c[2], g)]
  <2>1. ASSUME NEW c \in Calls(n) PROVE FromStringFrom(c[1], c[2], g) = FromStringFrom(c[1], c[2], h)
    <3>1. c[2] \in Level[n].text
      OBVIOUS
    <3>2. ASSUME NEW i \in 1 .. Len(Members(c[2]))
          PROVE  LET d == <<GetType(Members(c[2])[i]), TextOf(Members(c[2])[i])>> IN g[d] = h[d]
      <4> DEFINE d == <<GetType(Members(c[2])[i]), TextOf(Members(c[2])[i])>>
      <4>1. n > 0 /\ Members(c[2])[i] \in Json(Level[n - 1].text)
        BY <3>1, MembersOfText
      <4>2. n - 1 \in 0 .. MaxDepth /\ n - 1 \in 0 .. (MaxDepth - 1) /\ (n - 1) + 1 = n
        BY <4>1, DepthIsNatural
      <4>3. d \in Calls(n - 1)
        BY <4>1, <4>2, TextOfJson
      <4>4. d \in Calls(n)
        BY <4>2, <4>3, LevelsGrow
      <4> HIDE DEF d
      <4>5. g[d] = FromStringFrom(d[1], d[2], g)
        BY <1>1, <4>1, <4>3
      <4>6. g[d] = h[d]
        BY <4>4, <4>5
      <4>7. QED
        BY <4>6 DEF d
    <3> HIDE DEF h
    <3>3. QED
      BY <3>2, FromStringAgrees
  <2>2. IsFromString(h, n)
    BY <2>1
  <2> HIDE DEF IsFromString, h
  <2>3. QED
    BY <2>2
<1>2. 0 \in G
  <2>1. 0 \in 0 .. MaxDepth
    BY DepthIsNatural
  <2> HIDE DEF IsFromString
  <2>2. QED
    BY <1>1, <2>1
<1>3. ASSUME NEW n \in 0 .. (MaxDepth - 1), n \in G PROVE n + 1 \in G
  <2>1. n + 1 \in 0 .. MaxDepth /\ (n + 1) - 1 = n
    BY DepthIsNatural
  <2>2. PICK g : IsFromString(g, n)
    BY <1>3
  <2> HIDE DEF IsFromString
  <2>3. \E h : IsFromString(h, n + 1)
    BY <1>1, <2>1, <2>2
  <2>4. QED
    BY <2>1, <2>3
<1>4. MaxDepth \in G
  <2> HIDE DEF G
  <2>1. QED
    BY <1>2, <1>3, DepthInduction, DepthIsNatural
<1>5. IsFromString(FromString, MaxDepth)
  <2>1. \E g : IsFromString(g, MaxDepth)
    BY <1>4
  <2>2. FromString = CHOOSE g : IsFromString(g, MaxDepth)
    BY DEF FromString
  <2> HIDE DEF IsFromString
  <2>3. QED
    BY <2>1, <2>2
<1>6. SUFFICES ASSUME NEW type \in LuaTypes, NEW text \in Level[MaxDepth].text
               PROVE  FromString[<<type, text>>] = FromStringFrom(type, text, FromString)
  OBVIOUS
<1>7. <<type, text>> \in Calls(MaxDepth) /\ <<type, text>>[1] = type /\ <<type, text>>[2] = text
  OBVIOUS
<1>8. FromString[<<type, text>>] = FromStringFrom(<<type, text>>[1], <<type, text>>[2], FromString)
  BY <1>5, <1>7
<1>9. QED
  BY <1>7, <1>8

-----------------------------------------------------------------------------
\* A set of naturals has a least element.
LEMMA MinOfNaturals ==
  ASSUME NEW S, S \subseteq Nat, S # {}
  PROVE  Min(S) \in S /\ \A x \in S : Min(S) <= x
<1>1. PICK n \in S : \A m \in S : <<m, n>> \notin OpToRel(<, Nat)
  BY NatLessThanWellFounded, WFMin
<1>2. ASSUME NEW m \in S PROVE n <= m
  <2>1. m \in Nat /\ n \in Nat
    OBVIOUS
  <2>2. ~(m < n)
    BY <1>1, <2>1 DEF OpToRel
  <2>3. QED
    BY <2>1, <2>2
<1>3. QED
  BY <1>2 DEF Min

\* A set of integers with a bound has a greatest element.
LEMMA MaxOfBounded ==
  ASSUME NEW S, S \subseteq Int, S # {}, NEW b \in Int, \A x \in S : x <= b
  PROVE  Max(S) \in S /\ \A x \in S : x <= Max(S)
<1> DEFINE D == {b - x : x \in S}
<1>1. D \subseteq Nat /\ D # {}
  <2>1. \A x \in S : b - x \in Nat
    OBVIOUS
  <2>2. QED
    BY <2>1
<1>2. Min(D) \in D /\ \A d \in D : Min(D) <= d
  <2> HIDE DEF D
  <2>1. QED
    BY <1>1, MinOfNaturals
<1>3. PICK m \in S : Min(D) = b - m
  BY <1>2
<1>4. ASSUME NEW x \in S PROVE x <= m
  <2>1. b - x \in D
    OBVIOUS
  <2>2. b - m <= b - x
    BY <1>2, <1>3, <2>1
  <2>3. QED
    BY <2>2
<1>5. QED
  BY <1>4 DEF Max

\* A walk stops at the first failure, if there is one.
LEMMA WhereAWalkStops ==
  ASSUME NEW n \in Nat, NEW F, F \subseteq 1 .. n
  PROVE  /\ Last(F, n) \in F \cup {n}
         /\ F = {} => Last(F, n) = n
         /\ Last(F, n) \in F \/ F = {}
<1>1. F \cup {n} \subseteq Nat /\ F \cup {n} # {}
  OBVIOUS
<1>2. Last(F, n) \in F \cup {n} /\ \A x \in F \cup {n} : Last(F, n) <= x
  BY <1>1, MinOfNaturals DEF Last
<1>3. F # {} => Last(F, n) \in F
  <2>1. ASSUME NEW x \in F, Last(F, n) \notin F PROVE FALSE
    <3>1. Last(F, n) = n /\ x \in 1 .. n /\ Last(F, n) <= x
      BY <1>2, <2>1
    <3>2. x = n
      BY <3>1
    <3>3. QED
      BY <2>1, <3>1, <3>2
  <2>2. QED
    BY <2>1
<1>4. QED
  BY <1>2, <1>3

-----------------------------------------------------------------------------
(* The walk of a table by the serializer.                                  *)

BadKey(entry) == entry[1][1] \notin {"string", "number"}

\* How high the stack is when the walk stops at an entry.
WalkPeak(entries, value, last) ==
  Max({2} \cup {value[i].peak + 2 : i \in {j \in 1 .. last : ~BadKey(entries[j])}})

TableOfResults(entries, value) ==
  <<KindFor(entries[1][1]),
    [i \in 1 .. Len(entries) |->
       IF KindFor(entries[1][1]) = "object" THEN <<Cut(entries[i][1][2]), value[i].value>>
       ELSE value[i].value]>>

\* The ways in which it ends.
LEMMA HowATableEnds ==
  ASSUME NEW entries, Len(entries) \in Nat, entries # <<>> <=> Len(entries) > 0, NEW value
  PROVE  LET r == LuaTableToValue(entries, value)
             n == Len(entries)
         IN  \/ entries = <<>> /\ r = Done(Null, 0, 1)
             \/ /\ entries # <<>>
                /\ \A i \in 1 .. n : /\ ~BadKey(entries[i]) /\ value[i].ok
                                     /\ KindFor(entries[i][1]) = KindFor(entries[1][1])
                /\ r = Done(TableOfResults(entries, value), 0, WalkPeak(entries, value, n))
             \/ \E i \in 1 .. n : /\ BadKey(entries[i])
                                  /\ r = Thrown(2 - 3, WalkPeak(entries, value, i))
             \/ \E i \in 1 .. n : /\ ~BadKey(entries[i]) /\ ~value[i].ok
                                  /\ r = Thrown(value[i].top + 2 - 3, WalkPeak(entries, value, i))
             \/ \E i \in 1 .. n : /\ ~BadKey(entries[i]) /\ value[i].ok
                                  /\ KindFor(entries[i][1]) # KindFor(entries[1][1])
                                  /\ r = Thrown(2, WalkPeak(entries, value, i))
<1> DEFINE n        == Len(entries)
           Fails(i) == \/ BadKey(entries[i]) \/ ~value[i].ok
                       \/ KindFor(entries[i][1]) # KindFor(entries[1][1])
           F        == {i \in 1 .. n : Fails(i)}
           last     == Last(F, n)
           r        == LuaTableToValue(entries, value)
<1>1. r = CASE entries = <<>>                 -> Done(Null, 0, 1)
            [] entries # <<>> /\ ~Fails(last) ->
                 Done(TableOfResults(entries, value), 0, WalkPeak(entries, value, last))
            [] entries # <<>> /\ BadKey(entries[last]) ->
                 Thrown(2 - 3, WalkPeak(entries, value, last))
            [] entries # <<>> /\ ~BadKey(entries[last]) /\ ~value[last].ok ->
                 Thrown(value[last].top + 2 - 3, WalkPeak(entries, value, last))
            [] OTHER -> Thrown(2, WalkPeak(entries, value, last))
  BY Zenon DEF LuaTableToValue, PoppedOnError, BadKey, WalkPeak, TableOfResults
<1>2. CASE entries = <<>>
  <2> HIDE DEF last, Fails
  <2>1. QED
    BY <1>1, <1>2
<1>3. CASE entries # <<>>
  <2>1. /\ last \in F \cup {n}
        /\ F = {} => last = n
        /\ last \in F \/ F = {}
    <3> HIDE DEF Fails
    <3>1. QED
      BY WhereAWalkStops
  <2>2. last \in 1 .. n
    <3> HIDE DEF last, Fails
    <3>1. QED
      BY <1>3, <2>1
  <2>3. CASE ~Fails(last)
    <3>1. last = n /\ \A i \in 1 .. n : ~Fails(i)
      <4> HIDE DEF last, Fails
      <4>1. QED
        BY <2>1, <2>2, <2>3
    <3>2. ~BadKey(entries[last]) /\ value[last].ok
      BY <2>3
    <3>3. r = Done(TableOfResults(entries, value), 0, WalkPeak(entries, value, last))
      <4> HIDE DEF last, Fails
      <4>1. QED
        BY <1>1, <1>3, <2>3, <3>2
    <3> HIDE DEF last
    <3>4. QED
      BY <1>3, <3>1, <3>3
  <2>4. CASE BadKey(entries[last])
    <3>1. Fails(last)
      BY <2>4
    <3>2. r = Thrown(2 - 3, WalkPeak(entries, value, last))
      <4> HIDE DEF last, Fails
      <4>1. QED
        BY <1>1, <1>3, <2>4, <3>1
    <3> HIDE DEF last
    <3>3. QED
      BY <2>2, <2>4, <3>2
  <2>5. CASE ~BadKey(entries[last]) /\ ~value[last].ok
    <3>1. Fails(last)
      BY <2>5
    <3>2. r = Thrown(value[last].top + 2 - 3, WalkPeak(entries, value, last))
      <4> HIDE DEF last, Fails
      <4>1. QED
        BY <1>1, <1>3, <2>5, <3>1
    <3> HIDE DEF last
    <3>3. QED
      BY <2>2, <2>5, <3>2
  <2>6. CASE Fails(last) /\ ~BadKey(entries[last]) /\ value[last].ok
    <3>1. r = Thrown(2, WalkPeak(entries, value, last))
      <4> HIDE DEF last, Fails
      <4>1. QED
        BY <1>1, <1>3, <2>6
    <3>2. KindFor(entries[last][1]) # KindFor(entries[1][1])
      BY <2>6
    <3> HIDE DEF last
    <3>3. QED
      BY <2>2, <2>6, <3>1, <3>2
  <2> HIDE DEF last, Fails
  <2>7. QED
    BY <2>3, <2>4, <2>5, <2>6
<1>4. QED
  BY <1>2, <1>3

\* A table takes two slots more than what it holds.
LEMMA WalkPeakIsBounded ==
  ASSUME NEW entries, NEW value, NEW b \in Nat, NEW last \in Nat,
         \A i \in 1 .. last : value[i].peak \in 0 .. b
  PROVE  WalkPeak(entries, value, last) \in 2 .. (b + 2)
<1> DEFINE P == {value[i].peak + 2 : i \in {j \in 1 .. last : ~BadKey(entries[j])}}
<1>1. \A x \in P : x \in 2 .. (b + 2)
  OBVIOUS
<1> HIDE DEF P
<1> DEFINE S == {2} \cup P
<1>2. S \subseteq Int /\ S # {} /\ b + 2 \in Int /\ \A x \in S : x \in 2 .. (b + 2) /\ x <= b + 2
  BY <1>1
<1> HIDE DEF S
<1>3. Max(S) \in S
  BY <1>2, MaxOfBounded
<1>4. WalkPeak(entries, value, last) = Max(S)
  BY DEF WalkPeak, P, S
<1>5. QED
  BY <1>2, <1>3, <1>4

(* What a conversion of a value nested n deep may do to the stack, and     *)
(* what comes of it.                                                       *)
SerializedFrom(r, n) ==
  /\ r.ok \in BOOLEAN
  /\ r.peak \in 0 .. (2 * n)
  /\ r.top \in (-n) .. 2
  /\ r.ok => r.top = 0 /\ r.value \in Json(Level[n].text)

\* The texts of scalars are texts at every level.
LEMMA TextsOfScalars ==
  ASSUME NEW n \in 0 .. MaxDepth
  PROVE  /\ Null \in Level[n].text
         /\ Basic \subseteq Level[n].text
         /\ \A i \in Numerals : Numeral(i) \in Level[n].text
         /\ \A s \in Words : Word(s) \in Level[n].text
<1>1. Basic \subseteq Level[n].text
  <2>1. CASE n = 0
    BY <2>1, LevelFields
  <2>2. CASE n # 0
    <3>1. n - 1 \in 0 .. (MaxDepth - 1) /\ (n - 1) + 1 = n
      BY <2>2, DepthIsNatural
    <3>2. Level[n].text = NestedText(Level[n - 1])
      BY <3>1, LevelFields
    <3>3. QED
      BY <3>2 DEF NestedText
  <2>3. QED
    BY <2>1, <2>2
<1>2. "null" \in Words
  BY JsonAssumption
<1>3. ASSUME NEW s \in Words PROVE Word(s) \in Level[n].text
  BY <1>1 DEF Basic, Word
<1>4. ASSUME NEW i \in Numerals PROVE Numeral(i) \in Level[n].text
  BY <1>1 DEF Basic, Numeral
<1>5. QED
  BY <1>1, <1>2, <1>3, <1>4 DEF Null

\* What is left of a text before a NUL is a text.
LEMMA CutTexts ==
  ASSUME NEW n \in 0 .. MaxDepth, NEW text \in Level[n].text
  PROVE  Cut(text) \in Level[n].text
<1>1. CASE text[1] = "word"
  <2>1. CString[text[2]] \in Basic
    BY <1>1, KindsOfText, JsonAssumption
  <2>2. QED
    BY <1>1, <2>1, TextsOfScalars DEF Cut
<1>2. CASE text[1] # "word"
  BY <1>2 DEF Cut
<1>3. QED
  BY <1>1, <1>2

\* Scalars, apart from tables.
LEMMA KindsOfValue ==
  ASSUME NEW n \in 0 .. MaxDepth, NEW v \in Level[n].value
  PROVE  \/ v[1] = "string" /\ v[2] \in Level[n].text /\ v = <<"string", v[2]>>
         \/ v[1] = "number" /\ v[2] \in Numbers
         \/ v[1] = "boolean" /\ v[2] \in {"true", "false"}
         \/ v[1] = "function"
         \/ v[1] = "table"
<1>1. CASE v[1] = "table"
  BY <1>1
<1>2. CASE v[1] # "table"
  <2>1. v \in Scalar(Level[n].text)
    <3>1. CASE n = 0
      BY <3>1, LevelFields
    <3>2. CASE n # 0
      <4>1. n - 1 \in 0 .. (MaxDepth - 1) /\ (n - 1) + 1 = n
        BY <3>2, DepthIsNatural
      <4>2. Level[n].value = Scalar(Level[n].text)
                               \cup ({"table"} \X Seq(Scalar(Level[n - 1].text) \X Level[n - 1].value))
        BY <4>1, LevelFields
      <4>3. QED
        BY <1>2, <4>2
    <3>3. QED
      BY <3>1, <3>2
  <2>2. QED
    BY <2>1 DEF Scalar, Booleans
<1>3. QED
  BY <1>1, <1>2

\* The texts of a table, from those of what it holds.
LEMMA TextsOfTables ==
  ASSUME NEW n \in 0 .. (MaxDepth - 1), NEW s
  PROVE  /\ s \in Seq(Json(Level[n].text)) => <<"array", s>> \in Level[n + 1].text
         /\ s \in Seq(Level[n].text \X Json(Level[n].text)) => <<"object", s>> \in Level[n + 1].text
<1>1. Level[n + 1].text = NestedText(Level[n])
  BY LevelFields
<1>2. QED
  BY <1>1 DEF NestedText

\* A table moves the stack by one slot more down, and two more up, than what it holds.
LEMMA TableIsSerialized ==
  ASSUME NEW n \in 0 .. (MaxDepth - 1),
         NEW entries \in Seq(Scalar(Level[n].text) \X Level[n].value), NEW value,
         \A i \in 1 .. Len(entries) : SerializedFrom(value[i], n)
  PROVE  SerializedFrom(LuaTableToValue(entries, value), n + 1)
<1> DEFINE r == LuaTableToValue(entries, value)
           m == Len(entries)
<1>1. /\ n \in Nat /\ n \in Int /\ n + 1 \in 0 .. MaxDepth /\ m \in Nat
      /\ 2 * n \in Nat /\ 2 * (n + 1) = 2 * n + 2
  BY DepthIsNatural
<1>2. ASSUME NEW i \in 0 .. m PROVE WalkPeak(entries, value, i) \in 0 .. (2 * (n + 1))
  <2>1. ASSUME NEW j \in 1 .. i PROVE value[j].peak \in 0 .. (2 * n)
    <3>1. j \in 1 .. m
      BY <1>1
    <3>2. QED
      BY <3>1 DEF SerializedFrom
  <2>2. i \in Nat
    BY <1>1
  <2>3. WalkPeak(entries, value, i) \in 2 .. (2 * n + 2)
    BY <1>1, <2>1, <2>2, WalkPeakIsBounded
  <2>4. QED
    BY <1>1, <2>3
<1>3. ASSUME NEW top \in (-(n + 1)) .. 2, NEW peak \in 0 .. (2 * (n + 1)), r = Thrown(top, peak)
      PROVE  SerializedFrom(r, n + 1)
  <2>1. ~Thrown(top, peak).ok /\ Thrown(top, peak).ok \in BOOLEAN
        /\ Thrown(top, peak).top = top /\ Thrown(top, peak).peak = peak
    BY DEF Thrown
  <2> HIDE DEF r
  <2>2. QED
    BY <1>3, <2>1 DEF SerializedFrom
<1>4. ASSUME NEW x \in Level[n + 1].text, NEW peak \in 0 .. (2 * (n + 1)), r = Done(x, 0, peak)
      PROVE  SerializedFrom(r, n + 1)
  <2>1. Done(x, 0, peak).ok = TRUE /\ Done(x, 0, peak).value = x
        /\ Done(x, 0, peak).top = 0 /\ Done(x, 0, peak).peak = peak
    BY DEF Done
  <2>2. 0 \in (-(n + 1)) .. 2 /\ x \in Json(Level[n + 1].text)
    BY <1>1 DEF Json
  <2> HIDE DEF r
  <2>3. QED
    BY <1>4, <2>1, <2>2 DEF SerializedFrom
<1>5. entries # <<>> <=> m > 0
  BY EmptySeq
<1>6. CASE entries = <<>> /\ r = Done(Null, 0, 1)
  <2>1. Null \in Level[n + 1].text /\ 1 \in 0 .. (2 * (n + 1))
    BY <1>1, TextsOfScalars
  <2>2. QED
    BY <1>4, <1>6, <2>1
<1>7. CASE /\ entries # <<>>
           /\ \A i \in 1 .. m : /\ ~BadKey(entries[i]) /\ value[i].ok
                                /\ KindFor(entries[i][1]) = KindFor(entries[1][1])
           /\ r = Done(TableOfResults(entries, value), 0, WalkPeak(entries, value, m))
  <2>1. ASSUME NEW i \in 1 .. m PROVE value[i].value \in Json(Level[n].text)
    BY <1>7 DEF SerializedFrom
  <2>2. TableOfResults(entries, value) \in Level[n + 1].text
    <3>1. CASE KindFor(entries[1][1]) = "object"
      <4> DEFINE s == [i \in 1 .. m |-> <<Cut(entries[i][1][2]), value[i].value>>]
      <4>1. TableOfResults(entries, value) = <<"object", s>>
        BY <3>1 DEF TableOfResults
      <4>2. ASSUME NEW i \in 1 .. m PROVE Cut(entries[i][1][2]) \in Level[n].text
        <5>1. KindFor(entries[i][1]) = "object"
          BY <1>7, <3>1
        <5>2. entries[i][1][1] = "string"
          BY <5>1 DEF KindFor
        <5>3. entries[i] \in Scalar(Level[n].text) \X Level[n].value
          OBVIOUS
        <5>4. entries[i][1] \in Scalar(Level[n].text)
          BY <5>3
        <5>5. entries[i][1][2] \in Level[n].text
          BY <5>2, <5>4 DEF Scalar, Booleans
        <5>6. n \in 0 .. MaxDepth
          BY DepthIsNatural
        <5>7. QED
          BY <5>5, <5>6, CutTexts
      <4>3. s \in Seq(Level[n].text \X Json(Level[n].text))
        BY <1>1, <2>1, <4>2
      <4>4. QED
        BY <4>1, <4>3, TextsOfTables
    <3>2. CASE KindFor(entries[1][1]) # "object"
      <4> DEFINE s == [i \in 1 .. m |-> value[i].value]
      <4>1. KindFor(entries[1][1]) = "array"
        BY <3>2 DEF KindFor
      <4>2. TableOfResults(entries, value) = <<"array", s>>
        BY <4>1 DEF TableOfResults
      <4>3. s \in Seq(Json(Level[n].text))
        BY <1>1, <2>1
      <4>4. QED
        BY <4>2, <4>3, TextsOfTables
    <3>3. QED
      BY <3>1, <3>2
  <2>3. WalkPeak(entries, value, m) \in 0 .. (2 * (n + 1))
    BY <1>1, <1>2
  <2>4. QED
    BY <1>4, <1>7, <2>2, <2>3
<1>8. ASSUME NEW i \in 1 .. m, NEW top \in (-(n + 1)) .. 2, r = Thrown(top, WalkPeak(entries, value, i))
      PROVE  SerializedFrom(r, n + 1)
  <2>1. WalkPeak(entries, value, i) \in 0 .. (2 * (n + 1))
    BY <1>1, <1>2
  <2>2. QED
    BY <1>3, <1>8, <2>1
<1>9. /\ 2 - 3 \in (-(n + 1)) .. 2 /\ 2 \in (-(n + 1)) .. 2
      /\ \A i \in 1 .. m : value[i].top + 2 - 3 \in (-(n + 1)) .. 2
  <2>1. \A i \in 1 .. m : value[i].top \in (-n) .. 2
    BY DEF SerializedFrom
  <2>2. \A x \in (-n) .. 2 : x + 2 - 3 \in (-(n + 1)) .. 2
    BY <1>1
  <2>3. 2 - 3 \in (-(n + 1)) .. 2 /\ 2 \in (-(n + 1)) .. 2
    BY <1>1
  <2>4. QED
    BY <2>1, <2>2, <2>3
<1>10. \/ entries = <<>> /\ r = Done(Null, 0, 1)
       \/ /\ entries # <<>>
          /\ \A i \in 1 .. m : /\ ~BadKey(entries[i]) /\ value[i].ok
                               /\ KindFor(entries[i][1]) = KindFor(entries[1][1])
          /\ r = Done(TableOfResults(entries, value), 0, WalkPeak(entries, value, m))
       \/ \E i \in 1 .. m : r = Thrown(2 - 3, WalkPeak(entries, value, i))
       \/ \E i \in 1 .. m : r = Thrown(value[i].top + 2 - 3, WalkPeak(entries, value, i))
       \/ \E i \in 1 .. m : r = Thrown(2, WalkPeak(entries, value, i))
  BY <1>1, <1>5, HowATableEnds, Zenon
<1>11. SUFFICES SerializedFrom(r, n + 1)
  OBVIOUS
<1>12. SerializedFrom(r, n + 1) = SerializedFrom(LuaTableToValue(entries, value), n + 1)
  OBVIOUS
<1> HIDE DEF r, m
<1>13. QED
  BY <1>6, <1>7, <1>8, <1>9, <1>10, <1>12

\* The results for what a table holds.
LEMMA ValuesOfTable ==
  ASSUME NEW n \in 0 .. (MaxDepth - 1), NEW f,
         NEW entries \in Seq(Scalar(Level[n].text) \X Level[n].value)
  PROVE  /\ ValuesOf(entries, f) = [i \in 1 .. Len(entries) |-> f[entries[i][2]]]
         /\ \A i \in 1 .. Len(entries) : /\ entries[i][2] \in Level[n].value
                                         /\ entries[i][1] \in Scalar(Level[n].text)
                                         /\ entries[i] = <<entries[i][1], entries[i][2]>>
<1> DEFINE s == [i \in 1 .. Len(entries) |-> f[entries[i][2]]]
           S == {s[i] : i \in 1 .. Len(entries)}
<1>1. Len(entries) \in Nat
  OBVIOUS
<1>2. s \in Seq(S)
  BY <1>1
<1>3. All(s) = s
  <2> HIDE DEF s, S
  <2>1. QED
    BY <1>2, AllIsItself
<1>4. ASSUME NEW i \in 1 .. Len(entries)
      PROVE  /\ entries[i][2] \in Level[n].value
             /\ entries[i][1] \in Scalar(Level[n].text)
             /\ entries[i] = <<entries[i][1], entries[i][2]>>
  <2>1. entries[i] \in Scalar(Level[n].text) \X Level[n].value
    OBVIOUS
  <2>2. QED
    BY <2>1
<1>5. QED
  BY <1>3, <1>4 DEF ValuesOf

\* So the serializer stays within bounds that grow with the depth.
LEMMA ValuesAreSerialized ==
  \A n \in 0 .. MaxDepth : \A v \in Level[n].value : SerializedFrom(ToValue[v], n)
<1> DEFINE P(n) == \A v \in Level[n].value : SerializedFrom(ToValue[v], n)
           G == {n \in 0 .. MaxDepth : P(n)}
<1>1. ASSUME NEW n \in 0 .. MaxDepth, n > 0 => P(n - 1) PROVE P(n)
  <2>1. SUFFICES ASSUME NEW v \in Level[n].value PROVE SerializedFrom(ToValue[v], n)
    OBVIOUS
  <2>2. ToValue[v] = ToValueFrom(v, ToValue)
    <3>1. v \in Level[MaxDepth].value
      BY LevelsAreBounded
    <3>2. QED
      BY <3>1, ToValueEquation
  <2>3. ASSUME NEW x \in Json(Level[n].text), ToValue[v] = Done(x, 0, 0)
        PROVE  SerializedFrom(ToValue[v], n)
    BY <2>3, DepthIsNatural DEF SerializedFrom, Done
  <2>4. CASE v[1] = "string"
    <3>1. ToValue[v] = Done(Str(Cut(v[2])), 0, 0)
      BY <2>2, <2>4 DEF ToValueFrom
    <3>2. Cut(v[2]) \in Level[n].text
      BY <2>4, KindsOfValue, CutTexts
    <3>3. Str(Cut(v[2])) \in Json(Level[n].text)
      BY <3>2 DEF Json, Str
    <3>4. QED
      BY <2>3, <3>1, <3>3
  <2>5. CASE v[1] = "number"
    <3> DEFINE d == Double[v[2]]
    <3>1. ToValue[v] = LuaNumberToValue(v[2])
      BY <2>2, <2>5 DEF ToValueFrom
    <3>2. CASE d \in Doubles
      <4>1. ToValue[v] = Done(Numeral(Written[d]), 0, 0)
        BY <3>1, <3>2 DEF LuaNumberToValue
      <4>2. Written[d] \in Numerals
        BY <3>2, JsonAssumption
      <4>3. Numeral(Written[d]) \in Json(Level[n].text)
        BY <4>2, TextsOfScalars DEF Json
      <4>4. QED
        BY <2>3, <4>1, <4>3
    <3>3. CASE d \notin Doubles
      <4>1. ToValue[v] = Thrown(0, 0)
        BY <3>1, <3>3 DEF LuaNumberToValue
      <4>2. QED
        BY <4>1, DepthIsNatural DEF SerializedFrom, Thrown
    <3>4. QED
      BY <3>2, <3>3
  <2>6. CASE v[1] = "boolean"
    <3>1. ToValue[v] = Done(Word(v[2]), 0, 0)
      BY <2>2, <2>6 DEF ToValueFrom
    <3>2. v[2] \in Words
      BY <2>6, KindsOfValue, JsonAssumption
    <3>3. Word(v[2]) \in Json(Level[n].text)
      BY <3>2, TextsOfScalars DEF Json
    <3>4. QED
      BY <2>3, <3>1, <3>3
  <2>7. CASE v[1] = "table"
    <3>1. n > 0 /\ v[2] \in Seq(Scalar(Level[n - 1].text) \X Level[n - 1].value)
      BY <2>7, EntriesOfValue
    <3>2. n - 1 \in 0 .. (MaxDepth - 1) /\ (n - 1) + 1 = n
      BY <3>1, DepthIsNatural
    <3>3. ToValue[v] = LuaTableToValue(v[2], ValuesOf(v[2], ToValue))
      BY <2>2, <2>7 DEF ToValueFrom
    <3>4. ASSUME NEW i \in 1 .. Len(v[2]) PROVE SerializedFrom(ValuesOf(v[2], ToValue)[i], n - 1)
      <4>1. ValuesOf(v[2], ToValue)[i] = ToValue[v[2][i][2]] /\ v[2][i][2] \in Level[n - 1].value
        BY <3>1, <3>2, ValuesOfTable
      <4>2. QED
        BY <1>1, <3>1, <4>1
    <3>5. SerializedFrom(LuaTableToValue(v[2], ValuesOf(v[2], ToValue)), (n - 1) + 1)
      BY <3>1, <3>2, <3>4, TableIsSerialized
    <3>6. QED
      BY <3>2, <3>3, <3>5
  <2>8. CASE v[1] = "function"
    <3>1. ToValue[v] = Thrown(0, 0)
      BY <2>2, <2>8 DEF ToValueFrom
    <3>2. QED
      BY <3>1, DepthIsNatural DEF SerializedFrom, Thrown
  <2>9. QED
    BY <2>4, <2>5, <2>6, <2>7, <2>8, KindsOfValue
<1>2. 0 \in G
  <2>1. 0 \in 0 .. MaxDepth
    BY DepthIsNatural
  <2> HIDE DEF P
  <2>2. QED
    BY <1>1, <2>1
<1>3. ASSUME NEW n \in 0 .. (MaxDepth - 1), n \in G PROVE n + 1 \in G
  <2>1. n + 1 \in 0 .. MaxDepth /\ (n + 1) - 1 = n
    BY DepthIsNatural
  <2> HIDE DEF P
  <2>2. QED
    BY <1>1, <1>3, <2>1
<1>4. 0 .. MaxDepth \subseteq G
  <2> HIDE DEF G
  <2>1. QED
    BY <1>2, <1>3, DepthInduction
<1>5. QED
  BY <1>4

\* Serializer::ToString makes a text.
LEMMA ToStringMakesTexts ==
  ASSUME NEW n \in 0 .. MaxDepth, NEW v \in Level[n].value
  PROVE  LET r == SerializerToString(v) IN
         /\ r.ok = ToValue[v].ok /\ r.ok \in BOOLEAN
         /\ r.peak \in 0 .. (2 * n)
         /\ r.top \in (-n) .. 2
         /\ r.ok => r.top = 0 /\ r.value \in Level[n].text /\ r.value = TextOf(ToValue[v].value)
<1> DEFINE r == ToValue[v]
<1>1. SerializedFrom(r, n)
  BY ValuesAreSerialized
<1>2. CASE r.ok
  <2>1. SerializerToString(v) = Done(TextOf(r.value), r.top, r.peak)
    BY <1>2 DEF SerializerToString
  <2>2. TextOf(r.value) \in Level[n].text
    <3>1. r.value \in Json(Level[n].text)
      BY <1>1, <1>2 DEF SerializedFrom
    <3>2. QED
      BY <3>1, TextOfJson
  <2>3. QED
    BY <1>1, <1>2, <2>1, <2>2 DEF SerializedFrom, Done
<1>3. CASE ~r.ok
  <2>1. SerializerToString(v) = r
    BY <1>3 DEF SerializerToString
  <2>2. QED
    BY <1>1, <1>3, <2>1 DEF SerializedFrom
<1>4. QED
  BY <1>2, <1>3

-----------------------------------------------------------------------------
(* The walk of a text by the deserializer.                                 *)

PushPeak(value, last) == Max({1} \cup {value[i].peak + 2 : i \in 1 .. last})

TableOfPushed(text, value) ==
  Table([i \in 1 .. Len(value) |->
           <<IF text[1] = "object" THEN Str(Cut(text[2][i][1])) ELSE Num(Index(i)), value[i].value>>])

\* The ways in which it ends.
LEMMA HowAPushEnds ==
  ASSUME NEW text, NEW value, Len(value) \in Nat
  PROVE  LET r == PushTable(text, value)
             n == Len(value)
         IN  \/ text[1] \notin {"object", "array"} /\ \E peak \in 0 .. 1 : r = Thrown(0, peak)
             \/ /\ text[1] \in {"object", "array"}
                /\ \E i \in 1 .. n : ~value[i].ok /\ r = Thrown(value[i].top + 2, PushPeak(value, i))
             \/ /\ text[1] \in {"object", "array"}
                /\ \A i \in 1 .. n : value[i].ok
                /\ r = Done(TableOfPushed(text, value), 1, PushPeak(value, n))
<1> DEFINE n    == Len(value)
           F    == {i \in 1 .. n : ~value[i].ok}
           last == Last(F, n)
           r    == PushTable(text, value)
<1>1. r = CASE text[1] \notin {"object", "array"} -> Thrown(0, IF IsJson(text) THEN 1 ELSE 0)
            [] text[1] \in {"object", "array"} /\ last > 0 /\ ~value[last].ok ->
                 Thrown(value[last].top + 2, PushPeak(value, last))
            [] OTHER -> Done(TableOfPushed(text, value), 1, PushPeak(value, last))
  BY Zenon DEF PushTable, PushPeak, TableOfPushed
<1>2. /\ last \in F \cup {n}
      /\ F = {} => last = n
      /\ last \in F \/ F = {}
  BY WhereAWalkStops
<1> HIDE DEF last
<1>3. CASE text[1] \notin {"object", "array"}
  <2>1. r = Thrown(0, IF IsJson(text) THEN 1 ELSE 0)
    BY <1>1, <1>3
  <2>2. (IF IsJson(text) THEN 1 ELSE 0) \in 0 .. 1
    OBVIOUS
  <2>3. QED
    BY <1>3, <2>1, <2>2
<1>4. CASE text[1] \in {"object", "array"} /\ last \in F
  <2>1. last > 0 /\ ~value[last].ok /\ last \in 1 .. n
    BY <1>4
  <2>2. r = Thrown(value[last].top + 2, PushPeak(value, last))
    BY <1>1, <1>4, <2>1
  <2>3. QED
    BY <1>4, <2>1, <2>2
<1>5. CASE text[1] \in {"object", "array"} /\ last \notin F
  <2>1. F = {} /\ last = n
    BY <1>2, <1>5
  <2>2. \A i \in 1 .. n : value[i].ok
    BY <2>1
  <2>3. ~(last > 0 /\ ~value[last].ok)
    BY <2>1, <2>2
  <2>4. r = Done(TableOfPushed(text, value), 1, PushPeak(value, last))
    BY <1>1, <1>5, <2>3
  <2>5. QED
    BY <1>5, <2>1, <2>2, <2>4
<1>6. QED
  BY <1>3, <1>4, <1>5

\* A table takes two slots more than what is pushed into it.
LEMMA PushPeakIsBounded ==
  ASSUME NEW value, NEW b \in Nat, NEW last \in Nat, \A i \in 1 .. last : value[i].peak \in 0 .. b
  PROVE  PushPeak(value, last) \in 1 .. (b + 2)
<1> DEFINE P == {value[i].peak + 2 : i \in 1 .. last}
<1>1. \A x \in P : x \in 2 .. (b + 2)
  OBVIOUS
<1> HIDE DEF P
<1> DEFINE S == {1} \cup P
<1>2. S \subseteq Int /\ S # {} /\ b + 2 \in Int /\ \A x \in S : x \in 1 .. (b + 2) /\ x <= b + 2
  BY <1>1
<1> HIDE DEF S
<1>3. Max(S) \in S
  BY <1>2, MaxOfBounded
<1>4. PushPeak(value, last) = Max(S)
  BY DEF PushPeak, P, S
<1>5. QED
  BY <1>2, <1>3, <1>4

\* What the conversion of a text nested n deep may do to the stack.
DeserializedFrom(r, n) ==
  /\ r.ok \in BOOLEAN
  /\ r.peak \in 0 .. (2 * n + 1)
  /\ r.top \in 0 .. 2
  /\ r.ok => r.top = 1

\* PushValue throws with its table and key gone, unless it is for the type.
LEMMA ValueIsPushed ==
  ASSUME NEW n \in Nat, NEW json, NEW r, DeserializedFrom(r, n)
  PROVE  /\ PushValue(json, r).ok \in BOOLEAN
         /\ PushValue(json, r).peak \in 0 .. (2 * n + 1)
         /\ ~PushValue(json, r).ok => PushValue(json, r).top \in (-2) .. 0
         /\ GetType(json) # "none" /\ r.ok => PushValue(json, r) = r
<1>1. CASE GetType(json) = "none"
  <2>1. PushValue(json, r) = Thrown(0, 0)
    BY <1>1 DEF PushValue
  <2>2. QED
    BY <1>1, <2>1 DEF Thrown
<1>2. CASE GetType(json) # "none" /\ r.ok
  <2>1. PushValue(json, r) = r
    BY <1>2 DEF PushValue
  <2>2. QED
    BY <1>2, <2>1 DEF DeserializedFrom
<1>3. CASE GetType(json) # "none" /\ ~r.ok
  <2>1. PushValue(json, r) = Thrown(r.top - 2, r.peak)
    BY <1>3 DEF PushValue
  <2>2. r.top - 2 \in (-2) .. 0 /\ r.peak \in 0 .. (2 * n + 1)
    BY DEF DeserializedFrom
  <2>3. QED
    BY <1>3, <2>1, <2>2 DEF Thrown
<1>4. QED
  BY <1>1, <1>2, <1>3

\* What is left of a table that fails is at most the table and a key.
LEMMA TableIsPushed ==
  ASSUME NEW n \in Nat, NEW text, NEW value, Len(value) \in Nat,
         Len(value) > 0 => n > 0,
         \A i \in 1 .. Len(value) : /\ value[i].ok \in BOOLEAN
                                    /\ value[i].peak \in 0 .. (2 * (n - 1) + 1)
                                    /\ ~value[i].ok => value[i].top \in (-2) .. 0
  PROVE  DeserializedFrom(PushTable(text, value), n)
<1> DEFINE r == PushTable(text, value)
           m == Len(value)
<1>1. ASSUME NEW i \in 0 .. m PROVE PushPeak(value, i) \in 0 .. (2 * n + 1)
  <2>1. CASE m > 0
    <3>1. 2 * (n - 1) + 1 \in Nat /\ i \in Nat /\ (2 * (n - 1) + 1) + 2 = 2 * n + 1
      BY <2>1
    <3>2. ASSUME NEW j \in 1 .. i PROVE value[j].peak \in 0 .. (2 * (n - 1) + 1)
      <4>1. j \in 1 .. m
        OBVIOUS
      <4>2. QED
        BY <4>1
    <3>3. PushPeak(value, i) \in 1 .. ((2 * (n - 1) + 1) + 2)
      BY <3>1, <3>2, PushPeakIsBounded
    <3>4. QED
      BY <3>1, <3>3
  <2>2. CASE m = 0
    <3>1. i = 0
      BY <2>2
    <3>2. {value[j].peak + 2 : j \in 1 .. i} = {}
      BY <3>1
    <3>3. PushPeak(value, i) = Max({1})
      BY <3>2 DEF PushPeak
    <3>4. Max({1}) = 1
      <4> DEFINE S == {1}
      <4>1. S \subseteq Int /\ S # {} /\ 1 \in Int /\ \A x \in S : x <= 1
        OBVIOUS
      <4> HIDE DEF S
      <4>2. Max(S) \in S
        BY <4>1, MaxOfBounded
      <4>3. QED
        BY <4>2 DEF S
    <3>5. QED
      BY <3>3, <3>4
  <2>3. QED
    BY <2>1, <2>2
<1>2. ASSUME NEW top \in 0 .. 2, NEW peak \in 0 .. (2 * n + 1), r = Thrown(top, peak)
      PROVE  DeserializedFrom(r, n)
  BY <1>2 DEF DeserializedFrom, Thrown
<1>3. CASE \E peak \in 0 .. 1 : r = Thrown(0, peak)
  BY <1>2, <1>3
<1>4. ASSUME NEW i \in 1 .. m, ~value[i].ok, r = Thrown(value[i].top + 2, PushPeak(value, i))
      PROVE  DeserializedFrom(r, n)
  <2>1. value[i].top + 2 \in 0 .. 2
    BY <1>4
  <2>2. PushPeak(value, i) \in 0 .. (2 * n + 1)
    BY <1>1
  <2>3. QED
    BY <1>2, <1>4, <2>1, <2>2
<1>5. CASE r = Done(TableOfPushed(text, value), 1, PushPeak(value, m))
  <2>1. PushPeak(value, m) \in 0 .. (2 * n + 1)
    BY <1>1
  <2> HIDE DEF r, m
  <2>2. DeserializedFrom(r, n)
    BY <1>5, <2>1 DEF DeserializedFrom, Done
  <2>3. QED
    BY <2>2 DEF r
<1>6. \/ \E peak \in 0 .. 1 : r = Thrown(0, peak)
      \/ \E i \in 1 .. m : ~value[i].ok /\ r = Thrown(value[i].top + 2, PushPeak(value, i))
      \/ r = Done(TableOfPushed(text, value), 1, PushPeak(value, m))
  BY HowAPushEnds, Zenon
<1>7. QED
  BY <1>3, <1>4, <1>5, <1>6

\* The results for the members of a text.
LEMMA PushedMembers ==
  ASSUME NEW n \in 0 .. MaxDepth, NEW text \in Level[n].text, NEW f
  PROVE  LET json  == Members(text)
             value == PushedBy(json, f)
         IN  /\ Len(json) \in Nat /\ Len(value) = Len(json)
             /\ \A i \in 1 .. Len(json) :
                  value[i] = PushValue(json[i], f[<<GetType(json[i]), TextOf(json[i])>>])
<1> DEFINE json == Members(text)
           s == [i \in 1 .. Len(json) |-> PushValue(json[i], f[<<GetType(json[i]), TextOf(json[i])>>])]
           S == {s[i] : i \in 1 .. Len(json)}
<1>1. Len(json) \in Nat
  <2>1. CASE text[1] \notin {"array", "object"}
    <3>1. json = <<>>
      BY <2>1 DEF Members
    <3> HIDE DEF json
    <3>2. QED
      BY <3>1
  <2>2. CASE text[1] \in {"array", "object"}
    <3>1. n > 0
      BY <2>2, KindsOfText
    <3>2. json \in Seq(Json(Level[n - 1].text))
      BY <3>1, MembersOfText
    <3> HIDE DEF json
    <3>3. QED
      BY <3>2
  <2>3. QED
    BY <2>1, <2>2
<1> HIDE DEF json
<1>2. s \in Seq(S) /\ Len(s) = Len(json)
  BY <1>1
<1>3. All(s) = s
  <2> HIDE DEF s, S
  <2>1. QED
    BY <1>2, AllIsItself
<1>4. PushedBy(json, f) = s
  BY <1>3 DEF PushedBy
<1>5. QED
  BY <1>1, <1>2, <1>4 DEF json

\* So the deserializer stays within bounds that grow with the depth.
LEMMA TextsAreDeserialized ==
  \A n \in 0 .. MaxDepth : \A type \in LuaTypes, text \in Level[n].text :
    DeserializedFrom(FromString[<<type, text>>], n)
<1> DEFINE P(n) == \A type \in LuaTypes, text \in Level[n].text :
                     DeserializedFrom(FromString[<<type, text>>], n)
           G == {n \in 0 .. MaxDepth : P(n)}
<1>1. ASSUME NEW n \in 0 .. MaxDepth, n > 0 => P(n - 1) PROVE P(n)
  <2>1. SUFFICES ASSUME NEW type \in LuaTypes, NEW text \in Level[n].text
                 PROVE  DeserializedFrom(FromString[<<type, text>>], n)
    OBVIOUS
  <2> DEFINE r == FromString[<<type, text>>]
  <2>2. r = FromStringFrom(type, text, FromString)
    <3>1. text \in Level[MaxDepth].text
      BY LevelsAreBounded
    <3>2. QED
      BY <3>1, FromStringEquation
  <2>3. n \in Nat
    BY DepthIsNatural
  <2>4. CASE type = "table"
    <3> DEFINE json  == Members(text)
               value == PushedBy(json, FromString)
    <3>1. r = PushTable(text, value)
      BY <2>2, <2>4 DEF FromStringFrom
    <3>2. Len(value) = Len(json) /\ Len(json) \in Nat
      BY PushedMembers
    <3>3. Len(value) > 0 => n > 0
      BY <3>2, MembersOfText
    <3>4. ASSUME NEW i \in 1 .. Len(value)
          PROVE  /\ value[i].ok \in BOOLEAN
                 /\ value[i].peak \in 0 .. (2 * (n - 1) + 1)
                 /\ ~value[i].ok => value[i].top \in (-2) .. 0
      <4> DEFINE c == <<GetType(json[i]), TextOf(json[i])>>
      <4>1. i \in 1 .. Len(json)
        BY <3>2
      <4>2. value[i] = PushValue(json[i], FromString[c])
        BY <4>1, PushedMembers
      <4>3. n > 0 /\ json[i] \in Json(Level[n - 1].text)
        BY <4>1, MembersOfText
      <4>4. n - 1 \in 0 .. MaxDepth /\ n - 1 \in Nat
        BY <4>3, DepthIsNatural
      <4>5. GetType(json[i]) \in LuaTypes /\ TextOf(json[i]) \in Level[n - 1].text
        BY <4>3, <4>4, TextOfJson
      <4>6. DeserializedFrom(FromString[c], n - 1)
        BY <1>1, <4>3, <4>5
      <4> HIDE DEF c, json, value
      <4>7. QED
        BY <4>2, <4>4, <4>6, ValueIsPushed
    <3> HIDE DEF value, json
    <3>5. DeserializedFrom(PushTable(text, value), n)
      BY <2>3, <3>2, <3>3, <3>4, TableIsPushed
    <3>6. QED
      BY <3>1, <3>5
  <2>5. CASE type # "table"
    <3>1. (\E x : r = Done(x, 1, 1)) \/ r = Thrown(0, 0)
      BY <2>2, <2>5 DEF FromStringFrom, PushNumber, LuaTypes
    <3>2. 1 \in 0 .. (2 * n + 1) /\ 0 \in 0 .. (2 * n + 1) /\ 0 \in 0 .. 2 /\ 1 \in 0 .. 2
      BY <2>3
    <3>3. DeserializedFrom(Thrown(0, 0), n)
      BY <3>2 DEF DeserializedFrom, Thrown
    <3>4. ASSUME NEW x PROVE DeserializedFrom(Done(x, 1, 1), n)
      BY <3>2 DEF DeserializedFrom, Done
    <3> HIDE DEF r
    <3>5. DeserializedFrom(r, n)
      BY <3>1, <3>3, <3>4
    <3>6. QED
      BY <3>5 DEF r
  <2>6. QED
    BY <2>4, <2>5
<1>2. 0 \in G
  <2>1. 0 \in 0 .. MaxDepth
    BY DepthIsNatural
  <2> HIDE DEF P
  <2>2. QED
    BY <1>1, <2>1
<1>3. ASSUME NEW n \in 0 .. (MaxDepth - 1), n \in G PROVE n + 1 \in G
  <2>1. n + 1 \in 0 .. MaxDepth /\ (n + 1) - 1 = n
    BY DepthIsNatural
  <2> HIDE DEF P
  <2>2. QED
    BY <1>1, <1>3, <2>1
<1>4. 0 .. MaxDepth \subseteq G
  <2> HIDE DEF G
  <2>1. QED
    BY <1>2, <1>3, DepthInduction
<1>5. QED
  BY <1>4

-----------------------------------------------------------------------------
(* The way there and back.                                                 *)

\* Scalars, and tables with entries.
LEMMA KindsOfPlain ==
  ASSUME NEW n \in 0 .. MaxDepth, NEW v \in Level[n].plain
  PROVE  \/ v[1] = "string" /\ v[2] \in Level[n].text /\ Cut(v[2]) = v[2] /\ v = Str(v[2])
         \/ v[1] = "number" /\ v[2] \in Doubles /\ v = Num(v[2])
         \/ v[1] = "boolean" /\ v[2] \in {"true", "false"} /\ v = Bool(v[2])
         \/ /\ n > 0 /\ v[1] = "table" /\ v = Table(v[2])
            /\ v[2] \in PlainEntries(Level[n - 1]) /\ v[2] # <<>>
<1>1. CASE v \in PlainScalar(Level[n].text)
  BY <1>1 DEF PlainScalar, Uncut, Booleans, Str, Num, Bool
<1>2. CASE v \notin PlainScalar(Level[n].text)
  <2>1. Level[0].plain = PlainScalar(Basic) /\ Level[0].text = Basic
    BY LevelFields
  <2>2. n # 0
    BY <1>2, <2>1
  <2>3. n - 1 \in 0 .. (MaxDepth - 1) /\ (n - 1) + 1 = n /\ n > 0
    BY <2>2, DepthIsNatural
  <2>4. Level[n].plain = PlainScalar(Level[n].text)
                           \cup ({"table"} \X (PlainEntries(Level[n - 1]) \ {<<>>}))
    BY <2>3, LevelFields
  <2>5. v \in {"table"} \X (PlainEntries(Level[n - 1]) \ {<<>>})
    BY <1>2, <2>4
  <2>6. QED
    BY <2>3, <2>5 DEF Table
<1>3. QED
  BY <1>1, <1>2

\* The entries of a plain table: their keys have one kind, and tell which.
LEMMA KeysOfPlain ==
  ASSUME NEW below, NEW e \in PlainEntries(below)
  PROVE  /\ Len(e) \in Nat /\ (e # <<>> <=> Len(e) > 0)
         /\ e = [i \in 1 .. Len(e) |-> e[i]]
         /\ \A i \in 1 .. Len(e) : e[i] = <<e[i][1], e[i][2]>> /\ e[i][2] \in below.plain
         /\ \/ \A i \in 1 .. Len(e) : e[i][1] = Num(i)
            \/ \A i \in 1 .. Len(e) : e[i][1] = Str(e[i][1][2]) /\ Cut(e[i][1][2]) = e[i][1][2]
<1>1. CASE e \in Seq(({"number"} \X Numbers) \X below.plain) /\ \A i \in DOMAIN e : e[i][1] = Num(i)
  <2>1. Len(e) \in Nat /\ (e # <<>> <=> Len(e) > 0) /\ DOMAIN e = 1 .. Len(e)
    BY <1>1, EmptySeq
  <2>2. ASSUME NEW i \in 1 .. Len(e)
        PROVE  e[i] = <<e[i][1], e[i][2]>> /\ e[i][2] \in below.plain /\ e[i][1] = Num(i)
    <3>1. e[i] \in ({"number"} \X Numbers) \X below.plain
      BY <1>1
    <3>2. e[i][1] = Num(i)
      BY <1>1, <2>1
    <3>3. QED
      BY <3>1, <3>2
  <2>3. e = [i \in 1 .. Len(e) |-> e[i]]
    BY <1>1, <2>1
  <2>4. QED
    BY <2>1, <2>2, <2>3
<1>2. CASE e \in Seq(Uncut(below.text) \X below.plain)
  <2>1. Len(e) \in Nat /\ (e # <<>> <=> Len(e) > 0) /\ DOMAIN e = 1 .. Len(e)
    BY <1>2, EmptySeq
  <2>2. ASSUME NEW i \in 1 .. Len(e)
        PROVE  /\ e[i] = <<e[i][1], e[i][2]>> /\ e[i][2] \in below.plain
               /\ e[i][1] = Str(e[i][1][2]) /\ Cut(e[i][1][2]) = e[i][1][2]
    <3>1. e[i] \in Uncut(below.text) \X below.plain
      BY <1>2
    <3>2. e[i][1] \in {"string"} \X {t \in below.text : Cut(t) = t}
      BY <3>1 DEF Uncut
    <3>3. QED
      BY <3>1, <3>2 DEF Str
  <2>3. e = [i \in 1 .. Len(e) |-> e[i]]
    BY <1>2, <2>1
  <2>4. QED
    BY <2>1, <2>2, <2>3
<1>3. QED
  BY <1>1, <1>2 DEF PlainEntries

\* The serializer is defined on plain values.
LEMMA PlainValuesAreValues ==
  \A n \in 0 .. MaxDepth : Level[n].plain \subseteq Level[n].value
<1> DEFINE P(n) == Level[n].plain \subseteq Level[n].value
           G == {n \in 0 .. MaxDepth : P(n)}
<1>0. \A text : /\ PlainScalar(text) \subseteq Scalar(text)
                /\ Uncut(text) \subseteq Scalar(text)
                /\ {"number"} \X Numbers \subseteq Scalar(text)
  BY JsonAssumption DEF Scalar, PlainScalar, Uncut
<1>1. 0 \in G
  BY <1>0, LevelFields, DepthIsNatural
<1>2. ASSUME NEW n \in 0 .. (MaxDepth - 1), n \in G PROVE n + 1 \in G
  <2>1. n + 1 \in 0 .. MaxDepth
    BY DepthIsNatural
  <2>2. /\ Level[n + 1].value = Scalar(Level[n + 1].text)
                                  \cup ({"table"} \X Seq(Scalar(Level[n].text) \X Level[n].value))
        /\ Level[n + 1].plain = PlainScalar(Level[n + 1].text)
                                  \cup ({"table"} \X (PlainEntries(Level[n]) \ {<<>>}))
    BY LevelFields
  <2>3. PlainEntries(Level[n]) \subseteq Seq(Scalar(Level[n].text) \X Level[n].value)
    <3>1. Level[n].plain \subseteq Level[n].value
      BY <1>2
    <3>2. /\ ({"number"} \X Numbers) \X Level[n].plain \subseteq Scalar(Level[n].text) \X Level[n].value
          /\ Uncut(Level[n].text) \X Level[n].plain \subseteq Scalar(Level[n].text) \X Level[n].value
      BY <1>0, <3>1
    <3>3. /\ Seq(({"number"} \X Numbers) \X Level[n].plain) \subseteq Seq(Scalar(Level[n].text) \X Level[n].value)
          /\ Seq(Uncut(Level[n].text) \X Level[n].plain) \subseteq Seq(Scalar(Level[n].text) \X Level[n].value)
      BY <3>2, SeqMonotone
    <3>4. QED
      BY <3>3 DEF PlainEntries
  <2>4. PlainScalar(Level[n + 1].text) \subseteq Scalar(Level[n + 1].text)
    BY <1>0
  <2>5. QED
    BY <2>1, <2>2, <2>3, <2>4
<1>3. 0 .. MaxDepth \subseteq G
  <2> HIDE DEF G
  <2>1. QED
    BY <1>1, <1>2, DepthInduction
<1>4. QED
  BY <1>3

(* A value is serialized, the type can be told from the JSON value, and    *)
(* the text, read as that type, is the value.                              *)
ComesBack(v) ==
  LET json == ToValue[v].value
      r    == FromString[<<v[1], TextOf(json)>>]
  IN  /\ ToValue[v].ok
      /\ GetType(json) = v[1]
      /\ r.ok /\ r.value = v

\* The words true and false and the numerals are read as what they were.
LEMMA ScalarComesBack ==
  ASSUME NEW n \in 0 .. MaxDepth, NEW v \in Level[n].plain, v[1] # "table"
  PROVE  ComesBack(v)
<1> DEFINE json == ToValue[v].value
           text == TextOf(json)
<1>1. v \in Level[n].value /\ v \in Level[MaxDepth].value
  BY PlainValuesAreValues, LevelsAreBounded
<1>2. ToValue[v] = ToValueFrom(v, ToValue)
  BY <1>1, ToValueEquation
<1>3. ASSUME NEW type \in LuaTypes, NEW x \in Level[n].text
      PROVE FromString[<<type, x>>] = FromStringFrom(type, x, FromString)
  BY LevelsAreBounded, FromStringEquation
<1>4. CASE v[1] = "string" /\ v[2] \in Level[n].text /\ Cut(v[2]) = v[2] /\ v = Str(v[2])
  <2>1. ToValue[v] = Done(v, 0, 0)
    BY <1>2, <1>4 DEF ToValueFrom
  <2>2. ToValue[v].ok /\ json = v
    BY <2>1 DEF Done
  <2>3. text = v[2]
    BY <1>4, <2>2 DEF TextOf
  <2>4. GetType(json) = "string"
    BY <1>4, <2>2 DEF GetType
  <2>5. FromString[<<"string", v[2]>>] = Done(v, 1, 1)
    BY <1>3, <1>4 DEF FromStringFrom, LuaTypes
  <2>6. QED
    BY <1>4, <2>2, <2>3, <2>4, <2>5 DEF ComesBack, Done
<1>5. CASE v[1] = "number" /\ v[2] \in Doubles /\ v = Num(v[2])
  <2> DEFINE spelt == Written[v[2]]
  <2>1. /\ Double[v[2]] = v[2] /\ spelt \in Numerals
        /\ Numeral(spelt) \in DOMAIN Lexical /\ Lexical[Numeral(spelt)] = v[2]
    BY <1>5, JsonAssumption
  <2>2. ToValue[v] = Done(Numeral(spelt), 0, 0)
    <3>1. ToValue[v] = LuaNumberToValue(v[2])
      BY <1>2, <1>5 DEF ToValueFrom
    <3>2. QED
      BY <1>5, <2>1, <3>1 DEF LuaNumberToValue
  <2> HIDE DEF spelt
  <2>3. ToValue[v].ok /\ json = Numeral(spelt)
    BY <2>2 DEF Done
  <2>4. text = Numeral(spelt) /\ text \in Level[n].text
    BY <2>1, <2>3, TextsOfScalars DEF TextOf, Numeral
  <2>5. GetType(json) = "number"
    BY <2>3 DEF GetType, Numeral
  <2>6. FromStringFrom("number", text, FromString) = Done(v, 1, 1)
    <3>1. FromStringFrom("number", text, FromString) = PushNumber(text)
      BY DEF FromStringFrom
    <3>2. PushNumber(Numeral(spelt)) = Done(Num(v[2]), 1, 1)
      BY <2>1 DEF PushNumber
    <3>3. QED
      BY <1>5, <2>4, <3>1, <3>2
  <2>7. FromString[<<"number", text>>] = Done(v, 1, 1)
    BY <1>3, <2>4, <2>6 DEF LuaTypes
  <2>8. QED
    BY <1>5, <2>3, <2>5, <2>7 DEF ComesBack, Done
<1>6. CASE v[1] = "boolean" /\ v[2] \in {"true", "false"} /\ v = Bool(v[2])
  <2>1. ToValue[v] = Done(Word(v[2]), 0, 0)
    BY <1>2, <1>6 DEF ToValueFrom
  <2>2. ToValue[v].ok /\ json = Word(v[2])
    BY <2>1 DEF Done
  <2>3. v[2] \in Words
    BY <1>6, JsonAssumption
  <2>4. text = Word(v[2]) /\ text \in Level[n].text
    BY <2>2, <2>3, TextsOfScalars DEF TextOf, Word
  <2>5. GetType(json) = "boolean"
    BY <1>6, <2>2 DEF GetType, Word, Null
  <2>6. (IF text = Word("true") THEN "true" ELSE "false") = v[2]
    BY <1>6, <2>4 DEF Word
  <2>7. FromStringFrom("boolean", text, FromString) = Done(v, 1, 1)
    BY <1>6, <2>6 DEF FromStringFrom
  <2>8. FromString[<<"boolean", text>>] = Done(v, 1, 1)
    BY <1>3, <2>4, <2>7 DEF LuaTypes
  <2>9. QED
    BY <1>6, <2>2, <2>5, <2>8 DEF ComesBack, Done
<1>7. QED
  BY <1>4, <1>5, <1>6, KindsOfPlain

\* A table is made again, entry by entry, under the keys it had.
LEMMA TableComesBack ==
  ASSUME NEW n \in 0 .. MaxDepth, n > 0, \A w \in Level[n - 1].plain : ComesBack(w),
         NEW v \in Level[n].plain, v[1] = "table"
  PROVE  ComesBack(v)
<1> DEFINE e     == v[2]
           m     == Len(e)
           value == ValuesOf(e, ToValue)
           text  == TableOfResults(e, value)
           json  == Members(text)
           back  == PushedBy(json, FromString)
<1>1. v = Table(e) /\ e \in PlainEntries(Level[n - 1]) /\ e # <<>>
  BY KindsOfPlain
<1>2. /\ m \in Nat /\ m > 0 /\ e = [i \in 1 .. m |-> e[i]]
      /\ \A i \in 1 .. m : e[i] = <<e[i][1], e[i][2]>> /\ e[i][2] \in Level[n - 1].plain
      /\ \/ \A i \in 1 .. m : e[i][1] = Num(i)
         \/ \A i \in 1 .. m : e[i][1] = Str(e[i][1][2]) /\ Cut(e[i][1][2]) = e[i][1][2]
  BY <1>1, KeysOfPlain
<1>3. v \in Level[n].value /\ v \in Level[MaxDepth].value
  BY PlainValuesAreValues, LevelsAreBounded
<1>4. e \in Seq(Scalar(Level[n - 1].text) \X Level[n - 1].value)
  BY <1>3, EntriesOfValue
<1>5. n - 1 \in 0 .. (MaxDepth - 1) /\ n - 1 \in 0 .. MaxDepth /\ n - 1 \in Nat /\ (n - 1) + 1 = n
  BY DepthIsNatural
<1>6. ASSUME NEW i \in 1 .. m
      PROVE  value[i] = ToValue[e[i][2]] /\ ComesBack(e[i][2])
  <2>1. value[i] = ToValue[e[i][2]]
    BY <1>4, <1>5, ValuesOfTable
  <2>2. QED
    BY <1>2, <2>1
<1>7. ToValue[v] = LuaTableToValue(e, value)
  <2>1. ToValue[v] = ToValueFrom(v, ToValue)
    BY <1>3, ToValueEquation
  <2>2. QED
    BY <2>1 DEF ToValueFrom
<1> HIDE DEF e, m, value, text, json, back
<1>8. \A i \in 1 .. m : value[i].ok
  BY <1>6 DEF ComesBack
<1>9. \A i \in 1 .. m : ~BadKey(e[i]) /\ KindFor(e[i][1]) = KindFor(e[1][1])
  <2>1. 1 \in 1 .. m
    BY <1>2
  <2>2. CASE \A i \in 1 .. m : e[i][1] = Num(i)
    BY <2>1, <2>2 DEF BadKey, KindFor, Num
  <2>3. CASE \A i \in 1 .. m : e[i][1] = Str(e[i][1][2])
    <3>1. \A i \in 1 .. m : e[i][1][1] = "string"
      BY <2>3 DEF Str
    <3>2. QED
      BY <2>1, <3>1 DEF BadKey, KindFor
  <2>4. QED
    BY <1>2, <2>2, <2>3
<1>10. ToValue[v] = Done(text, 0, WalkPeak(e, value, m))
  <2>1. m = Len(e)
    BY DEF m
  <2>2. QED
    BY <1>1, <1>2, <1>7, <1>8, <1>9, <2>1, HowATableEnds DEF text
<1>11. ToValue[v].ok /\ ToValue[v].value = text
  BY <1>10 DEF Done
<1>12. \/ /\ \A i \in 1 .. m : e[i][1] = Num(i)
          /\ text = <<"array", [i \in 1 .. m |-> value[i].value]>>
       \/ /\ \A i \in 1 .. m : e[i][1] = Str(e[i][1][2]) /\ Cut(e[i][1][2]) = e[i][1][2]
          /\ text = <<"object", [i \in 1 .. m |-> <<Cut(e[i][1][2]), value[i].value>>]>>
  <2>1. CASE \A i \in 1 .. m : e[i][1] = Num(i)
    <3>1. e[1][1] = Num(1)
      BY <1>2, <2>1
    <3>2. KindFor(e[1][1]) = "array"
      BY <3>1 DEF KindFor, Num
    <3>3. text = <<"array", [i \in 1 .. m |-> value[i].value]>>
      BY <3>2 DEF text, TableOfResults, m
    <3>4. QED
      BY <2>1, <3>3
  <2>2. CASE \A i \in 1 .. m : e[i][1] = Str(e[i][1][2]) /\ Cut(e[i][1][2]) = e[i][1][2]
    <3>1. e[1][1] = Str(e[1][1][2])
      BY <1>2, <2>2
    <3>2. KindFor(e[1][1]) = "object"
      BY <3>1 DEF KindFor, Str
    <3>3. text = <<"object", [i \in 1 .. m |-> <<Cut(e[i][1][2]), value[i].value>>]>>
      BY <3>2 DEF text, TableOfResults, m
    <3>4. QED
      BY <2>2, <3>3
  <2>3. QED
    BY <1>2, <2>1, <2>2
<1>13. text[1] \in {"object", "array"}
  BY <1>12
<1>14. TextOf(text) = text /\ GetType(text) = "table"
  BY <1>13 DEF TextOf, GetType
<1>15. text \in Level[n].text /\ text \in Level[MaxDepth].text
  <2>1. SerializerToString(v).value \in Level[n].text /\ SerializerToString(v).value = TextOf(text)
    BY <1>3, <1>11, ToStringMakesTexts
  <2>2. QED
    BY <1>14, <2>1, LevelsAreBounded
<1>16. Len(json) = m /\ \A i \in 1 .. m : json[i] = value[i].value
  <2>1. CASE text = <<"array", [i \in 1 .. m |-> value[i].value]>>
    <3>1. json = [i \in 1 .. m |-> value[i].value]
      BY <2>1 DEF json, Members
    <3>2. QED
      BY <1>2, <3>1
  <2>2. CASE text = <<"object", [i \in 1 .. m |-> <<Cut(e[i][1][2]), value[i].value>>]>>
    <3>1. Len(text[2]) = m /\ \A i \in 1 .. m : text[2][i][2] = value[i].value
      BY <1>2, <2>2
    <3>2. json = [i \in 1 .. m |-> text[2][i][2]]
      BY <2>2, <3>1 DEF json, Members
    <3>3. QED
      BY <1>2, <3>1, <3>2
  <2>3. QED
    BY <1>12, <2>1, <2>2
<1>17. Len(back) = m
  BY <1>15, <1>16, PushedMembers DEF json, back
<1>18. ASSUME NEW i \in 1 .. m PROVE back[i].ok /\ back[i].value = e[i][2]
  <2> DEFINE c == <<GetType(json[i]), TextOf(json[i])>>
  <2>1. back[i] = PushValue(json[i], FromString[c])
    BY <1>15, <1>16, PushedMembers DEF json, back
  <2>2. json[i] = ToValue[e[i][2]].value
    BY <1>6, <1>16
  <2>3. /\ GetType(json[i]) = e[i][2][1]
        /\ FromString[<<e[i][2][1], TextOf(json[i])>>].ok
        /\ FromString[<<e[i][2][1], TextOf(json[i])>>].value = e[i][2]
    BY <1>6, <2>2 DEF ComesBack
  <2>4. FromString[c].ok /\ FromString[c].value = e[i][2]
    BY <2>3
  <2>5. GetType(json[i]) # "none"
    <3>1. e[i][2] \in Level[n - 1].plain
      BY <1>2
    <3>2. e[i][2][1] # "none"
      BY <1>5, <3>1, KindsOfPlain
    <3>3. QED
      BY <2>3, <3>2
  <2> HIDE DEF c
  <2>6. PushValue(json[i], FromString[c]) = FromString[c]
    BY <2>4, <2>5 DEF PushValue
  <2>7. QED
    BY <2>1, <2>4, <2>6
<1>19. FromString[<<"table", text>>] = PushTable(text, back)
  <2>1. FromString[<<"table", text>>] = FromStringFrom("table", text, FromString)
    BY <1>15, FromStringEquation DEF LuaTypes
  <2>2. QED
    BY <2>1 DEF FromStringFrom, back, json
<1>20. PushTable(text, back) = Done(TableOfPushed(text, back), 1, PushPeak(back, m))
  BY <1>2, <1>13, <1>17, <1>18, HowAPushEnds
<1>21. TableOfPushed(text, back) = v
  <2> DEFINE key(i) == IF text[1] = "object" THEN Str(Cut(text[2][i][1])) ELSE Num(Index(i))
  <2>1. ASSUME NEW i \in 1 .. m PROVE key(i) = e[i][1]
    <3>1. CASE text = <<"array", [j \in 1 .. m |-> value[j].value]>> /\ \A j \in 1 .. m : e[j][1] = Num(j)
      BY <3>1 DEF Index
    <3>2. CASE /\ text = <<"object", [j \in 1 .. m |-> <<Cut(e[j][1][2]), value[j].value>>]>>
               /\ \A j \in 1 .. m : e[j][1] = Str(e[j][1][2]) /\ Cut(e[j][1][2]) = e[j][1][2]
      <4>1. text[1] = "object" /\ text[2][i][1] = Cut(e[i][1][2])
        BY <3>2
      <4>2. Cut(Cut(e[i][1][2])) = e[i][1][2]
        BY <3>2
      <4>3. QED
        BY <3>2, <4>1, <4>2
    <3>3. QED
      BY <1>12, <3>1, <3>2
  <2>2. ASSUME NEW i \in 1 .. m PROVE <<key(i), back[i].value>> = e[i]
    BY <1>2, <1>18, <2>1
  <2>3. [i \in 1 .. m |-> <<key(i), back[i].value>>] = [i \in 1 .. m |-> e[i]]
    <3> HIDE DEF key
    <3>1. QED
      BY <2>2
  <2>4. TableOfPushed(text, back) = Table([i \in 1 .. m |-> <<key(i), back[i].value>>])
    BY <1>17 DEF TableOfPushed
  <2> HIDE DEF key
  <2>5. QED
    BY <1>1, <1>2, <2>3, <2>4
<1>22. FromString[<<"table", text>>].ok /\ FromString[<<"table", text>>].value = v
  BY <1>19, <1>20, <1>21 DEF Done
<1>23. QED
  BY <1>11, <1>14, <1>22 DEF ComesBack

(* Every boolean, string without a NUL and finite number that a double can *)
(* be, and every table with entries made of them, list or object, comes    *)
(* back from its text, as deep as it may be nested (Serializer::ToString,  *)
(* Deserializer::FromString).                                              *)
THEOREM PlainComesBack ==
  \A n \in 0 .. MaxDepth : \A v \in Level[n].plain : ComesBack(v)
<1> DEFINE P(n) == \A v \in Level[n].plain : ComesBack(v)
           G == {n \in 0 .. MaxDepth : P(n)}
<1>1. ASSUME NEW n \in 0 .. MaxDepth, n > 0 => P(n - 1) PROVE P(n)
  <2>1. ASSUME NEW v \in Level[n].plain PROVE ComesBack(v)
    <3>1. CASE v[1] = "table"
      <4>1. n > 0
        BY <3>1, KindsOfPlain
      <4>2. QED
        BY <1>1, <3>1, <4>1, TableComesBack
    <3>2. CASE v[1] # "table"
      BY <3>2, ScalarComesBack
    <3>3. QED
      BY <3>1, <3>2
  <2>2. QED
    BY <2>1
<1>2. 0 \in G
  <2>1. 0 \in 0 .. MaxDepth
    BY DepthIsNatural
  <2> HIDE DEF P
  <2>2. QED
    BY <1>1, <2>1
<1>3. ASSUME NEW n \in 0 .. (MaxDepth - 1), n \in G PROVE n + 1 \in G
  <2>1. n + 1 \in 0 .. MaxDepth /\ (n + 1) - 1 = n
    BY DepthIsNatural
  <2> HIDE DEF P
  <2>2. QED
    BY <1>1, <1>3, <2>1
<1>4. 0 .. MaxDepth \subseteq G
  <2> HIDE DEF G
  <2>1. QED
    BY <1>2, <1>3, DepthInduction
<1>5. QED
  BY <1>4

-----------------------------------------------------------------------------
(* What follows for KvStorage.                                             *)

\* The conversions that KvStorage names are those, so they bring plain values back.
LEMMA ConversionsRoundTrip == RoundTrips
<1> SUFFICES ASSUME NEW t \in Types, NEW v \in Values, <<t, v>> \in Plain
             PROVE  LET d == Deserialized[<<t, Serialized[v].value>>] IN d.ok /\ d.value = v
  BY DEF RoundTrips
<1> DEFINE x == Serialized[v].value
           s == SerializerToString(Content[v])
           r == FromString[<<t, TextContent[x]>>]
<1>1. Content[v] \in Level[MaxDepth].plain /\ t = Content[v][1]
  <2>1. \A c \in Plain : Content[c[2]] \in Level[MaxDepth].plain /\ c[1] = Content[c[2]][1]
    BY ConversionAssumption
  <2>2. QED
    BY <2>1
<1>2. MaxDepth \in 0 .. MaxDepth
  BY DepthIsNatural
<1>3. ComesBack(Content[v])
  BY <1>1, <1>2, PlainComesBack
<1>4. Content[v] \in Level[MaxDepth].value
  BY <1>1, <1>2, PlainValuesAreValues
<1>5. s.ok /\ s.value = TextOf(ToValue[Content[v]].value)
  <2>1. ToValue[Content[v]].ok
    BY <1>3 DEF ComesBack
  <2>2. QED
    BY <1>2, <1>4, <2>1, ToStringMakesTexts
<1>6. Serialized[v].ok /\ TextContent[x] = s.value
  <2>1. SerializedAs(v)
    BY ConversionAssumption
  <2>2. QED
    BY <1>5, <2>1 DEF SerializedAs
<1>7. r.ok /\ r.value = Content[v]
  <2>1. TextContent[x] = TextOf(ToValue[Content[v]].value)
    BY <1>5, <1>6
  <2>2. QED
    BY <1>1, <1>3, <2>1 DEF ComesBack
<1>8. x \in Texts
  BY <1>6, KvAssumption
<1>9. DeserializedAs(t, x)
  BY <1>8, ConversionAssumption
<1> HIDE DEF x
<1>10. Deserialized[<<t, x>>].ok /\ Deserialized[<<t, x>>].value = v
  BY <1>7, <1>9 DEF DeserializedAs
<1>11. QED
  BY <1>10 DEF x

(* What a script of the project has stored comes back as it was when it is *)
(* cast to its own type: every boolean, string without a NUL and number    *)
(* that a double can be, and every table of these, list or not, up to ten  *)
(* deep, in whatever order statements are executed (Serializer,            *)
(* Deserializer, ResultCastMethod).                                        *)
THEOREM StoredValuesComeBack == Spec => []PlainValueComesBack
BY ConversionsRoundTrip, RoundTripsSuffice

\* A value or a text is on the level its depth says.
LEMMA DepthsAreLevels ==
  /\ \A v \in Level[MaxDepth].value : /\ DepthOfValue(v) \in 0 .. MaxDepth
                                      /\ v \in Level[DepthOfValue(v)].value
  /\ \A x \in Level[MaxDepth].text : /\ DepthOfText(x) \in 0 .. MaxDepth
                                     /\ x \in Level[DepthOfText(x)].text
<1>1. MaxDepth \in 0 .. MaxDepth
  BY DepthIsNatural
<1>2. ASSUME NEW v \in Level[MaxDepth].value
      PROVE  DepthOfValue(v) \in {n \in 0 .. MaxDepth : v \in Level[n].value}
  <2> DEFINE S == {n \in 0 .. MaxDepth : v \in Level[n].value}
  <2>1. S \subseteq Nat /\ S # {}
    BY <1>1
  <2>2. Min(S) \in S
    <3> HIDE DEF S
    <3>1. QED
      BY <2>1, MinOfNaturals
  <2>3. QED
    BY <2>2 DEF DepthOfValue
<1>3. ASSUME NEW x \in Level[MaxDepth].text
      PROVE  DepthOfText(x) \in {n \in 0 .. MaxDepth : x \in Level[n].text}
  <2> DEFINE S == {n \in 0 .. MaxDepth : x \in Level[n].text}
  <2>1. S \subseteq Nat /\ S # {}
    BY <1>1
  <2>2. Min(S) \in S
    <3> HIDE DEF S
    <3>1. QED
      BY <2>1, MinOfNaturals
  <2>3. QED
    BY <2>2 DEF DepthOfText
<1>4. QED
  BY <1>2, <1>3

\* What a call of store or of a cast does to the stack.
InFrame(ok, depth, low, high) ==
  /\ depth <= SafeDepth => high <= LUA_MINSTACK
  /\ ok \/ depth <= SafeDepthOfError => low >= 0

(* The conversions stay within the frame of their call as long as what     *)
(* they convert is nested no deeper than ten, and four where it cannot be  *)
(* serialized, whatever its tables hold; values may be nested deeper       *)
(* (LuaTableToValue, PushTable, StoreMethod, ResultCastMethod).            *)
THEOREM ConversionsStayInFrame == Spec => []StackStaysInFrame
<1>1. ASSUME NEW v \in Values, NEW ok, ok => Serialized[v].ok
      PROVE  InFrame(ok, Serialized[v].depth, Serialized[v].top,
                     Serialized[v].peak - StoreArguments)
  <2> DEFINE r == SerializerToString(Content[v])
             n == DepthOfValue(Content[v])
  <2>1. SerializedAs(v) /\ Content[v] \in Level[MaxDepth].value
    BY ConversionAssumption
  <2>2. n \in 0 .. MaxDepth /\ Content[v] \in Level[n].value
    BY <2>1, DepthsAreLevels
  <2>3. /\ r.ok \in BOOLEAN /\ r.peak \in 0 .. (2 * n) /\ r.top \in (-n) .. 2
        /\ r.ok => r.top = 0
    BY <2>2, ToStringMakesTexts
  <2>4. /\ Serialized[v].top = 4 + r.top /\ Serialized[v].peak = 4 + r.peak
        /\ Serialized[v].ok = r.ok /\ Serialized[v].depth = n
    BY <2>1 DEF SerializedAs, StoreArguments
  <2>5. n \in Nat
    BY <2>2, DepthIsNatural
  <2> HIDE DEF r, n
  <2>6. QED
    BY <1>1, <2>3, <2>4, <2>5
       DEF InFrame, StoreArguments, LUA_MINSTACK, SafeDepth, SafeDepthOfError
<1>2. ASSUME NEW type \in Types, NEW text \in Texts, NEW ok
      PROVE  LET d == Deserialized[<<type, text>>] IN
             /\ InFrame(ok, d.depth, d.top, Highest(d, 1) - CastArguments)
             /\ InFrame(ok, d.depth, d.top, Highest(d, 2) - CastArguments)
  <2> DEFINE r == FromString[<<type, TextContent[text]>>]
             d == Deserialized[<<type, text>>]
             n == DepthOfText(TextContent[text])
  <2>1. DeserializedAs(type, text) /\ TextContent[text] \in Level[MaxDepth].text /\ type \in LuaTypes
    BY ConversionAssumption
  <2>2. n \in 0 .. MaxDepth /\ TextContent[text] \in Level[n].text
    BY <2>1, DepthsAreLevels
  <2>3. DeserializedFrom(r, n)
    BY <2>1, <2>2, TextsAreDeserialized
  <2>4. d.top = r.top /\ d.peak = r.peak /\ d.depth = n
    BY <2>1 DEF DeserializedAs
  <2>5. n \in Nat
    BY <2>2, DepthIsNatural
  <2>6. d.top \in 0 .. 2 /\ d.peak \in 0 .. (2 * n + 1)
    BY <2>3, <2>4 DEF DeserializedFrom
  <2> HIDE DEF d, n
  <2>7. /\ InFrame(ok, d.depth, d.top, Highest(d, 1) - CastArguments)
        /\ InFrame(ok, d.depth, d.top, Highest(d, 2) - CastArguments)
    BY <2>4, <2>5, <2>6 DEF InFrame, Highest, CastArguments, LUA_MINSTACK, SafeDepth
  <2>8. QED
    BY <2>7 DEF d
<1>3. /\ NoCall.low >= 0 /\ NoCall.high <= LUA_MINSTACK
      /\ StackStaysInFrame <=> InFrame(returned.ok, returned.depth, returned.low, returned.high)
      /\ StackStaysInFrame' <=> InFrame(returned'.ok, returned'.depth, returned'.low, returned'.high)
  BY DEF NoCall, LUA_MINSTACK, InFrame, StackStaysInFrame
<1>4. Init => StackStaysInFrame
  BY <1>3 DEF Init, StackStaysInFrame
<1>5. TypeOK /\ StackStaysInFrame /\ [Next]_vars => StackStaysInFrame'
  <2> SUFFICES ASSUME TypeOK, StackStaysInFrame, [Next]_vars PROVE StackStaysInFrame'
    OBVIOUS
  <2>1. CASE UNCHANGED vars
    BY <2>1 DEF vars, StackStaysInFrame
  <2>2. CASE returned' = NoCall
    BY <1>3, <2>2 DEF StackStaysInFrame
  <2>3. ASSUME NEW s \in late, LateStore(s) PROVE returned' = NoCall
    BY <2>3 DEF LateStore
  <2>4. ASSUME NEW p \in Projects, DeleteProject(p) PROVE returned' = NoCall
    BY <2>4 DEF DeleteProject
  <2>5. ASSUME NEW e \in Executions, End(e) \/ \E p \in Projects : Start(e, p)
        PROVE  returned' = NoCall
    BY <2>5 DEF End, Start
  <2>6. ASSUME NEW e \in Executions, NEW v \in Values,
               StoreThrows(e, v) \/ \E k \in Keys : Store(e, k, v) \/ StoreFails(e, k, v)
        PROVE  StackStaysInFrame'
    <3>1. PICK ok : StoreReturns(e, ok, v) /\ (ok => Serialized[v].ok)
      BY <2>6 DEF StoreThrows, Store, StoreFails
    <3>2. /\ returned'.low = Serialized[v].top /\ returned'.ok = ok
          /\ returned'.high = Serialized[v].peak - StoreArguments
          /\ returned'.depth = Serialized[v].depth
      BY <3>1 DEF StoreReturns, Returns
    <3>3. InFrame(ok, Serialized[v].depth, Serialized[v].top,
                  Serialized[v].peak - StoreArguments)
      BY <1>1, <3>1
    <3>4. QED
      BY <1>3, <3>2, <3>3
  <2>7. ASSUME NEW e \in Executions, NEW k \in Keys, Get(e, k) \/ GetFails(e, k)
        PROVE  StackStaysInFrame'
    <3>1. returned'.low = 0 /\ returned'.high = 1
      BY <2>7 DEF Get, GetFails, Result, Returns
    <3>2. QED
      BY <3>1 DEF StackStaysInFrame, LUA_MINSTACK
  <2>8. ASSUME NEW e \in Executions, NEW type \in Types, Cast(e, type) PROVE StackStaysInFrame'
    <3> DEFINE d == Deserialized[<<type, result_[e].row.value>>]
    <3>1. CASE result_[e].how # "ok"
      <4>1. returned'.low = 0 /\ returned'.high = 0
        BY <2>8, <3>1 DEF Cast, Returns
      <4>2. QED
        BY <4>1 DEF StackStaysInFrame, LUA_MINSTACK
    <3>2. CASE result_[e].how = "ok"
      <4>1. result_[e].row.value \in Texts
        BY <3>2 DEF TypeOK, Rows
      <4>2. /\ returned'.low = d.top /\ returned'.depth = d.depth
            /\ \/ returned'.high = Highest(d, 1) - CastArguments
               \/ returned'.high = Highest(d, 2) - CastArguments
        BY <2>8, <3>2 DEF Cast, Returns
      <4>3. /\ InFrame(returned'.ok, d.depth, d.top, Highest(d, 1) - CastArguments)
            /\ InFrame(returned'.ok, d.depth, d.top, Highest(d, 2) - CastArguments)
        BY <1>2, <4>1
      <4> HIDE DEF d
      <4>4. QED
        BY <1>3, <4>2, <4>3
    <3>3. QED
      BY <3>1, <3>2
  <2>9. CASE LeaveFrame
    BY <2>2, <2>9 DEF LeaveFrame
  <2>10. QED
    BY <2>1, <2>2, <2>3, <2>4, <2>5, <2>6, <2>7, <2>8, <2>9 DEF Next
<1>6. QED
  BY <1>4, <1>5, TypeCorrect, PTL DEF Spec

=============================================================================
