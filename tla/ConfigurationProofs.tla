------------------------ MODULE ConfigurationProofs ------------------------
(* What the configuration resolves to, and what its answers are worth: for  *)
(* any schema, built-in values, coercion, files, previews and edits.        *)
EXTENDS Configuration, Intervals, SequenceTheorems, FiniteSetTheorems, TLAPS

(* Every value that is previewed has been through validate_leaf. *)
SessionOK ==
  \A key \in DOMAIN session :
    /\ key \in Schema
    /\ session[key] # Invalid /\ Coerce[session[key]] = session[key]

(* A layer's settings, with none for a file in error. *)
FileSettings(file) ==
  IF WellFormed(file) THEN SettingsOf(file) ELSE NoSettings

-----------------------------------------------------------------------------
(* One layer over another *)

(* r is below, with settings laid over it as layer. *)
LaidOver(r, below, layer, settings) ==
  /\ DOMAIN r.value = Accepted(settings) \cup DOMAIN below.value
  /\ DOMAIN r.layer = Accepted(settings) \cup DOMAIN below.layer
  /\ \A key \in Accepted(settings) :
       r.value[key] = Coerce[settings[key]] /\ r.layer[key] = layer
  /\ \A key \in DOMAIN below.value \ Accepted(settings) :
       r.value[key] = below.value[key]
  /\ \A key \in DOMAIN below.layer \ Accepted(settings) :
       r.layer[key] = below.layer[key]
  /\ r.refused = below.refused
                   \cup ((DOMAIN settings \cap Schema) \ Accepted(settings))

(* _overlay_validated() is one layer over another.                          *)
LEMMA OverlaidLays ==
  ASSUME NEW below, NEW layer, NEW settings, NEW tables
  PROVE  LaidOver(Overlaid(below, layer, settings, tables), below, layer, settings)
BY DEF LaidOver, Overlaid, Validated, Over

(* A file is a layer, and one in error an empty one.                        *)
LEMMA FileLayerLays ==
  ASSUME NEW below, NEW layer, NEW file
  PROVE  LaidOver(FileLayer(below, layer, file), below, layer, FileSettings(file))
<1>1. CASE WellFormed(file)
  BY <1>1, OverlaidLays DEF FileLayer, FileSettings
<1>2. CASE ~WellFormed(file)
  <2>1. FileLayer(below, layer, file) = below /\ FileSettings(file) = NoSettings
    BY <1>2 DEF FileLayer, FileSettings
  <2>2. Accepted(NoSettings) = {} /\ DOMAIN NoSettings = {}
    BY DEF Accepted, NoSettings
  <2> QED
    BY <2>1, <2>2 DEF LaidOver
<1> QED
  BY <1>1, <1>2

-----------------------------------------------------------------------------
(* The highest layer with an acceptable value decides *)

(* The user's file is laid over the system's, and the overrides over both. *)
LEMMA ResolveLays ==
  ASSUME NEW systemFile, NEW userFile, NEW overrides
  PROVE  \E r1, r2 :
           /\ LaidOver(r1, Builtin, "system", FileSettings(systemFile))
           /\ LaidOver(r2, r1, "user", FileSettings(userFile))
           /\ LaidOver(Resolve(systemFile, userFile, overrides), r2,
                       "session", overrides)
BY FileLayerLays, OverlaidLays DEF Resolve, SessionLayer

(* The lowest of a few numbers. *)
LEMMA LowestOfFour ==
  ASSUME NEW D \in SUBSET (1 .. 4)
  PROVE  /\ 1 \in D => Min(D) = 1
         /\ 1 \notin D /\ 2 \in D => Min(D) = 2
         /\ 1 \notin D /\ 2 \notin D /\ 3 \in D => Min(D) = 3
         /\ 1 \notin D /\ 2 \notin D /\ 3 \notin D /\ 4 \in D => Min(D) = 4
<1>1. \A y \in D : y \in {1, 2, 3, 4}
  OBVIOUS
<1>2. ASSUME NEW k \in D, \A y \in D : k =< y
      PROVE  Min(D) = k
  <2>1. /\ Min(D) \in D
        /\ \A y \in D : Min(D) =< y
    BY <1>2 DEF Min
  <2>2. PICK m : m = Min(D)
    OBVIOUS
  <2>3. k =< m /\ m =< k
    BY <1>2, <2>1, <2>2
  <2>4. k \in {1, 2, 3, 4} /\ m \in {1, 2, 3, 4}
    BY <1>1, <1>2, <2>1, <2>2
  <2> QED
    BY <2>2, <2>3, <2>4
<1> QED
  BY <1>1, <1>2

(* The four layers of Sources, one by one.                                  *)
LEMMA SourcesAre ==
  /\ DOMAIN Sources = 1 .. 4
  /\ Sources[1].layer = "session" /\ Sources[1].settings = session
  /\ Sources[2].layer = "user" /\ Sources[2].settings = FileSettings(user)
  /\ Sources[3].layer = "system" /\ Sources[3].settings = FileSettings(system)
  /\ Sources[4].layer = "builtin" /\ Sources[4].settings = Defaults
BY DEF Sources, FileSettings

(* Where the previews are coerced, the highest of the four layers that has  *)
(* an acceptable value decides.                                             *)
LEMMA HighestLayerDecides ==
  ASSUME SessionOK
  PROVE  HighestDecides
<1> SUFFICES ASSUME NEW r, r = Resolve(system, user, session),
                    NEW key \in Schema
             PROVE  /\ key \in DOMAIN r.value <=> Deciding(key) # {}
                    /\ Deciding(key) # {} =>
                         /\ r.layer[key] = Sources[Min(Deciding(key))].layer
                         /\ r.value[key] =
                              Coerce[Sources[Min(Deciding(key))].settings[key]]
                    /\ key \in r.refused <=>
                         \E i \in DOMAIN Sources :
                           key \in DOMAIN Sources[i].settings
                                     \ Accepted(Sources[i].settings)
  BY DEF HighestDecides
<1>1. PICK r1, r2 :
        /\ LaidOver(r1, Builtin, "system", FileSettings(system))
        /\ LaidOver(r2, r1, "user", FileSettings(user))
        /\ LaidOver(r, r2, "session", session)
  BY ResolveLays
<1> DEFINE D == Deciding(key)
<1>2. /\ D \in SUBSET (1 .. 4)
      /\ 1 \in D <=> key \in Accepted(session)
      /\ 2 \in D <=> key \in Accepted(FileSettings(user))
      /\ 3 \in D <=> key \in Accepted(FileSettings(system))
      /\ 4 \in D <=> key \in Accepted(Defaults)
  BY SourcesAre DEF Deciding
<1>3. \A k \in DOMAIN Defaults :
        /\ k \in Schema /\ k \in Accepted(Defaults)
        /\ Coerce[Defaults[k]] = Defaults[k]
  BY ValuesAssumption DEF Accepted, Schema
<1>4. /\ Accepted(Defaults) = DOMAIN Defaults
      /\ Builtin.value = Defaults /\ DOMAIN Builtin.layer = DOMAIN Defaults
      /\ \A k \in DOMAIN Defaults : Builtin.layer[k] = "builtin"
      /\ Builtin.refused = {}
  BY <1>3 DEF Builtin, Accepted
<1> HIDE DEF D
<1>5. D # {} <=> 1 \in D \/ 2 \in D \/ 3 \in D \/ 4 \in D
  <2>1. \A y \in 1 .. 4 : y \in {1, 2, 3, 4}
    OBVIOUS
  <2> QED
    BY <1>2, <2>1
<1>6. key \in DOMAIN r.value <=> D # {}
  BY <1>1, <1>2, <1>4, <1>5 DEF LaidOver
<1>7. ASSUME D # {}
      PROVE  /\ r.layer[key] = Sources[Min(D)].layer
             /\ r.value[key] = Coerce[Sources[Min(D)].settings[key]]
  <2>1. CASE 1 \in D
    BY <1>1, <1>2, <2>1, LowestOfFour, SourcesAre DEF LaidOver
  <2>2. CASE 1 \notin D /\ 2 \in D
    BY <1>1, <1>2, <2>2, LowestOfFour, SourcesAre DEF LaidOver
  <2>3. CASE 1 \notin D /\ 2 \notin D /\ 3 \in D
    BY <1>1, <1>2, <2>3, LowestOfFour, SourcesAre DEF LaidOver
  <2>4. CASE 1 \notin D /\ 2 \notin D /\ 3 \notin D /\ 4 \in D
    BY <1>1, <1>2, <1>3, <1>4, <2>4, LowestOfFour, SourcesAre DEF LaidOver
  <2> QED
    BY <1>5, <1>7, <2>1, <2>2, <2>3, <2>4
<1>8. key \in r.refused <=>
        \E i \in DOMAIN Sources :
          key \in DOMAIN Sources[i].settings \ Accepted(Sources[i].settings)
  <2>1. key \in r.refused <=>
          \/ key \in DOMAIN session \ Accepted(session)
          \/ key \in DOMAIN FileSettings(user) \ Accepted(FileSettings(user))
          \/ key \in DOMAIN FileSettings(system) \ Accepted(FileSettings(system))
    BY <1>1, <1>4 DEF LaidOver
  <2>2. key \notin DOMAIN Defaults \ Accepted(Defaults)
    BY <1>4
  <2> QED
    BY <2>1, <2>2, SourcesAre
<1> QED
  BY <1>6, <1>7, <1>8 DEF D

-----------------------------------------------------------------------------
(* What a text says *)

(* What a text says, line by line: the table in force after the last one,   *)
(* and what its assignments set.                                            *)
EndTable(text) == TableAt(text, Len(text) + 1)

Entry(table, line) == [key |-> <<table, line.leaf>>, value |-> line.value, kind |-> line.kind]

Entries(text) == {Entry(TableAt(text, i), text[i]) : i \in Assignments(text)}

(* A set of numbers up to n has a highest one.                              *)
LEMMA Highest ==
  ASSUME NEW n \in Nat, NEW T, T \subseteq 0 .. n, T # {}
  PROVE  Max(T) \in T /\ \A y \in T : y <= Max(T)
<1> DEFINE U == {n - y : y \in T}
<1>0. \A y \in T : y \in Nat /\ n - y \in Nat
  OBVIOUS
<1>1. U \subseteq Nat /\ U # {}
  BY <1>0
<1>2. PICK m \in U : \A k \in U : m <= k
  BY <1>1, LeastElement
<1>3. PICK x \in T : m = n - x
  BY <1>2
<1>4. ASSUME NEW y \in T
      PROVE  x >= y
  <2>1. m <= n - y
    BY <1>2
  <2> QED
    BY <1>0, <1>3, <2>1
<1>5. Max(T) \in T /\ \A y \in T : Max(T) >= y
  BY <1>4 DEF Max
<1> QED
  BY <1>0, <1>5

(* The lines of a text, as far as the proofs look at them.                  *)
LEMMA LineKinds ==
  ASSUME NEW line \in Lines
  PROVE  /\ line.kind \in {"table", "key", "quoted", "comment", "blank"}
         /\ line.kind = "table" => line.table \in Tables /\ line = Header(line.table)
         /\ line.kind \in {"key", "quoted"} =>
              /\ line.leaf \in Leaves /\ line.value \in DOMAIN Coerce
              /\ DOMAIN line = {"kind", "leaf", "value"}
         /\ line.kind = "key" => line = Assignment(line.leaf, line.value)
         /\ line = Blank <=> line.kind = "blank"
BY DEF Lines, Header, Assignment, Quoted, Comment, Blank

(* The lines that texts are made of. *)
LEMMA LinesAre ==
  /\ \A table \in Tables : Header(table) \in Lines
  /\ \A leaf \in Leaves, v \in DOMAIN Coerce : Assignment(leaf, v) \in Lines
  /\ Comment \in Lines /\ Blank \in Lines
<1>1. \A table \in Tables : Header(table) \in {Header(t) : t \in Tables}
  OBVIOUS
<1>2. \A leaf \in Leaves, v \in DOMAIN Coerce :
        Assignment(leaf, v) \in {Assignment(l, w) : l \in Leaves, w \in DOMAIN Coerce}
  OBVIOUS
<1> QED
  BY <1>1, <1>2 DEF Lines

(* The table in force is the same where the headers above are.              *)
LEMMA SameTable ==
  ASSUME NEW s \in Seq(Lines), NEW t \in Seq(Lines), NEW i \in Nat, NEW k \in Nat,
         \A j : j \in Headers(s) /\ j < i <=> j \in Headers(t) /\ j < k,
         \A j \in Headers(s) : j < i => s[j] = t[j]
  PROVE  TableAt(s, i) = TableAt(t, k)
<1> DEFINE A == {j \in Headers(s) : j < i}
<1>0. A = {j \in Headers(t) : j < k}
  OBVIOUS
<1>1. A \subseteq 1 .. Len(s) /\ Len(s) \in Nat
  BY DEF Headers
<1>2. CASE A = {}
  BY <1>0, <1>2 DEF TableAt
<1>3. CASE A # {}
  <2>1. Max(A) \in A
    BY <1>1, <1>3, Highest, SMTT(30)
  <2>2. s[Max(A)] = t[Max(A)]
    BY <2>1
  <2>3. /\ TableAt(s, i) = s[Max(A)].table
        /\ TableAt(t, k) = t[Max(A)].table
    BY <1>0, <1>3, Zenon DEF TableAt
  <2> QED
    BY <2>2, <2>3
<1> QED
  BY <1>2, <1>3

(* What is put below a text does not change what is above; and without a    *)
(* header it belongs to the last table.                                     *)
LEMMA TablesOfJoined ==
  ASSUME NEW s \in Seq(Lines), NEW t \in Seq(Lines)
  PROVE  /\ \A i \in 1 .. Len(s) + 1 : TableAt(s \o t, i) = TableAt(s, i)
         /\ Headers(t) = {} =>
              \A i \in Len(s) + 1 .. Len(s) + Len(t) + 1 :
                TableAt(s \o t, i) = EndTable(s)
<1>1. /\ s \o t \in Seq(Lines) /\ Len(s) \in Nat /\ Len(t) \in Nat
      /\ DOMAIN (s \o t) = 1 .. Len(s) + Len(t)
      /\ DOMAIN s = 1 .. Len(s) /\ DOMAIN t = 1 .. Len(t)
      /\ \A i \in 1 .. Len(s) : (s \o t)[i] = s[i]
      /\ \A i \in Len(s) + 1 .. Len(s) + Len(t) :
           (s \o t)[i] = t[i - Len(s)] /\ i - Len(s) \in 1 .. Len(t)
  BY ConcatProperties, LenProperties
<1>2. ASSUME NEW i \in 1 .. Len(s) + 1
      PROVE  TableAt(s \o t, i) = TableAt(s, i)
  <2>1. \A j : j \in Headers(s \o t) /\ j < i <=> j \in Headers(s) /\ j < i
    BY <1>1 DEF Headers
  <2>2. \A j \in Headers(s \o t) : j < i => (s \o t)[j] = s[j]
    BY <1>1 DEF Headers
  <2>3. i \in Nat
    BY <1>1
  <2> QED
    BY <1>1, <2>1, <2>2, <2>3, SameTable, ZenonT(40)
<1>3. ASSUME Headers(t) = {}, NEW i \in Len(s) + 1 .. Len(s) + Len(t) + 1
      PROVE  TableAt(s \o t, i) = EndTable(s)
  <2>1. \A j : j \in Headers(s \o t) /\ j < i <=> j \in Headers(s) /\ j < Len(s) + 1
    <3>1. \A j \in Headers(s \o t) : j \in 1 .. Len(s)
      BY <1>1, <1>3 DEF Headers
    <3>2. \A j \in 1 .. Len(s) : j \in Headers(s \o t) <=> j \in Headers(s)
      BY <1>1 DEF Headers
    <3>3. \A j \in Headers(s) : j \in 1 .. Len(s)
      BY <1>1 DEF Headers
    <3> QED
      BY <1>1, <3>1, <3>2, <3>3
  <2>2. \A j \in Headers(s \o t) : j < i => (s \o t)[j] = s[j]
    BY <1>1, <2>1 DEF Headers
  <2>3. i \in Nat /\ Len(s) + 1 \in Nat
    BY <1>1
  <2> QED
    BY <1>1, <2>1, <2>2, <2>3, SameTable, ZenonT(40) DEF EndTable
<1> QED
  BY <1>2, <1>3

LEMMA EntriesOfJoined ==
  ASSUME NEW s \in Seq(Lines), NEW t \in Seq(Lines), Headers(t) = {}
  PROVE  /\ EndTable(s \o t) = EndTable(s)
         /\ Entries(s \o t) = Entries(s) \cup {Entry(EndTable(s), t[i]) : i \in Assignments(t)}
<1>1. /\ s \o t \in Seq(Lines) /\ Len(s) \in Nat /\ Len(t) \in Nat
      /\ Len(s \o t) = Len(s) + Len(t)
      /\ DOMAIN (s \o t) = 1 .. Len(s) + Len(t)
      /\ DOMAIN s = 1 .. Len(s) /\ DOMAIN t = 1 .. Len(t)
      /\ \A i \in 1 .. Len(s) : (s \o t)[i] = s[i]
      /\ \A i \in 1 .. Len(t) : (s \o t)[Len(s) + i] = t[i]
  BY ConcatProperties, LenProperties
<1>2. EndTable(s \o t) = EndTable(s)
  BY <1>1, TablesOfJoined DEF EndTable
<1>3. ASSUME NEW i \in 1 .. Len(s)
      PROVE  /\ i \in Assignments(s \o t) <=> i \in Assignments(s)
             /\ Entry(TableAt(s \o t, i), (s \o t)[i]) = Entry(TableAt(s, i), s[i])
  BY <1>1, TablesOfJoined DEF Assignments
<1>4. ASSUME NEW i \in 1 .. Len(t)
      PROVE  /\ Len(s) + i \in Assignments(s \o t) <=> i \in Assignments(t)
             /\ Entry(TableAt(s \o t, Len(s) + i), (s \o t)[Len(s) + i])
                  = Entry(EndTable(s), t[i])
  BY <1>1, TablesOfJoined DEF Assignments
<1>5. Assignments(s) \subseteq 1 .. Len(s) /\ Assignments(t) \subseteq 1 .. Len(t)
  BY <1>1 DEF Assignments
<1>6. \A i \in Assignments(s \o t) :
        i \in 1 .. Len(s) \/ \E k \in 1 .. Len(t) : i = Len(s) + k
  <2> SUFFICES ASSUME NEW i \in Assignments(s \o t), i \notin 1 .. Len(s)
               PROVE  \E k \in 1 .. Len(t) : i = Len(s) + k
    OBVIOUS
  <2>1. i \in 1 .. Len(s) + Len(t)
    BY <1>1 DEF Assignments
  <2>2. i - Len(s) \in 1 .. Len(t) /\ i = Len(s) + (i - Len(s))
    BY <1>1, <2>1
  <2> QED
    BY <2>2
<1>7. ASSUME NEW e \in Entries(s \o t)
      PROVE  e \in Entries(s) \cup {Entry(EndTable(s), t[i]) : i \in Assignments(t)}
  <2>1. PICK i \in Assignments(s \o t) : e = Entry(TableAt(s \o t, i), (s \o t)[i])
    BY <1>7 DEF Entries
  <2>2. CASE i \in 1 .. Len(s)
    BY <1>3, <2>1, <2>2 DEF Entries
  <2>3. CASE \E k \in 1 .. Len(t) : i = Len(s) + k
    BY <1>4, <2>1, <2>3
  <2> QED
    BY <1>6, <2>2, <2>3
<1>8. Entries(s) \subseteq Entries(s \o t)
  BY <1>3, <1>5 DEF Entries
<1>9. {Entry(EndTable(s), t[i]) : i \in Assignments(t)} \subseteq Entries(s \o t)
  BY <1>4, <1>5 DEF Entries
<1> QED
  BY <1>2, <1>7, <1>8, <1>9

LEMMA Appended ==
  ASSUME NEW s \in Seq(Lines), NEW line \in Lines
  PROVE  /\ Append(s, line) \in Seq(Lines) /\ Append(s, line) = s \o <<line>>
         /\ Len(Append(s, line)) = Len(s) + 1 /\ Append(s, line)[Len(s) + 1] = line
         /\ \A i \in 1 .. Len(s) : Append(s, line)[i] = s[i]
         /\ DOMAIN s = 1 .. Len(s) /\ DOMAIN Append(s, line) = 1 .. Len(s) + 1
         /\ Len(s) \in Nat
BY AppendProperties, AppendIsConcat, LenProperties

(* A header below a text begins its table, and sets nothing.                *)
LEMMA HeaderBegins ==
  ASSUME NEW s \in Seq(Lines), NEW line \in Lines, line.kind = "table"
  PROVE  /\ EndTable(Append(s, line)) = line.table
         /\ Entries(Append(s, line)) = Entries(s)
<1> DEFINE n == Len(s) + 1
           A == {j \in Headers(Append(s, line)) : j < n + 1}
<1>1. n \in A /\ A \subseteq 1 .. n /\ A \subseteq 0 .. n /\ n \in Nat
  BY Appended DEF Headers
<1>2. Max(A) = n
  <2>1. Max(A) \in A /\ \A y \in A : y <= Max(A)
    BY <1>1, Highest
  <2> HIDE DEF A, n
  <2>2. n <= Max(A) /\ Max(A) \in 1 .. n
    BY <1>1, <2>1
  <2> QED
    BY <1>1, <2>2
<1>3. EndTable(Append(s, line)) = line.table
  <2>1. Len(Append(s, line)) + 1 = n + 1 /\ Append(s, line)[n] = line
    BY Appended
  <2>2. TableAt(Append(s, line), n + 1) = Append(s, line)[Max(A)].table
    BY <1>1, Zenon DEF TableAt
  <2> QED
    BY <1>2, <2>1, <2>2 DEF EndTable
<1>4. Assignments(Append(s, line)) = Assignments(s) /\ Assignments(s) \subseteq 1 .. Len(s)
  BY Appended DEF Assignments
<1>5. \A i \in Assignments(s) :
        /\ TableAt(Append(s, line), i) = TableAt(s, i)
        /\ Append(s, line)[i] = s[i]
  <2>1. <<line>> \in Seq(Lines)
    OBVIOUS
  <2>2. \A i \in 1 .. Len(s) + 1 : TableAt(s \o <<line>>, i) = TableAt(s, i)
    BY <2>1, TablesOfJoined
  <2>3. Append(s, line) = s \o <<line>>
    BY Appended
  <2>4. \A i \in Assignments(s) : i \in 1 .. Len(s) + 1
    BY <1>4, Appended
  <2>5. \A i \in Assignments(s) : Append(s, line)[i] = s[i]
    BY <1>4, Appended
  <2> QED
    BY <2>2, <2>3, <2>4, <2>5, Zenon
<1> QED
  BY <1>3, <1>4, <1>5 DEF Entries

(* An assignment below a text sets its key in the text's last table, and no *)
(* other line sets anything.                                                *)
LEMMA LineAdds ==
  ASSUME NEW s \in Seq(Lines), NEW line \in Lines, line.kind # "table"
  PROVE  /\ EndTable(Append(s, line)) = EndTable(s)
         /\ Entries(Append(s, line)) = Entries(s)
              \cup (IF line.kind \in {"key", "quoted"} THEN {Entry(EndTable(s), line)} ELSE {})
<1>1. /\ <<line>> \in Seq(Lines) /\ Headers(<<line>>) = {}
      /\ Assignments(<<line>>) = IF line.kind \in {"key", "quoted"} THEN {1} ELSE {}
  BY DEF Headers, Assignments
<1>2. /\ EndTable(s \o <<line>>) = EndTable(s)
      /\ Entries(s \o <<line>>)
           = Entries(s) \cup {Entry(EndTable(s), <<line>>[i]) : i \in Assignments(<<line>>)}
  BY <1>1, EntriesOfJoined
<1>3. {Entry(EndTable(s), <<line>>[i]) : i \in Assignments(<<line>>)}
        = IF line.kind \in {"key", "quoted"} THEN {Entry(EndTable(s), line)} ELSE {}
  BY <1>1
<1> QED
  BY <1>2, <1>3, Appended

(* The frame of a text is got line by line.                                 *)
LEMMA FrameIs ==
  ASSUME NEW s \in Seq(Lines)
  PROVE  \E kept \in [0 .. Len(s) -> Seq(Lines)] :
           /\ kept[0] = <<>>
           /\ \A i \in 1 .. Len(s) :
                kept[i] = IF Framing(s[i]) THEN Append(kept[i - 1], s[i]) ELSE kept[i - 1]
           /\ Frame(s) = kept[Len(s)]
<1> DEFINE N == Len(s)
           S == Seq(Lines)
           Step == [i \in 1 .. N |-> [v \in S |-> IF Framing(s[i]) THEN Append(v, s[i]) ELSE v]]
           Body(t) == [i \in 0 .. N |->
                         IF i = 0 THEN <<>>
                         ELSE IF Framing(s[i]) THEN Append(t[i - 1], s[i]) ELSE t[i - 1]]
           t == CHOOSE t : t = Body(t)
<1>1. N \in Nat /\ \A i \in 1 .. N : s[i] \in Lines
  OBVIOUS
<1>2. Frame(s) = t[N]
  BY Zenon DEF Frame
<1>3. StaysIn(S, N, Step)
  BY <1>1 DEF StaysIn
<1>4. PICK kept : Iterates(kept, S, N, <<>>, Step)
  <2>1. <<>> \in S
    OBVIOUS
  <2> HIDE DEF Step, N, S
  <2> QED
    BY <1>1, <1>3, <2>1, Recursion
<1>5. /\ kept \in [0 .. N -> S] /\ kept[0] = <<>>
      /\ \A i \in 1 .. N :
           kept[i] = IF Framing(s[i]) THEN Append(kept[i - 1], s[i]) ELSE kept[i - 1]
  <2>1. kept \in [0 .. N -> S] /\ kept[0] = <<>>
    BY <1>4 DEF Iterates
  <2>2. ASSUME NEW i \in 1 .. N
        PROVE  kept[i] = IF Framing(s[i]) THEN Append(kept[i - 1], s[i]) ELSE kept[i - 1]
    <3>1. kept[i] = Step[i][kept[i - 1]]
      BY <1>4 DEF Iterates
    <3>2. kept[i - 1] \in S
      BY <1>1, <2>1
    <3> HIDE DEF S
    <3> QED
      BY <3>1, <3>2
  <2> QED
    BY <2>1, <2>2
<1>6. kept = Body(kept)
  <2> HIDE DEF N, S
  <2>1. \A i \in 0 .. N : i = 0 \/ i \in 1 .. N
    BY <1>1
  <2>2. \A i \in 0 .. N : kept[i] = Body(kept)[i]
    BY <1>5, <2>1
  <2>3. kept = [i \in 0 .. N |-> kept[i]]
    BY <1>5
  <2> QED
    BY <2>2, <2>3
<1>7. t = Body(t)
  <2> HIDE DEF Body
  <2> QED
    BY <1>6
<1> HIDE DEF t
<1> DEFINE T == {i \in 0 .. N : t[i] = kept[i]}
<1>8. 0 \in T
  BY <1>1, <1>5, <1>7
<1>9. ASSUME NEW i \in 0 .. N - 1, i \in T
      PROVE  i + 1 \in T
  <2>1. i + 1 \in 1 .. N /\ (i + 1) - 1 = i /\ i + 1 # 0 /\ i + 1 \in 0 .. N
    BY <1>1
  <2> HIDE DEF N, S
  <2>2. t[i + 1] = IF Framing(s[i + 1]) THEN Append(t[i], s[i + 1]) ELSE t[i]
    BY <1>7, <2>1
  <2>3. kept[i + 1] = IF Framing(s[i + 1]) THEN Append(kept[i], s[i + 1]) ELSE kept[i]
    BY <1>5, <2>1
  <2> QED
    BY <1>9, <2>1, <2>2, <2>3
<1>10. N \in T
  <2> HIDE DEF T
  <2> QED
    BY <1>1, <1>8, <1>9, N \in 0 .. N, Induction
<1> QED
  BY <1>2, <1>5, <1>10

(* One line more in a text is one line more in its frame, if any.           *)
LEMMA FrameAdds ==
  ASSUME NEW s \in Seq(Lines), NEW line \in Lines
  PROVE  /\ Frame(s) \in Seq(Lines)
         /\ Frame(Append(s, line)) = IF Framing(line) THEN Append(Frame(s), line) ELSE Frame(s)
<1> DEFINE n == Len(s)
           more == Append(s, line)
<1>1. PICK f \in [0 .. n -> Seq(Lines)] :
        /\ f[0] = <<>>
        /\ \A i \in 1 .. n : f[i] = IF Framing(s[i]) THEN Append(f[i - 1], s[i]) ELSE f[i - 1]
        /\ Frame(s) = f[n]
  BY FrameIs
<1>2. /\ more \in Seq(Lines) /\ Len(more) = n + 1 /\ more[n + 1] = line
      /\ \A i \in 1 .. n : more[i] = s[i]
      /\ n \in Nat
  BY Appended
<1>3. PICK g \in [0 .. n + 1 -> Seq(Lines)] :
        /\ g[0] = <<>>
        /\ \A i \in 1 .. n + 1 :
             g[i] = IF Framing(more[i]) THEN Append(g[i - 1], more[i]) ELSE g[i - 1]
        /\ Frame(more) = g[n + 1]
  <2> HIDE DEF more
  <2> QED
    BY <1>2, FrameIs
<1> HIDE DEF n, more
<1> DEFINE T == {i \in 0 .. n : g[i] = f[i]}
<1>4. 0 \in T
  BY <1>1, <1>2, <1>3
<1>5. ASSUME NEW i \in 0 .. n - 1, i \in T
      PROVE  i + 1 \in T
  <2>1. i + 1 \in 1 .. n /\ i + 1 \in 1 .. n + 1 /\ (i + 1) - 1 = i /\ i + 1 \in 0 .. n
    BY <1>2
  <2>2. g[i + 1] = IF Framing(more[i + 1]) THEN Append(g[i], more[i + 1]) ELSE g[i]
    BY <1>3, <2>1
  <2>3. f[i + 1] = IF Framing(s[i + 1]) THEN Append(f[i], s[i + 1]) ELSE f[i]
    BY <1>1, <2>1
  <2> QED
    BY <1>2, <1>5, <2>1, <2>2, <2>3
<1>6. n \in T
  <2> HIDE DEF T
  <2> QED
    BY <1>2, <1>4, <1>5, n \in 0 .. n, Induction
<1>7. g[n + 1] = IF Framing(line) THEN Append(g[n], line) ELSE g[n]
  <2>1. n + 1 \in 1 .. n + 1 /\ (n + 1) - 1 = n
    BY <1>2
  <2> QED
    BY <1>2, <1>3, <2>1
<1> QED
  BY <1>1, <1>2, <1>3, <1>6, <1>7 DEF more

(* A text up to a line is that up to the one before, and the line.          *)
LEMMA Grows ==
  ASSUME NEW t \in Seq(Lines), NEW k \in 0 .. Len(t) - 1
  PROVE  /\ SubSeq(t, 1, k) \in Seq(Lines) /\ t[k + 1] \in Lines
         /\ SubSeq(t, 1, k + 1) = Append(SubSeq(t, 1, k), t[k + 1])
<1>1. Len(t) \in Nat /\ k + 1 \in 1 .. Len(t) /\ 1 \in 1 .. Len(t) /\ k + 1 \in 1 .. Len(t)
      /\ (k + 1) - 1 = k
  BY LenProperties
<1>2. t[k + 1] \in Lines
  BY <1>1, ElementOfSeq
<1>3. SubSeq(t, 1, k) \in Seq(Lines)
  <2>1. \A i \in 1 .. k : t[i] \in Lines
    BY <1>1, ElementOfSeq
  <2> QED
    BY <1>1, <2>1, SubSeqProperties
<1>4. SubSeq(t, 1, k + 1) = SubSeq(t, 1, (k + 1) - 1) \o <<t[k + 1]>>
  BY <1>1, SubSeqRecursiveSecond
<1> QED
  BY <1>1, <1>2, <1>3, <1>4, AppendIsConcat

(* The frame of two texts put together is their frames put together.        *)
LEMMA FrameJoins ==
  ASSUME NEW s \in Seq(Lines), NEW t \in Seq(Lines)
  PROVE  /\ Frame(s \o t) = Frame(s) \o Frame(t)
         /\ Frame(s) \in Seq(Lines) /\ Frame(t) \in Seq(Lines)
<1> DEFINE Up(k) == SubSeq(t, 1, k)
           T == {k \in 0 .. Len(t) : /\ Up(k) \in Seq(Lines)
                                     /\ Frame(Up(k)) \in Seq(Lines)
                                     /\ Frame(s \o Up(k)) = Frame(s) \o Frame(Up(k))}
<1>1. Len(t) \in Nat /\ Up(0) = <<>> /\ Up(Len(t)) = t /\ s \o <<>> = s
  BY SubSeqFull, SubSeqEmpty, ConcatEmptySeq, LenProperties
<1>2. Frame(s) \in Seq(Lines)
  <2>1. Comment \in Lines
    BY DEF Lines
  <2> QED
    BY <2>1, FrameAdds
<1>3. Frame(<<>>) = <<>> /\ Frame(s) \o <<>> = Frame(s)
  <2>1. <<>> \in Seq(Lines) /\ Len(<<>>) = 0
    BY EmptySeq
  <2> QED
    BY <1>2, <2>1, FrameIs, ConcatEmptySeq
<1>4. 0 \in T
  <2>1. <<>> \in Seq(Lines) /\ 0 \in 0 .. Len(t)
    BY <1>1, EmptySeq
  <2>2. Frame(s \o Up(0)) = Frame(s) \o Frame(Up(0)) /\ Frame(Up(0)) = <<>>
    BY <1>1, <1>3
  <2> HIDE DEF Up
  <2> QED
    BY <1>1, <2>1, <2>2
<1>5. ASSUME NEW k \in 0 .. Len(t) - 1, k \in T
      PROVE  k + 1 \in T
  <2> DEFINE p == Up(k)
             line == t[k + 1]
  <2>1. p \in Seq(Lines) /\ line \in Lines /\ Up(k + 1) = Append(p, line)
    BY Grows
  <2>2. Frame(p) \in Seq(Lines) /\ Frame(s \o p) = Frame(s) \o Frame(p)
    BY <1>5
  <2> HIDE DEF p, line, Up
  <2>3. s \o Append(p, line) = Append(s \o p, line) /\ s \o p \in Seq(Lines)
    <3>1. <<line>> \in Seq(Lines) /\ s \o p \in Seq(Lines)
      BY <2>1, ConcatProperties
    <3>2. s \o (p \o <<line>>) = (s \o p) \o <<line>>
      BY <2>1, <3>1, ConcatAssociative, SMTT(30)
    <3> QED
      BY <2>1, <3>1, <3>2, AppendIsConcat
  <2>4. Frame(s) \o Append(Frame(p), line) = Append(Frame(s) \o Frame(p), line)
    <3>1. <<line>> \in Seq(Lines) /\ Frame(s) \o Frame(p) \in Seq(Lines)
      BY <1>2, <2>1, <2>2, ConcatProperties
    <3>2. Frame(s) \o (Frame(p) \o <<line>>) = (Frame(s) \o Frame(p)) \o <<line>>
      BY <1>2, <2>2, <3>1, ConcatAssociative
    <3> QED
      BY <2>1, <2>2, <3>1, <3>2, AppendIsConcat
  <2>5. /\ Frame(Append(p, line))
             = IF Framing(line) THEN Append(Frame(p), line) ELSE Frame(p)
        /\ Frame(Append(s \o p, line))
             = IF Framing(line) THEN Append(Frame(s \o p), line) ELSE Frame(s \o p)
    BY <2>1, <2>3, FrameAdds
  <2>6. /\ Append(p, line) \in Seq(Lines) /\ Append(Frame(p), line) \in Seq(Lines)
        /\ k + 1 \in 0 .. Len(t)
    BY <1>1, <2>1, <2>2, Appended
  <2>7. Frame(Append(p, line)) \in Seq(Lines)
    BY <2>2, <2>5, <2>6
  <2>8. Frame(s \o Append(p, line)) = Frame(s) \o Frame(Append(p, line))
    BY <2>2, <2>3, <2>4, <2>5
  <2> QED
    BY <2>1, <2>6, <2>7, <2>8
<1>6. Len(t) \in T
  <2> HIDE DEF T
  <2> QED
    BY <1>1, <1>4, <1>5, Len(t) \in 0 .. Len(t), Induction
<1> QED
  BY <1>1, <1>2, <1>6

(* A text without headers and comments has no frame.                        *)
LEMMA NoFrame ==
  ASSUME NEW t \in Seq(Lines), \A i \in 1 .. Len(t) : ~Framing(t[i])
  PROVE  Frame(t) = <<>>
<1>1. PICK f \in [0 .. Len(t) -> Seq(Lines)] :
        /\ f[0] = <<>>
        /\ \A i \in 1 .. Len(t) : f[i] = IF Framing(t[i]) THEN Append(f[i - 1], t[i]) ELSE f[i - 1]
        /\ Frame(t) = f[Len(t)]
  BY FrameIs
<1> DEFINE T == {i \in 0 .. Len(t) : f[i] = <<>>}
<1>2. Len(t) \in Nat
  OBVIOUS
<1>3. 0 \in T
  BY <1>1, <1>2
<1>4. ASSUME NEW i \in 0 .. Len(t) - 1, i \in T
      PROVE  i + 1 \in T
  <2>1. i + 1 \in 1 .. Len(t) /\ (i + 1) - 1 = i /\ i + 1 \in 0 .. Len(t)
    BY <1>2
  <2> QED
    BY <1>1, <1>4, <2>1
<1>5. Len(t) \in T
  <2> HIDE DEF T
  <2> QED
    BY <1>2, <1>3, <1>4, Len(t) \in 0 .. Len(t), Induction
<1> QED
  BY <1>1, <1>5

-----------------------------------------------------------------------------
(* A text in two parts is put together from them. *)
LEMMA Parts ==
  ASSUME NEW s \in Seq(Lines), NEW b \in 0 .. Len(s)
  PROVE  LET above == SubSeq(s, 1, b)
             below == SubSeq(s, b + 1, Len(s))
         IN  /\ above \in Seq(Lines) /\ below \in Seq(Lines)
             /\ s = above \o below
             /\ DOMAIN below = 1 .. Len(below)
             /\ \A i \in 1 .. Len(below) : b + i \in DOMAIN s /\ below[i] = s[b + i]
<1> DEFINE above == SubSeq(s, 1, b)
           below == SubSeq(s, b + 1, Len(s))
<1>1. Len(s) \in Nat /\ DOMAIN s = 1 .. Len(s) /\ \A i \in 1 .. Len(s) : s[i] \in Lines
  BY LenProperties, ElementOfSeq
<1>2. above \in Seq(Lines)
  BY <1>1, SubSeqProperties
<1>3. /\ below \in Seq(Lines)
      /\ Len(below) = IF b + 1 <= Len(s) THEN Len(s) - (b + 1) + 1 ELSE 0
      /\ \A i \in 1 .. Len(s) - (b + 1) + 1 : below[i] = s[(b + 1) + i - 1]
  BY <1>1, SubSeqProperties
<1>4. s = above \o below
  <2>1. 1 \in 1 .. Len(s) + 1 /\ b \in 1 - 1 .. Len(s) /\ Len(s) \in b .. Len(s)
    BY <1>1
  <2> QED
    BY <2>1, ConcatAdjacentSubSeq, SubSeqFull
<1> HIDE DEF above, below
<1>5. Len(below) = Len(s) - b
  <2>1. Len(below) = IF b + 1 <= Len(s) THEN Len(s) - (b + 1) + 1 ELSE 0
    BY <1>3
  <2>2. b \in 0 .. Len(s) /\ Len(s) \in Nat
    BY <1>1
  <2>3. CASE b = Len(s)
    BY <2>1, <2>2, <2>3
  <2>4. CASE b + 1 <= Len(s)
    BY <2>1, <2>2, <2>4
  <2> QED
    BY <2>2, <2>3, <2>4
<1>6. ASSUME NEW i \in 1 .. Len(below)
      PROVE  b + i \in DOMAIN s /\ below[i] = s[b + i]
  <2>1. (b + 1) + i - 1 = b + i /\ i \in 1 .. Len(s) - (b + 1) + 1 /\ b + i \in 1 .. Len(s)
    BY <1>1, <1>5
  <2> QED
    BY <1>1, <1>3, <2>1
<1> QED
  BY <1>2, <1>3, <1>4, <1>6, LenProperties DEF above, below

(* Loose lines say nothing. *)
LEMMA LooseSaysNothing ==
  ASSUME NEW s \in Seq(Lines), NEW t \in Seq(Lines), \A i \in 1 .. Len(t) : Loose(t[i])
  PROVE  EndTable(s \o t) = EndTable(s) /\ Entries(s \o t) = Entries(s)
<1>1. Headers(t) = {} /\ Assignments(t) = {}
  BY LenProperties DEF Headers, Assignments, Loose
<1>2. {Entry(EndTable(s), t[i]) : i \in Assignments(t)} = {}
  BY <1>1
<1> QED
  BY <1>1, <1>2, EntriesOfJoined, ZenonT(40)

(* What is below the last line that is not loose is loose. *)
LEMMA BodyEnds ==
  ASSUME NEW s \in Seq(Lines)
  PROVE  BodyLen(s) \in 0 .. Len(s) /\ \A i \in DOMAIN s : i > BodyLen(s) => Loose(s[i])
<1> DEFINE B == {0} \cup {i \in DOMAIN s : ~Loose(s[i])}
<1>1. Len(s) \in Nat /\ DOMAIN s = 1 .. Len(s) /\ B \subseteq 0 .. Len(s) /\ B # {}
  BY LenProperties
<1>2. BodyLen(s) = Max(B)
  BY DEF BodyLen
<1>3. Max(B) \in B /\ \A y \in B : y <= Max(B)
  BY <1>1, Highest
<1>4. ASSUME NEW i \in DOMAIN s, i > BodyLen(s)
      PROVE  Loose(s[i])
  <2>1. ~(i <= Max(B))
    BY <1>1, <1>2, <1>3, <1>4
  <2> QED
    BY <1>3, <2>1
<1> QED
  BY <1>1, <1>2, <1>3, <1>4

(* The blank lines at the end of a text say nothing, and have no frame. *)
LEMMA TrimmedSays ==
  ASSUME NEW s \in Seq(Lines)
  PROVE  /\ Trimmed(s) \in Seq(Lines)
         /\ Entries(Trimmed(s)) = Entries(s)
         /\ Frame(Trimmed(s)) = Frame(s)
<1> DEFINE B == {0} \cup {i \in DOMAIN s : s[i] # Blank}
           b == Max(B)
           above == SubSeq(s, 1, b)
           below == SubSeq(s, b + 1, Len(s))
<1>1. Len(s) \in Nat /\ DOMAIN s = 1 .. Len(s) /\ B \subseteq 0 .. Len(s) /\ B # {}
  BY LenProperties
<1>2. b \in B /\ \A y \in B : y <= b
  BY <1>1, Highest
<1>3. b \in 0 .. Len(s)
  BY <1>1, <1>2
<1>4. Trimmed(s) = above
  BY DEF Trimmed
<1>5. ASSUME NEW i \in DOMAIN s, i > b
      PROVE  s[i] = Blank
  <2>1. ~(i <= b)
    BY <1>1, <1>3, <1>5
  <2> QED
    BY <1>2, <2>1
<1> HIDE DEF b
<1>6. /\ above \in Seq(Lines) /\ below \in Seq(Lines) /\ s = above \o below
      /\ \A i \in 1 .. Len(below) : b + i \in DOMAIN s /\ below[i] = s[b + i]
  BY <1>3, Parts
<1> HIDE DEF above, below
<1>7. ASSUME NEW i \in 1 .. Len(below)
      PROVE  below[i] = Blank
  <2>1. b + i \in DOMAIN s /\ below[i] = s[b + i] /\ b + i > b
    BY <1>1, <1>3, <1>6
  <2> QED
    BY <1>5, <2>1
<1>8. \A i \in 1 .. Len(below) : Loose(below[i]) /\ ~Framing(below[i])
  BY <1>7 DEF Blank, Loose, Framing
<1>9. Entries(s) = Entries(above)
  BY <1>6, <1>8, LooseSaysNothing
<1>10. Frame(s) = Frame(above) \o Frame(below) /\ Frame(below) = <<>> /\ Frame(above) \in Seq(Lines)
  BY <1>6, <1>8, FrameJoins, NoFrame
<1> QED
  BY <1>4, <1>6, <1>9, <1>10, ConcatEmptySeq

(* Assignments put below the last line of the last table are that table's,  *)
(* and change nothing else.                                                 *)
LEMMA InsertedSays ==
  ASSUME NEW s \in Seq(Lines), NEW more \in Seq(Lines),
         \A i \in 1 .. Len(more) : more[i].kind = "key"
  PROVE  LET b == BodyLen(s)
             r == SubSeq(s, 1, b) \o more \o SubSeq(s, b + 1, Len(s))
         IN  /\ r \in Seq(Lines)
             /\ EndTable(r) = EndTable(s)
             /\ Frame(r) = Frame(s)
             /\ Entries(r) = Entries(s) \cup {Entry(EndTable(s), more[i]) : i \in 1 .. Len(more)}
<1> DEFINE b == BodyLen(s)
           above == SubSeq(s, 1, b)
           below == SubSeq(s, b + 1, Len(s))
<1>1. b \in 0 .. Len(s) /\ \A i \in DOMAIN s : i > b => Loose(s[i])
  BY BodyEnds
<1>2. Len(s) \in Nat /\ DOMAIN more = 1 .. Len(more)
  BY LenProperties
<1> HIDE DEF b
<1>3. /\ above \in Seq(Lines) /\ below \in Seq(Lines) /\ s = above \o below
      /\ \A i \in 1 .. Len(below) : b + i \in DOMAIN s /\ below[i] = s[b + i]
  BY <1>1, Parts
<1> HIDE DEF above, below
<1>4. ASSUME NEW i \in 1 .. Len(below)
      PROVE  Loose(below[i])
  <2>1. b + i \in DOMAIN s /\ below[i] = s[b + i] /\ b + i > b
    BY <1>1, <1>2, <1>3
  <2> QED
    BY <1>1, <2>1
<1>5. above \o more \in Seq(Lines) /\ (above \o more) \o below \in Seq(Lines)
  BY <1>3, ConcatProperties
<1>6. EndTable(s) = EndTable(above) /\ Entries(s) = Entries(above)
  BY <1>3, <1>4, LooseSaysNothing
<1>7. Headers(more) = {} /\ Assignments(more) = 1 .. Len(more)
  BY <1>2 DEF Headers, Assignments
<1>8. /\ EndTable(above \o more) = EndTable(above)
      /\ Entries(above \o more)
           = Entries(above) \cup {Entry(EndTable(above), more[i]) : i \in 1 .. Len(more)}
  BY <1>3, <1>7, EntriesOfJoined, ZenonT(40)
<1>9. /\ EndTable((above \o more) \o below) = EndTable(above \o more)
      /\ Entries((above \o more) \o below) = Entries(above \o more)
  BY <1>3, <1>4, <1>5, LooseSaysNothing
<1>10. Frame((above \o more) \o below) = Frame(s)
  <2>1. Frame(more) = <<>>
    BY NoFrame DEF Framing
  <2>2. /\ Frame((above \o more) \o below) = Frame(above \o more) \o Frame(below)
        /\ Frame(above \o more) = Frame(above) \o Frame(more)
        /\ Frame(s) = Frame(above) \o Frame(below)
        /\ Frame(above) \in Seq(Lines)
    BY <1>3, <1>5, FrameJoins
  <2> QED
    BY <2>1, <2>2, ConcatEmptySeq
<1> QED
  BY <1>5, <1>6, <1>8, <1>9, <1>10 DEF b, above, below

-----------------------------------------------------------------------------
(* update_toml_content *)

(* A set of keys and what they are to be: all that validate_updates yields. *)
Edit(updates) ==
  /\ DOMAIN updates \subseteq Tables \X Leaves
  /\ IsFiniteSet(DOMAIN updates)
  /\ \A key \in DOMAIN updates : updates[key] \in DOMAIN Coerce

(* SetToSeq puts a finite set in some order. *)
LEMMA Enumerates ==
  ASSUME NEW S, IsFiniteSet(S)
  PROVE  /\ SetToSeq(S) \in Seq(S)
         /\ \A x \in S : \E i \in 1 .. Len(SetToSeq(S)) : SetToSeq(S)[i] = x
<1> DEFINE n == Cardinality(S)
           q == SetToSeq(S)
<1>1. n \in Nat /\ ExistsBijection(1 .. n, S)
  BY FS_CardinalityType
<1>2. \E f \in [1 .. n -> S] : IsInjective(f)
  BY <1>1 DEF ExistsBijection, Bijection, Injection
<1>3. q \in [1 .. n -> S] /\ IsInjective(q)
  BY <1>2 DEF SetToSeq
<1> HIDE DEF q, n
<1>4. q \in Injection(1 .. n, S)
  BY <1>3 DEF Injection
<1>5. Cardinality(1 .. n) = n /\ IsFiniteSet(1 .. n)
  BY <1>1, FS_Interval
<1>6. q \in Surjection(1 .. n, S)
  BY <1>4, <1>5, FS_Injection DEF n
<1>7. \A x \in S : \E i \in 1 .. n : q[i] = x
  BY <1>6 DEF Surjection
<1>8. q \in Seq(S) /\ Len(q) = n
  BY <1>1, <1>3
<1> QED
  BY <1>7, <1>8 DEF q

(* The leaves of a table, and the tables themselves, are finitely many.     *)
LEMMA EditIsFinite ==
  ASSUME NEW updates, Edit(updates), NEW table, NEW T
  PROVE  /\ LeavesFor(updates, table) \subseteq Leaves
         /\ \A leaf : leaf \in LeavesFor(updates, table) <=> <<table, leaf>> \in DOMAIN updates
         /\ IsFiniteSet(LeavesFor(updates, table))
         /\ IsFiniteSet({key[1] : key \in DOMAIN updates} \ T)
         /\ {key[1] : key \in DOMAIN updates} \subseteq Tables
<1> DEFINE D == DOMAIN updates
           K == {key \in D : key[1] = table}
           L == LeavesFor(updates, table)
           A == {key[1] : key \in D}
<1>1. D \subseteq Tables \X Leaves /\ IsFiniteSet(D)
  BY DEF Edit
<1>2. L = {key[2] : key \in K}
  BY DEF LeavesFor
<1>3. IsFiniteSet(K)
  BY <1>1, FS_Subset
<1>4. IsFiniteSet(L)
  <2> DEFINE f == [key \in K |-> key[2]]
  <2>1. f \in Surjection(K, L)
    BY <1>2 DEF Surjection
  <2> HIDE DEF K, L
  <2> QED
    BY <1>3, <2>1, FS_Surjection
<1>5. IsFiniteSet(A)
  <2> DEFINE f == [key \in D |-> key[1]]
  <2>1. f \in Surjection(D, A)
    BY DEF Surjection
  <2> HIDE DEF A, D
  <2> QED
    BY <1>1, <2>1, FS_Surjection
<1>6. IsFiniteSet(A \ T)
  BY <1>5, FS_Subset
<1>7. \A key \in D : key[1] \in Tables /\ key[2] \in Leaves /\ key = <<key[1], key[2]>>
  BY <1>1
<1>8. \A leaf : leaf \in L <=> <<table, leaf>> \in D
  BY <1>2, <1>7
<1>9. L \subseteq Leaves /\ A \subseteq Tables
  BY <1>2, <1>7
<1> QED
  BY <1>4, <1>6, <1>8, <1>9

(* The assignments for a table say what the updates say of its leaves.      *)
LEMMA AssignmentsSay ==
  ASSUME NEW updates, Edit(updates), NEW table, NEW leaves,
         leaves \subseteq LeavesFor(updates, table)
  PROVE  LET more == AssignmentsOf(updates, table, leaves)
         IN  /\ more \in Seq(Lines)
             /\ \A i \in 1 .. Len(more) :
                  /\ more[i].kind = "key" /\ <<table, more[i].leaf>> \in DOMAIN updates
                  /\ more[i].value = updates[<<table, more[i].leaf>>]
             /\ \A leaf \in leaves : \E i \in 1 .. Len(more) : more[i].leaf = leaf
<1> DEFINE more == AssignmentsOf(updates, table, leaves)
           q == SetToSeq(leaves)
<1>1. /\ LeavesFor(updates, table) \subseteq Leaves
      /\ \A leaf \in leaves : leaf \in Leaves /\ <<table, leaf>> \in DOMAIN updates
      /\ IsFiniteSet(leaves)
  BY EditIsFinite, FS_Subset
<1>2. q \in Seq(leaves) /\ \A leaf \in leaves : \E i \in 1 .. Len(q) : q[i] = leaf
  BY <1>1, Enumerates
<1>3. more = [i \in DOMAIN q |-> Assignment(q[i], updates[<<table, q[i]>>])]
  BY DEF AssignmentsOf
<1> HIDE DEF q, more
<1>4. Len(q) \in Nat /\ DOMAIN q = 1 .. Len(q) /\ \A i \in 1 .. Len(q) : q[i] \in leaves
  BY <1>2
<1>5. ASSUME NEW i \in 1 .. Len(q)
      PROVE  /\ more[i] = Assignment(q[i], updates[<<table, q[i]>>])
             /\ q[i] \in Leaves /\ <<table, q[i]>> \in DOMAIN updates
             /\ updates[<<table, q[i]>>] \in DOMAIN Coerce
             /\ more[i] \in Lines
             /\ more[i].kind = "key" /\ more[i].leaf = q[i]
             /\ more[i].value = updates[<<table, q[i]>>]
  <2>1. more[i] = Assignment(q[i], updates[<<table, q[i]>>])
    BY <1>3, <1>4
  <2>2. /\ q[i] \in Leaves /\ <<table, q[i]>> \in DOMAIN updates
        /\ updates[<<table, q[i]>>] \in DOMAIN Coerce
    BY <1>1, <1>4 DEF Edit
  <2>3. more[i] \in Lines
    BY <2>1, <2>2, LinesAre
  <2> QED
    BY <2>1, <2>2, <2>3 DEF Assignment
<1>6. more \in [1 .. Len(q) -> Lines]
  BY <1>3, <1>4, <1>5
<1>7. more \in Seq(Lines) /\ Len(more) = Len(q)
  BY <1>4, <1>6
<1>8. \A i \in 1 .. Len(more) :
        /\ more[i].kind = "key" /\ <<table, more[i].leaf>> \in DOMAIN updates
        /\ more[i].value = updates[<<table, more[i].leaf>>]
  BY <1>5, <1>7
<1>9. ASSUME NEW leaf \in leaves
      PROVE  \E i \in 1 .. Len(more) : more[i].leaf = leaf
  <2>1. PICK i \in 1 .. Len(q) : q[i] = leaf
    BY <1>2
  <2>2. i \in 1 .. Len(more) /\ more[i].leaf = leaf
    BY <1>5, <1>7, <2>1
  <2> QED
    BY <2>2
<1> QED
  BY <1>7, <1>8, <1>9 DEF more

(* What the loops of the writer keep. *)
Walks ==
  [lines : Seq(Lines), table : Tables \cup {NoTable}, seen : SUBSET Leaves,
   written : SUBSET (Tables \cup {NoTable}),
   removed : SUBSET ((Tables \cup {NoTable}) \X Leaves)]

(* An assignment of a text gives the key the value it is to have. *)
IsSet(text, updates, key) ==
  \E e \in Entries(text) : e.key = key /\ e.value = updates[key]

(* What a walk has made of the part of the file it has seen: the same       *)
(* frame and the same settings, but for those the updates speak of; these   *)
(* it has written for the lines it has seen in this table, and for every    *)
(* table it has left.                                                       *)
WalkSays(walk, part, updates) ==
  /\ walk.table = EndTable(walk.lines) /\ walk.table = EndTable(part)
  /\ Frame(walk.lines) = Frame(part)
  /\ \A e \in Entries(part) : e.key \notin DOMAIN updates => e \in Entries(walk.lines)
  /\ \A e \in Entries(walk.lines) :
       e \in Entries(part) \/ (e.key \in DOMAIN updates /\ e.value = updates[e.key])
  /\ \A leaf \in walk.seen : <<walk.table, leaf>> \in DOMAIN updates =>
       IsSet(walk.lines, updates, <<walk.table, leaf>>)
  /\ \A key \in DOMAIN updates : key[1] \in walk.written => IsSet(walk.lines, updates, key)

(* Every key of the walk's table has its value. *)
TableDone(walk, updates) ==
  \A key \in DOMAIN updates : key[1] = walk.table => IsSet(walk.lines, updates, key)

(* flush_pending() writes what the table lacks, and nothing else.           *)
LEMMA FlushSays ==
  ASSUME NEW updates, Edit(updates), NEW walk \in Walks, NEW part \in Seq(Lines),
         WalkSays(walk, part, updates)
  PROVE  LET next == Flushed(walk, updates)
         IN  /\ next \in Walks
             /\ next.table = walk.table
             /\ WalkSays(next, part, updates)
             /\ TableDone(next, updates)
<1> DEFINE next == Flushed(walk, updates)
           wanted == LeavesFor(updates, walk.table)
           missing == wanted \ walk.seen
           more == AssignmentsOf(updates, walk.table, missing)
           b == BodyLen(walk.lines)
           r == SubSeq(walk.lines, 1, b) \o more \o SubSeq(walk.lines, b + 1, Len(walk.lines))
<1>1. /\ wanted \subseteq Leaves
      /\ \A leaf : leaf \in wanted <=> <<walk.table, leaf>> \in DOMAIN updates
  BY EditIsFinite
<1>2. \A key \in DOMAIN updates : key = <<key[1], key[2]>>
  BY DEF Edit
<1>3. CASE wanted = {}
  <2>1. next = walk
    BY <1>3 DEF Flushed
  <2>2. TableDone(walk, updates)
    <3> SUFFICES ASSUME NEW key \in DOMAIN updates, key[1] = walk.table
                 PROVE  FALSE
      BY DEF TableDone
    <3>1. <<walk.table, key[2]>> \in DOMAIN updates
      BY <1>2
    <3> QED
      BY <1>1, <1>3, <3>1
  <2> QED
    BY <2>1, <2>2
<1>4. CASE wanted # {}
  <2>1. /\ more \in Seq(Lines)
        /\ \A i \in 1 .. Len(more) :
             /\ more[i].kind = "key" /\ <<walk.table, more[i].leaf>> \in DOMAIN updates
             /\ more[i].value = updates[<<walk.table, more[i].leaf>>]
        /\ \A leaf \in missing : \E i \in 1 .. Len(more) : more[i].leaf = leaf
    <3>1. missing \subseteq LeavesFor(updates, walk.table)
      OBVIOUS
    <3> HIDE DEF missing, wanted, b, r, next
    <3> QED
      BY <3>1, AssignmentsSay
  <2> HIDE DEF more
  <2>2. walk.lines \in Seq(Lines)
    BY DEF Walks
  <2>3. /\ r \in Seq(Lines)
        /\ EndTable(r) = EndTable(walk.lines)
        /\ Frame(r) = Frame(walk.lines)
        /\ Entries(r) = Entries(walk.lines)
             \cup {Entry(EndTable(walk.lines), more[i]) : i \in 1 .. Len(more)}
    BY <2>1, <2>2, InsertedSays
  <2>4. next = [walk EXCEPT !.lines = r, !.written = @ \cup {walk.table}]
    BY <1>4, Zenon DEF Flushed, more
  <2> HIDE DEF r, next
  <2>5. /\ next \in Walks /\ next.lines = r /\ next.table = walk.table
        /\ next.seen = walk.seen /\ next.written = walk.written \cup {walk.table}
    BY <2>3, <2>4 DEF Walks
  <2>6. \A e \in Entries(r) :
          e \in Entries(walk.lines) \/ (e.key \in DOMAIN updates /\ e.value = updates[e.key])
    <3> SUFFICES ASSUME NEW i \in 1 .. Len(more), NEW e, e = Entry(walk.table, more[i])
                 PROVE  e.key \in DOMAIN updates /\ e.value = updates[e.key]
      BY <2>3 DEF WalkSays
    <3>1. e.key = <<walk.table, more[i].leaf>> /\ e.value = more[i].value
      BY DEF Entry
    <3> QED
      BY <2>1, <3>1
  <2>7. \A key \in DOMAIN updates : IsSet(walk.lines, updates, key) => IsSet(r, updates, key)
    BY <2>3 DEF IsSet
  <2>8. ASSUME NEW leaf \in wanted
        PROVE  IsSet(r, updates, <<walk.table, leaf>>)
    <3>1. CASE leaf \in walk.seen
      BY <1>1, <2>7, <3>1 DEF WalkSays
    <3>2. CASE leaf \in missing
      <4>1. PICK i \in 1 .. Len(more) : more[i].leaf = leaf
        BY <2>1, <3>2
      <4>2. Entry(walk.table, more[i]) \in Entries(r)
        BY <2>3 DEF WalkSays
      <4>3. /\ Entry(walk.table, more[i]).key = <<walk.table, leaf>>
            /\ Entry(walk.table, more[i]).value = updates[<<walk.table, leaf>>]
        BY <2>1, <4>1 DEF Entry
      <4> QED
        BY <4>2, <4>3 DEF IsSet
    <3> QED
      BY <3>1, <3>2
  <2>9. ASSUME NEW key \in DOMAIN updates, key[1] = walk.table
        PROVE  IsSet(r, updates, key)
    <3>1. key = <<walk.table, key[2]>>
      BY <1>2, <2>9
    <3>2. key[2] \in wanted
      BY <1>1, <3>1
    <3> QED
      BY <2>8, <3>1, <3>2
  <2>10. TableDone(next, updates)
    BY <2>5, <2>9 DEF TableDone
  <2>11. WalkSays(next, part, updates)
    <3>1. next.table = EndTable(next.lines) /\ next.table = EndTable(part)
          /\ Frame(next.lines) = Frame(part)
      BY <2>3, <2>5 DEF WalkSays
    <3>2. \A e \in Entries(part) : e.key \notin DOMAIN updates => e \in Entries(next.lines)
      BY <2>3, <2>5 DEF WalkSays
    <3>3. \A e \in Entries(next.lines) :
            e \in Entries(part) \/ (e.key \in DOMAIN updates /\ e.value = updates[e.key])
      BY <2>5, <2>6 DEF WalkSays
    <3>4. \A leaf \in next.seen : <<next.table, leaf>> \in DOMAIN updates =>
            IsSet(next.lines, updates, <<next.table, leaf>>)
      BY <1>1, <2>5, <2>8
    <3>5. \A key \in DOMAIN updates :
            key[1] \in next.written => IsSet(next.lines, updates, key)
      BY <2>5, <2>7, <2>9 DEF WalkSays
    <3> QED
      BY <3>1, <3>2, <3>3, <3>4, <3>5 DEF WalkSays
  <2> QED
    BY <2>5, <2>10, <2>11 DEF next
<1> QED
  BY <1>3, <1>4

(* A header ends a table and begins the next.                               *)
LEMMA EnteredSays ==
  ASSUME NEW updates, Edit(updates), NEW walk \in Walks, NEW part \in Seq(Lines),
         WalkSays(walk, part, updates), NEW line \in Lines, line.kind = "table"
  PROVE  LET next == Entered(walk, line)
         IN  next \in Walks /\ WalkSays(next, Append(part, line), updates)
<1> DEFINE next == Entered(walk, line)
<1>1. walk.lines \in Seq(Lines) /\ line.table \in Tables
  BY LineKinds DEF Walks
<1>2. /\ next.lines = Append(walk.lines, line) /\ next.table = line.table
      /\ next.seen = {} /\ next.written = walk.written /\ next \in Walks
  BY <1>1, Appended DEF Entered, Walks
<1> HIDE DEF next
<1>3. /\ EndTable(next.lines) = line.table /\ Entries(next.lines) = Entries(walk.lines)
      /\ EndTable(Append(part, line)) = line.table /\ Entries(Append(part, line)) = Entries(part)
  BY <1>1, <1>2, HeaderBegins
<1>4. Frame(next.lines) = Frame(Append(part, line))
  BY <1>1, <1>2, FrameAdds DEF WalkSays
<1>5. WalkSays(next, Append(part, line), updates)
  BY <1>2, <1>3, <1>4 DEF WalkSays, IsSet
<1> QED
  BY <1>2, <1>5 DEF next

(* A plain assignment gets the new value, if there is one, and else stays.  *)
LEMMA RewrittenSays ==
  ASSUME NEW updates, Edit(updates), NEW walk \in Walks, NEW part \in Seq(Lines),
         WalkSays(walk, part, updates), NEW line \in Lines, line.kind = "key"
  PROVE  LET next == Rewritten(walk, line, updates)
         IN  next \in Walks /\ WalkSays(next, Append(part, line), updates)
<1> DEFINE next == Rewritten(walk, line, updates)
           T == walk.table
           key == <<T, line.leaf>>
           new == IF key \in DOMAIN updates THEN [line EXCEPT !.value = updates[key]] ELSE line
<1>1. /\ walk.lines \in Seq(Lines) /\ line.leaf \in Leaves
      /\ line = Assignment(line.leaf, line.value)
  BY LineKinds DEF Walks
<1>2. /\ new \in Lines /\ new.kind = "key" /\ new.leaf = line.leaf
      /\ key \in DOMAIN updates => new.value = updates[key]
      /\ key \notin DOMAIN updates => new = line
  <2>1. CASE key \in DOMAIN updates
    <3>1. new = Assignment(line.leaf, updates[key])
      BY <1>1, <2>1 DEF Assignment
    <3>2. updates[key] \in DOMAIN Coerce
      BY <2>1 DEF Edit
    <3>3. Assignment(line.leaf, updates[key]) \in Lines
      BY <1>1, <3>2, LinesAre
    <3> HIDE DEF new, key
    <3> QED
      BY <2>1, <3>1, <3>3 DEF Assignment
  <2>2. CASE key \notin DOMAIN updates
    BY <2>2
  <2> QED
    BY <2>1, <2>2
<1>3. next = [walk EXCEPT !.seen = @ \cup {line.leaf}, !.lines = Append(@, new)]
  BY DEF Rewritten
<1> HIDE DEF new, next
<1>4. /\ next.lines = Append(walk.lines, new) /\ next.table = T
      /\ next.seen = walk.seen \cup {line.leaf} /\ next.written = walk.written
      /\ next \in Walks
  BY <1>1, <1>2, <1>3, Appended DEF Walks
<1>5. /\ EndTable(walk.lines) = T /\ EndTable(part) = T
      /\ Frame(walk.lines) = Frame(part)
  BY DEF WalkSays
<1> HIDE DEF T
<1>6. /\ EndTable(next.lines) = T /\ Entries(next.lines) = Entries(walk.lines) \cup {Entry(T, new)}
      /\ EndTable(Append(part, line)) = T
      /\ Entries(Append(part, line)) = Entries(part) \cup {Entry(T, line)}
  BY <1>1, <1>2, <1>4, <1>5, LineAdds
<1>7. Frame(next.lines) = Frame(Append(part, line))
  <2>1. ~Framing(new) /\ ~Framing(line)
    BY <1>2 DEF Framing
  <2> QED
    BY <1>1, <1>2, <1>4, <1>5, <2>1, FrameAdds
<1>8. /\ Entry(T, line).key = key /\ Entry(T, new).key = key
      /\ Entry(T, new).value = new.value
  BY <1>2 DEF Entry
<1>9. \A e \in Entries(Append(part, line)) :
        e.key \notin DOMAIN updates => e \in Entries(next.lines)
  BY <1>2, <1>6, <1>8 DEF WalkSays
<1>10. \A e \in Entries(next.lines) :
         \/ e \in Entries(Append(part, line))
         \/ e.key \in DOMAIN updates /\ e.value = updates[e.key]
  BY <1>2, <1>6, <1>8 DEF WalkSays
<1>11. \A k \in DOMAIN updates : IsSet(walk.lines, updates, k) => IsSet(next.lines, updates, k)
  BY <1>6 DEF IsSet
<1>12. key \in DOMAIN updates => IsSet(next.lines, updates, key)
  BY <1>2, <1>6, <1>8 DEF IsSet
<1>13. \A leaf \in next.seen : <<next.table, leaf>> \in DOMAIN updates =>
         IsSet(next.lines, updates, <<next.table, leaf>>)
  BY <1>4, <1>11, <1>12 DEF WalkSays, T
<1>14. \A k \in DOMAIN updates : k[1] \in next.written => IsSet(next.lines, updates, k)
  BY <1>4, <1>11 DEF WalkSays
<1>15. WalkSays(next, Append(part, line), updates)
  BY <1>4, <1>6, <1>7, <1>9, <1>10, <1>13, <1>14 DEF WalkSays
<1> QED
  BY <1>4, <1>15 DEF next

(* Every other line stays.                                                  *)
LEMMA KeptSays ==
  ASSUME NEW updates, Edit(updates), NEW walk \in Walks, NEW part \in Seq(Lines),
         WalkSays(walk, part, updates), NEW line \in Lines, line.kind # "table"
  PROVE  LET next == [walk EXCEPT !.lines = Append(@, line)]
         IN  next \in Walks /\ WalkSays(next, Append(part, line), updates)
<1> DEFINE next == [walk EXCEPT !.lines = Append(@, line)]
           added == IF line.kind \in {"key", "quoted"} THEN {Entry(walk.table, line)} ELSE {}
<1>1. walk.lines \in Seq(Lines)
  BY DEF Walks
<1>2. /\ next.lines = Append(walk.lines, line) /\ next.table = walk.table
      /\ next.seen = walk.seen /\ next.written = walk.written /\ next \in Walks
  BY <1>1, Appended DEF Walks
<1> HIDE DEF next
<1>3. /\ EndTable(walk.lines) = walk.table /\ EndTable(part) = walk.table
      /\ Frame(walk.lines) = Frame(part)
  BY DEF WalkSays
<1>4. /\ EndTable(next.lines) = walk.table /\ Entries(next.lines) = Entries(walk.lines) \cup added
      /\ EndTable(Append(part, line)) = walk.table
      /\ Entries(Append(part, line)) = Entries(part) \cup added
  BY <1>1, <1>2, <1>3, LineAdds
<1> HIDE DEF added
<1>5. Frame(next.lines) = Frame(Append(part, line))
  BY <1>1, <1>2, <1>3, FrameAdds, ZenonT(40)
<1>6. \A k : IsSet(walk.lines, updates, k) => IsSet(next.lines, updates, k)
  BY <1>4 DEF IsSet
<1>7. WalkSays(next, Append(part, line), updates)
  BY <1>2, <1>4, <1>5, <1>6 DEF WalkSays
<1> QED
  BY <1>2, <1>7 DEF next

(* So one turn of the loop keeps what the walk says.                        *)
LEMMA LineSays ==
  ASSUME NEW updates, Edit(updates), NEW walk \in Walks, NEW part \in Seq(Lines),
         WalkSays(walk, part, updates), NEW line \in Lines
  PROVE  LET next == LineUpdated(walk, line, updates)
         IN  next \in Walks /\ WalkSays(next, Append(part, line), updates)
<1>1. CASE line.kind = "table"
  <2> DEFINE f == Flushed(walk, updates)
  <2>1. f \in Walks /\ WalkSays(f, part, updates)
    BY FlushSays
  <2> HIDE DEF f
  <2>2. Entered(f, line) \in Walks /\ WalkSays(Entered(f, line), Append(part, line), updates)
    BY <1>1, <2>1, EnteredSays
  <2> QED
    BY <1>1, <2>2, Zenon DEF LineUpdated, f
<1>2. CASE line.kind = "key"
  <2>1. LineUpdated(walk, line, updates) = Rewritten(walk, line, updates)
    BY <1>2 DEF LineUpdated
  <2> QED
    BY <1>2, <2>1, RewrittenSays
<1>3. CASE line.kind # "table" /\ line.kind # "key"
  <2>1. LineUpdated(walk, line, updates) = [walk EXCEPT !.lines = Append(@, line)]
    BY <1>3 DEF LineUpdated
  <2> QED
    BY <1>3, <2>1, KeptSays
<1> QED
  BY <1>1, <1>2, <1>3

(* A walk begins having seen nothing.                                       *)
LEMMA BeginningSays ==
  ASSUME NEW updates
  PROVE  Beginning \in Walks /\ WalkSays(Beginning, <<>>, updates)
<1>1. <<>> \in Seq(Lines) /\ Len(<<>>) = 0 /\ DOMAIN <<>> = {}
  BY EmptySeq, LenProperties
<1>2. /\ Beginning.lines = <<>> /\ Beginning.table = NoTable
      /\ Beginning.seen = {} /\ Beginning.written = {}
  BY DEF Beginning
<1>3. EndTable(<<>>) = NoTable /\ Entries(<<>>) = {}
  BY <1>1 DEF EndTable, TableAt, Headers, Entries, Assignments
<1>4. Beginning \in Walks
  BY <1>1 DEF Beginning, Walks
<1> QED
  BY <1>2, <1>3, <1>4 DEF WalkSays

(* After the whole file the walk says what the file does, but for the       *)
(* updates, and has written those of every table it has met.                *)
LEMMA WalkedSays ==
  ASSUME NEW updates, Edit(updates), NEW file \in Seq(Lines)
  PROVE  LET end == Walked(file, updates)
         IN  /\ end \in Walks
             /\ WalkSays(end, file, updates)
             /\ TableDone(end, updates)
<1> DEFINE N == Len(file)
           Up(k) == SubSeq(file, 1, k)
           Turn(v, i) == LineUpdated(v, file[i], updates)
           Step == [i \in 1 .. N |-> [v \in Walks |->
                      IF WalkSays(v, Up(i - 1), updates) THEN Turn(v, i) ELSE Beginning]]
           Body(t) == [i \in 0 .. N |-> IF i = 0 THEN Beginning ELSE Turn(t[i - 1], i)]
           t == CHOOSE t : t = Body(t)
<1>1. /\ N \in Nat /\ Up(0) = <<>> /\ Up(N) = file
      /\ \A i \in 1 .. N : i - 1 \in 0 .. N - 1 /\ (i - 1) + 1 = i /\ i \in 0 .. N
                           /\ i - 1 \in 0 .. N
  BY SubSeqFull, SubSeqEmpty, LenProperties
<1>2. ASSUME NEW i \in 1 .. N, NEW v \in Walks, WalkSays(v, Up(i - 1), updates)
      PROVE  Turn(v, i) \in Walks /\ WalkSays(Turn(v, i), Up(i), updates)
  <2>1. /\ Up(i - 1) \in Seq(Lines) /\ file[i] \in Lines
        /\ Up(i) = Append(Up(i - 1), file[i])
    BY <1>1, Grows
  <2> HIDE DEF Up
  <2> QED
    BY <1>2, <2>1, LineSays
<1>3. Walked(file, updates) = Flushed(t[N], updates)
  BY Zenon DEF Walked
<1> HIDE DEF Turn, Up, N
<1>4. StaysIn(Walks, N, Step)
  BY <1>2, BeginningSays DEF StaysIn
<1>5. PICK walk : Iterates(walk, Walks, N, Beginning, Step)
  <2> HIDE DEF Step
  <2> QED
    BY <1>1, <1>4, BeginningSays, Recursion
<1>6. /\ walk \in [0 .. N -> Walks] /\ walk[0] = Beginning
      /\ \A i \in 1 .. N : walk[i] = Step[i][walk[i - 1]]
  BY <1>5 DEF Iterates
<1> DEFINE T == {i \in 0 .. N : WalkSays(walk[i], Up(i), updates)}
<1>7. 0 \in T
  BY <1>1, <1>6, BeginningSays
<1>8. ASSUME NEW i \in 1 .. N, WalkSays(walk[i - 1], Up(i - 1), updates)
      PROVE  walk[i] = Turn(walk[i - 1], i) /\ WalkSays(walk[i], Up(i), updates)
  <2>1. walk[i - 1] \in Walks
    BY <1>1, <1>6
  <2>2. walk[i] = Turn(walk[i - 1], i)
    BY <1>6, <1>8, <2>1
  <2> QED
    BY <1>2, <1>8, <2>1, <2>2
<1>9. ASSUME NEW i \in 0 .. N - 1, i \in T
      PROVE  i + 1 \in T
  <2>1. i + 1 \in 1 .. N /\ (i + 1) - 1 = i /\ i + 1 \in 0 .. N
    BY <1>1
  <2> QED
    BY <1>8, <1>9, <2>1
<1>10. \A i \in 0 .. N : WalkSays(walk[i], Up(i), updates)
  <2>1. \A i \in 0 .. N : i \in T
    <3> HIDE DEF T
    <3> QED
      BY <1>1, <1>7, <1>9, Induction
  <2> QED
    BY <2>1
<1>11. \A i \in 1 .. N : walk[i] = Turn(walk[i - 1], i)
  BY <1>1, <1>8, <1>10
<1>12. walk = Body(walk)
  <2>1. \A i \in 0 .. N : i = 0 \/ i \in 1 .. N
    BY <1>1
  <2>2. \A i \in 0 .. N : walk[i] = Body(walk)[i]
    BY <1>6, <1>11, <2>1
  <2>3. walk = [i \in 0 .. N |-> walk[i]]
    BY <1>6
  <2> QED
    BY <2>2, <2>3
<1>13. t = Body(t)
  <2> HIDE DEF Body
  <2> QED
    BY <1>12
<1> HIDE DEF t
<1> DEFINE Q == {i \in 0 .. N : t[i] = walk[i]}
<1>14. 0 \in Q
  BY <1>1, <1>6, <1>13
<1>15. ASSUME NEW i \in 0 .. N - 1, i \in Q
       PROVE  i + 1 \in Q
  <2>1. i + 1 \in 1 .. N /\ (i + 1) - 1 = i /\ i + 1 # 0 /\ i + 1 \in 0 .. N
    BY <1>1
  <2>2. t[i + 1] = Turn(t[i], i + 1)
    BY <1>13, <2>1
  <2>3. walk[i + 1] = Turn(walk[i], i + 1)
    BY <1>11, <2>1
  <2> QED
    BY <1>15, <2>1, <2>2, <2>3
<1>16. N \in Q
  <2> HIDE DEF Q
  <2> QED
    BY <1>1, <1>14, <1>15, N \in 0 .. N, Induction
<1>17. t[N] \in Walks /\ WalkSays(t[N], file, updates)
  BY <1>1, <1>6, <1>10, <1>16
<1>18. LET end == Flushed(t[N], updates)
       IN  end \in Walks /\ WalkSays(end, file, updates) /\ TableDone(end, updates)
  <2> DEFINE w == t[N]
  <2>1. w \in Walks /\ WalkSays(w, file, updates)
    BY <1>17
  <2> HIDE DEF w
  <2>2. LET end == Flushed(w, updates)
        IN  /\ end \in Walks /\ end.table = w.table
            /\ WalkSays(end, file, updates) /\ TableDone(end, updates)
    BY <2>1, FlushSays
  <2> QED
    BY <2>2 DEF w
<1> QED
  BY <1>3, <1>18

(* What the tables put below a text leave of it, and add.                   *)
GrownSays(grown, text, updates) ==
  /\ grown \in Seq(Lines)
  /\ Entries(text) \subseteq Entries(grown)
  /\ \A e \in Entries(grown) :
       e \in Entries(text) \/ (e.key \in DOMAIN updates /\ e.value = updates[e.key])
  /\ \E rest \in Seq(Lines) : Frame(grown) = Frame(text) \o rest

(* A table put below a text sets all its keys, and leaves the rest.         *)
LEMMA TableSays ==
  ASSUME NEW updates, Edit(updates), NEW text \in Seq(Lines), NEW table \in Tables
  PROVE  LET next == WithTable(text, updates, table)
         IN  /\ GrownSays(next, text, updates)
             /\ \A key \in DOMAIN updates : key[1] = table => IsSet(next, updates, key)
<1> DEFINE gap == IF text # <<>> /\ Last(text) # Blank THEN <<Blank>> ELSE <<>>
           head == Header(table)
           more == AssignmentsOf(updates, table, LeavesFor(updates, table))
           spaced == text \o gap
           begun == Append(spaced, head)
           next == begun \o more
<1>1. gap \in Seq(Lines) /\ \A i \in 1 .. Len(gap) : gap[i] = Blank
  BY LinesAre
<1> HIDE DEF gap
<1>2. /\ more \in Seq(Lines)
      /\ \A i \in 1 .. Len(more) :
           /\ more[i].kind = "key" /\ <<table, more[i].leaf>> \in DOMAIN updates
           /\ more[i].value = updates[<<table, more[i].leaf>>]
      /\ \A leaf \in LeavesFor(updates, table) : \E i \in 1 .. Len(more) : more[i].leaf = leaf
  BY AssignmentsSay
<1> HIDE DEF more
<1>3. spaced \in Seq(Lines) /\ Entries(spaced) = Entries(text)
  <2>1. \A i \in 1 .. Len(gap) : Loose(gap[i])
    BY <1>1 DEF Loose, Blank
  <2> QED
    BY <1>1, <2>1, LooseSaysNothing, ConcatProperties
<1>4. head \in Lines /\ head.kind = "table" /\ head.table = table
  BY LinesAre DEF Header
<1> HIDE DEF spaced, head
<1>5. /\ begun \in Seq(Lines) /\ begun = spaced \o <<head>> /\ <<head>> \in Seq(Lines)
      /\ EndTable(begun) = table /\ Entries(begun) = Entries(spaced)
  BY <1>3, <1>4, Appended, HeaderBegins
<1>6. WithTable(text, updates, table) = next
  BY <1>5, Zenon DEF WithTable, spaced, gap, head, more
<1> HIDE DEF begun
<1>7. /\ next \in Seq(Lines)
      /\ Entries(next) = Entries(text) \cup {Entry(table, more[i]) : i \in 1 .. Len(more)}
  <2>1. Headers(more) = {} /\ Assignments(more) = 1 .. Len(more)
    BY <1>2, LenProperties DEF Headers, Assignments
  <2>2. next \in Seq(Lines)
    BY <1>2, <1>5, ConcatProperties
  <2>3. Entries(next) = Entries(begun) \cup {Entry(EndTable(begun), more[i]) : i \in Assignments(more)}
    BY <1>2, <1>5, <2>1, EntriesOfJoined
  <2> QED
    BY <1>3, <1>5, <2>1, <2>2, <2>3
<1>8. \E rest \in Seq(Lines) : Frame(next) = Frame(text) \o rest
  <2>1. /\ Frame(next) = Frame(begun) \o Frame(more)
        /\ Frame(begun) = Frame(spaced) \o Frame(<<head>>)
        /\ Frame(spaced) = Frame(text) \o Frame(gap)
        /\ Frame(gap) \in Seq(Lines) /\ Frame(<<head>>) \in Seq(Lines)
        /\ Frame(more) \in Seq(Lines) /\ Frame(text) \in Seq(Lines)
        /\ Frame(spaced) \in Seq(Lines)
    BY <1>1, <1>2, <1>3, <1>5, FrameJoins DEF spaced
  <2> DEFINE a == Frame(text)
             g == Frame(gap)
             h == Frame(<<head>>)
             m == Frame(more)
  <2>2. Frame(next) = ((a \o g) \o h) \o m
    BY <2>1
  <2>3. a \in Seq(Lines) /\ g \in Seq(Lines) /\ h \in Seq(Lines) /\ m \in Seq(Lines)
    BY <2>1
  <2> HIDE DEF a, g, h, m
  <2>4. g \o h \in Seq(Lines) /\ (g \o h) \o m \in Seq(Lines)
    BY <2>3, ConcatProperties
  <2>5. ((a \o g) \o h) \o m = a \o ((g \o h) \o m)
    <3>1. (a \o g) \o h = a \o (g \o h)
      BY <2>3, ConcatAssociative, SMTT(30)
    <3> DEFINE gh == g \o h
    <3>2. gh \in Seq(Lines)
      BY <2>4
    <3> HIDE DEF gh
    <3>3. (a \o gh) \o m = a \o (gh \o m)
      BY <2>3, <3>2, ConcatAssociative, SMTT(30)
    <3> QED
      BY <3>1, <3>3 DEF gh
  <2> QED
    BY <2>2, <2>4, <2>5 DEF a
<1> HIDE DEF next
<1>9. \A i \in 1 .. Len(more) :
        /\ Entry(table, more[i]).key = <<table, more[i].leaf>>
        /\ Entry(table, more[i]).value = updates[<<table, more[i].leaf>>]
  BY <1>2 DEF Entry
<1>10. \A e \in Entries(next) :
         e \in Entries(text) \/ (e.key \in DOMAIN updates /\ e.value = updates[e.key])
  <2> SUFFICES ASSUME NEW e \in Entries(next), e \notin Entries(text)
               PROVE  e.key \in DOMAIN updates /\ e.value = updates[e.key]
    OBVIOUS
  <2>1. PICK i \in 1 .. Len(more) : e = Entry(table, more[i])
    BY <1>7
  <2> QED
    BY <1>2, <1>9, <2>1
<1>11. ASSUME NEW key \in DOMAIN updates, key[1] = table
       PROVE  IsSet(next, updates, key)
  <2>1. key = <<table, key[2]>>
    BY <1>11 DEF Edit
  <2>2. key[2] \in LeavesFor(updates, table)
    BY <2>1, EditIsFinite
  <2>3. PICK i \in 1 .. Len(more) : more[i].leaf = key[2]
    BY <1>2, <2>2
  <2>4. Entry(table, more[i]) \in Entries(next)
    BY <1>7
  <2> QED
    BY <1>9, <2>1, <2>3, <2>4 DEF IsSet
<1> QED
  BY <1>6, <1>7, <1>8, <1>10, <1>11 DEF GrownSays

(* One text grown from another has grown from what that has grown from.     *)
LEMMA GrowsOn ==
  ASSUME NEW updates, NEW text \in Seq(Lines), NEW grown, NEW more,
         GrownSays(grown, text, updates), GrownSays(more, grown, updates)
  PROVE  /\ GrownSays(more, text, updates)
         /\ \A key : IsSet(grown, updates, key) => IsSet(more, updates, key)
<1>1. PICK r1 \in Seq(Lines) : Frame(grown) = Frame(text) \o r1
  BY DEF GrownSays
<1>2. PICK r2 \in Seq(Lines) : Frame(more) = Frame(grown) \o r2
  BY DEF GrownSays
<1>3. Frame(more) = Frame(text) \o (r1 \o r2) /\ r1 \o r2 \in Seq(Lines)
  <2>1. Frame(text) \in Seq(Lines)
    BY FrameJoins
  <2> QED
    BY <1>1, <1>2, <2>1, ConcatAssociative, ConcatProperties, SMTT(30)
<1>4. \E rest \in Seq(Lines) : Frame(more) = Frame(text) \o rest
  BY <1>3
<1>5. GrownSays(more, text, updates)
  BY <1>4 DEF GrownSays
<1> QED
  BY <1>5 DEF GrownSays, IsSet

(* All the tables that are missing, one below the other.                    *)
LEMMA TablesSay ==
  ASSUME NEW updates, Edit(updates), NEW text \in Seq(Lines),
         NEW tables, tables \subseteq Tables, IsFiniteSet(tables)
  PROVE  LET end == WithTables(text, updates, tables)
         IN  /\ GrownSays(end, text, updates)
             /\ \A key \in DOMAIN updates : key[1] \in tables => IsSet(end, updates, key)
<1> DEFINE new == SetToSeq(tables)
           N == Len(new)
           Turn(v, i) == WithTable(v, updates, new[i])
           Step == [i \in 1 .. N |-> [v \in Seq(Lines) |-> Turn(v, i)]]
           Body(t) == [i \in 0 .. N |-> IF i = 0 THEN text ELSE Turn(t[i - 1], i)]
           t == CHOOSE t : t = Body(t)
<1>1. new \in Seq(tables) /\ \A table \in tables : \E i \in 1 .. N : new[i] = table
  BY Enumerates
<1>2. WithTables(text, updates, tables) = t[N]
  BY Zenon DEF WithTables
<1> HIDE DEF new
<1>3. N \in Nat /\ \A i \in 1 .. N : new[i] \in Tables /\ i - 1 \in 0 .. N
  BY <1>1
<1> HIDE DEF N
<1>4. ASSUME NEW i \in 1 .. N, NEW v \in Seq(Lines)
      PROVE  /\ GrownSays(Turn(v, i), v, updates) /\ Turn(v, i) \in Seq(Lines)
             /\ \A key \in DOMAIN updates : key[1] = new[i] => IsSet(Turn(v, i), updates, key)
  BY <1>3, TableSays DEF GrownSays
<1> HIDE DEF Turn
<1>5. StaysIn(Seq(Lines), N, Step)
  BY <1>4 DEF StaysIn
<1>6. PICK grown : Iterates(grown, Seq(Lines), N, text, Step)
  <2> HIDE DEF Step
  <2> QED
    BY <1>3, <1>5, Recursion
<1>7. /\ grown \in [0 .. N -> Seq(Lines)] /\ grown[0] = text
      /\ \A i \in 1 .. N : grown[i] = Step[i][grown[i - 1]]
  BY <1>6 DEF Iterates
<1>8. ASSUME NEW i \in 1 .. N
      PROVE  grown[i - 1] \in Seq(Lines) /\ grown[i] = Turn(grown[i - 1], i)
  <2>1. grown[i - 1] \in Seq(Lines)
    BY <1>3, <1>7
  <2> QED
    BY <1>7, <2>1
<1>9. grown = Body(grown)
  <2>1. \A i \in 0 .. N : i = 0 \/ i \in 1 .. N
    BY <1>3
  <2>2. \A i \in 0 .. N : grown[i] = Body(grown)[i]
    BY <1>7, <1>8, <2>1
  <2>3. grown = [i \in 0 .. N |-> grown[i]]
    BY <1>7
  <2> QED
    BY <2>2, <2>3
<1>10. t = Body(t)
  <2> HIDE DEF Body
  <2> QED
    BY <1>9
<1> HIDE DEF t
<1> DEFINE T == {i \in 0 .. N :
                  /\ t[i] = grown[i] /\ GrownSays(grown[i], text, updates)
                  /\ \A k \in 1 .. i : \A key \in DOMAIN updates :
                       key[1] = new[k] => IsSet(grown[i], updates, key)}
<1>11. GrownSays(text, text, updates)
  <2>1. Frame(text) \in Seq(Lines) /\ <<>> \in Seq(Lines)
    BY FrameJoins
  <2>2. Frame(text) = Frame(text) \o <<>>
    BY <2>1, ConcatEmptySeq
  <2>3. \E rest \in Seq(Lines) : Frame(text) = Frame(text) \o rest
    BY <2>1, <2>2
  <2> QED
    BY <2>3 DEF GrownSays
<1>12. 0 \in T
  BY <1>3, <1>7, <1>10, <1>11
<1>13. ASSUME NEW i \in 0 .. N - 1, i \in T
       PROVE  i + 1 \in T
  <2>1. i + 1 \in 1 .. N /\ (i + 1) - 1 = i /\ i + 1 # 0 /\ i + 1 \in 0 .. N
    BY <1>3
  <2>2. t[i + 1] = Turn(t[i], i + 1)
    BY <1>10, <2>1
  <2>3. grown[i] \in Seq(Lines) /\ grown[i + 1] = Turn(grown[i], i + 1)
    BY <1>8, <2>1
  <2>4. /\ GrownSays(grown[i + 1], grown[i], updates)
        /\ \A key \in DOMAIN updates :
             key[1] = new[i + 1] => IsSet(grown[i + 1], updates, key)
    BY <1>4, <2>1, <2>3
  <2>5. GrownSays(grown[i], text, updates)
    BY <1>13
  <2>6. /\ GrownSays(grown[i + 1], text, updates)
        /\ \A key : IsSet(grown[i], updates, key) => IsSet(grown[i + 1], updates, key)
    BY <2>4, <2>5, GrowsOn
  <2>7. ASSUME NEW k \in 1 .. i + 1, NEW key \in DOMAIN updates, key[1] = new[k]
        PROVE  IsSet(grown[i + 1], updates, key)
    <3>1. CASE k = i + 1
      BY <2>4, <2>7, <3>1
    <3>2. CASE k # i + 1
      <4>1. k \in 1 .. i
        BY <1>3, <3>2
      <4> QED
        BY <1>13, <2>6, <2>7, <4>1
    <3> QED
      BY <3>1, <3>2
  <2>8. t[i + 1] = grown[i + 1]
    BY <1>13, <2>2, <2>3
  <2> QED
    BY <2>1, <2>6, <2>7, <2>8
<1>14. N \in T
  <2> HIDE DEF T
  <2> QED
    BY <1>3, <1>12, <1>13, N \in 0 .. N, Induction
<1>15. /\ t[N] = grown[N] /\ GrownSays(grown[N], text, updates)
       /\ \A k \in 1 .. N : \A key \in DOMAIN updates :
            key[1] = new[k] => IsSet(grown[N], updates, key)
  BY <1>14
<1> QED
  BY <1>1, <1>2, <1>15 DEF new, N

(* The settings of a text are its entries, of which there is one for a key  *)
(* where TOML takes the text.                                               *)
LEMMA SettingsAreEntries ==
  ASSUME NEW text \in Seq(Lines)
  PROVE  /\ DOMAIN SettingsOf(text) = {e.key : e \in Entries(text)}
         /\ \A key \in DOMAIN SettingsOf(text) :
              \E e \in Entries(text) : e.key = key /\ e.value = SettingsOf(text)[key]
         /\ WellFormed(text) =>
              \A e, f \in Entries(text) : e.key = f.key => e = f
         /\ OneSpelling(text) <=>
              \A e, f \in Entries(text) : e.key = f.key => e.kind = f.kind
<1> DEFINE A == Assignments(text)
           E(i) == Entry(TableAt(text, i), text[i])
<1>1. /\ Entries(text) = {E(i) : i \in A}
      /\ \A i \in A : E(i).key = KeyAt(text, i) /\ E(i).value = text[i].value
                     /\ E(i).kind = text[i].kind
  BY DEF Entries, Entry, KeyAt
<1>2. DOMAIN SettingsOf(text) = {KeyAt(text, i) : i \in A}
  BY DEF SettingsOf
<1> HIDE DEF A, E
<1>3. DOMAIN SettingsOf(text) = {e.key : e \in Entries(text)}
  BY <1>1, <1>2
<1>4. ASSUME NEW key \in DOMAIN SettingsOf(text)
      PROVE  \E e \in Entries(text) : e.key = key /\ e.value = SettingsOf(text)[key]
  <2> DEFINE c == CHOOSE i \in A : KeyAt(text, i) = key
  <2>1. \E i \in A : KeyAt(text, i) = key
    BY <1>2
  <2>2. c \in A /\ KeyAt(text, c) = key
    BY <2>1
  <2>3. SettingsOf(text)[key] = text[c].value
    BY <1>2, <1>4 DEF SettingsOf, A
  <2> HIDE DEF c
  <2> QED
    BY <1>1, <2>2, <2>3
<1>5. ASSUME WellFormed(text)
      PROVE  \A e, f \in Entries(text) : e.key = f.key => e = f
  <2>1. \A i, j \in A : KeyAt(text, i) = KeyAt(text, j) => i = j
    BY <1>5 DEF WellFormed, A
  <2> QED
    BY <1>1, <2>1
<1>6. OneSpelling(text) <=> \A e, f \in Entries(text) : e.key = f.key => e.kind = f.kind
  <2>1. OneSpelling(text) <=>
          \A i, j \in A : KeyAt(text, i) = KeyAt(text, j) => text[i].kind = text[j].kind
    BY DEF OneSpelling, A
  <2> QED
    BY <1>1, <2>1
<1> QED
  BY <1>3, <1>4, <1>5, <1>6

(* A frame is a prefix of what it is continued to.                          *)
LEMMA ContinuedIsPrefix ==
  ASSUME NEW s \in Seq(Lines), NEW t \in Seq(Lines)
  PROVE  IsPrefix(s, s \o t)
<1>1. Len(s) \in Nat /\ Len(t) \in Nat /\ Len(s \o t) = Len(s) + Len(t)
  BY ConcatProperties, LenProperties
<1>2. SubSeq(s, 1, Len(s)) = SubSeq(s \o t, 1, Len(s))
  <2>1. CASE Len(s) = 0
    BY <1>1, <2>1, SubSeqEmpty
  <2>2. CASE Len(s) # 0
    <3>1. 1 \in 1 .. Len(s) /\ Len(s) \in 1 .. Len(s)
      BY <1>1, <2>2
    <3> QED
      BY <3>1, SubSeqOfConcat1
  <2> QED
    BY <2>1, <2>2
<1> QED
  BY <1>1, <1>2 DEF IsPrefix

(* What update_toml_content() makes of a text, if TOML takes it: the        *)
(* updates over the settings the text had, in the frame it had.             *)
LEMMA UpdatedIsExact ==
  ASSUME NEW updates, Edit(updates), NEW file \in Seq(Lines),
         WellFormed(Updated(file, updates))
  PROVE  /\ Updated(file, updates) \in Seq(Lines)
         /\ SettingsOf(Updated(file, updates)) = Over(updates, SettingsOf(file))
         /\ IsPrefix(Frame(file), Frame(Updated(file, updates)))
<1> DEFINE text == Updated(file, updates)
           end == Walked(file, updates)
           tables == {key[1] : key \in DOMAIN updates} \ end.written
           grown == WithTables(end.lines, updates, tables)
<1>1. text = Trimmed(grown)
  BY Zenon DEF Updated
<1>2. end \in Walks /\ WalkSays(end, file, updates)
  BY WalkedSays
<1> HIDE DEF end, text
<1>3. end.lines \in Seq(Lines)
  BY <1>2 DEF Walks
<1>4. tables \subseteq Tables /\ IsFiniteSet(tables)
  BY EditIsFinite
<1>5. \A key \in DOMAIN updates : key[1] \in tables \/ key[1] \in end.written
  OBVIOUS
<1> HIDE DEF tables
<1>6. /\ GrownSays(grown, end.lines, updates)
      /\ \A key \in DOMAIN updates : key[1] \in tables => IsSet(grown, updates, key)
  BY <1>3, <1>4, TablesSay
<1> HIDE DEF grown
<1>7. text \in Seq(Lines) /\ Entries(text) = Entries(grown) /\ Frame(text) = Frame(grown)
  BY <1>1, <1>6, TrimmedSays DEF GrownSays
<1>8. \A key \in DOMAIN updates : IsSet(text, updates, key)
  <2>1. \A key \in DOMAIN updates : IsSet(grown, updates, key)
    BY <1>2, <1>5, <1>6 DEF WalkSays, GrownSays, IsSet
  <2> QED
    BY <1>7, <2>1 DEF IsSet
<1>9. \A e \in Entries(file) : e.key \notin DOMAIN updates => e \in Entries(text)
  BY <1>2, <1>6, <1>7 DEF WalkSays, GrownSays
<1>10. \A e \in Entries(text) : e \in Entries(file) \/ e.key \in DOMAIN updates
  BY <1>2, <1>6, <1>7 DEF WalkSays, GrownSays
<1>11. \A e, f \in Entries(text) : e.key = f.key => e = f
  BY <1>7, SettingsAreEntries DEF text
<1> DEFINE S == SettingsOf(text)
           B == SettingsOf(file)
<1>12. /\ DOMAIN S = {e.key : e \in Entries(text)}
       /\ \A key \in DOMAIN S : \E e \in Entries(text) : e.key = key /\ e.value = S[key]
       /\ DOMAIN B = {e.key : e \in Entries(file)}
       /\ \A key \in DOMAIN B : \E e \in Entries(file) : e.key = key /\ e.value = B[key]
  BY <1>7, SettingsAreEntries
<1>13. S = [key \in DOMAIN S |-> S[key]]
  BY DEF SettingsOf
<1> HIDE DEF S, B
<1>14. DOMAIN S = DOMAIN updates \cup DOMAIN B
  <2>1. \A key \in DOMAIN S : key \in DOMAIN updates \/ key \in DOMAIN B
    BY <1>10, <1>12
  <2>2. \A key \in DOMAIN updates : key \in DOMAIN S
    BY <1>8, <1>12 DEF IsSet
  <2>3. \A key \in DOMAIN B : key \notin DOMAIN updates => key \in DOMAIN S
    BY <1>9, <1>12
  <2> QED
    BY <2>1, <2>2, <2>3
<1>15. ASSUME NEW key \in DOMAIN S
       PROVE  S[key] = IF key \in DOMAIN updates THEN updates[key] ELSE B[key]
  <2>1. PICK e \in Entries(text) : e.key = key /\ e.value = S[key]
    BY <1>12
  <2>2. CASE key \in DOMAIN updates
    <3>1. PICK f \in Entries(text) : f.key = key /\ f.value = updates[key]
      BY <1>8, <2>2 DEF IsSet
    <3> QED
      BY <1>11, <2>1, <2>2, <3>1
  <2>3. CASE key \notin DOMAIN updates
    <3>1. PICK f \in Entries(file) : f.key = key /\ f.value = B[key]
      BY <1>12, <1>14, <2>3
    <3>2. f = e
      BY <1>9, <1>11, <2>1, <2>3, <3>1
    <3> QED
      BY <2>1, <2>3, <3>1, <3>2
  <2> QED
    BY <2>2, <2>3
<1>16. S = Over(updates, B)
  BY <1>13, <1>14, <1>15 DEF Over
<1>17. IsPrefix(Frame(file), Frame(text))
  <2>1. PICK rest \in Seq(Lines) : Frame(grown) = Frame(end.lines) \o rest
    BY <1>6 DEF GrownSays
  <2>2. Frame(end.lines) = Frame(file) /\ Frame(file) \in Seq(Lines)
    BY <1>2, FrameJoins DEF WalkSays
  <2> QED
    BY <1>7, <2>1, <2>2, ContinuedIsPrefix
<1> QED
  BY <1>7, <1>16, <1>17 DEF text, S, B

-----------------------------------------------------------------------------
(* remove_toml_keys *)

(* A walk that strikes out keys has kept all but their plain assignments,   *)
(* and knows which these were.                                              *)
StrikeSays(walk, part, keys) ==
  /\ walk.table = EndTable(walk.lines) /\ walk.table = EndTable(part)
  /\ Frame(walk.lines) = Frame(part)
  /\ Entries(walk.lines) = {e \in Entries(part) : ~(e.kind = "key" /\ e.key \in keys)}
  /\ walk.removed = {e.key : e \in {f \in Entries(part) : f.kind = "key" /\ f.key \in keys}}

(* One turn of the loop keeps that.                                         *)
LEMMA LineStruck ==
  ASSUME NEW keys, NEW walk \in Walks, NEW part \in Seq(Lines),
         StrikeSays(walk, part, keys), NEW line \in Lines
  PROVE  LET next == LineRemoved(walk, line, keys)
         IN  next \in Walks /\ StrikeSays(next, Append(part, line), keys)
<1> DEFINE next == LineRemoved(walk, line, keys)
           T == walk.table
           entry == Entry(T, line)
<1>1. /\ walk.lines \in Seq(Lines) /\ EndTable(walk.lines) = T /\ EndTable(part) = T
      /\ Frame(walk.lines) = Frame(part)
  BY DEF Walks, StrikeSays
<1>2. entry.key = <<T, line.leaf>> /\ entry.kind = line.kind
  BY DEF Entry
<1>3. CASE line.kind = "table"
  <2>1. next = Entered(walk, line)
    BY <1>3 DEF LineRemoved
  <2> HIDE DEF next
  <2>2. line.table \in Tables
    BY <1>3, LineKinds
  <2>3. /\ next.lines = Append(walk.lines, line) /\ next.table = line.table
        /\ next.removed = walk.removed /\ next \in Walks
    BY <1>1, <2>1, <2>2, Appended DEF Entered, Walks
  <2>4. /\ EndTable(next.lines) = line.table /\ Entries(next.lines) = Entries(walk.lines)
        /\ EndTable(Append(part, line)) = line.table
        /\ Entries(Append(part, line)) = Entries(part)
    BY <1>1, <1>3, <2>3, HeaderBegins
  <2>5. Frame(next.lines) = Frame(Append(part, line))
    BY <1>1, <2>3, FrameAdds, ZenonT(40)
  <2>6. StrikeSays(next, Append(part, line), keys)
    BY <2>3, <2>4, <2>5 DEF StrikeSays
  <2> QED
    BY <2>3, <2>6 DEF next
<1>4. CASE line.kind = "key" /\ <<T, line.leaf>> \in keys
  <2>1. next = [walk EXCEPT !.removed = @ \cup {<<T, line.leaf>>}]
    BY <1>4 DEF LineRemoved
  <2> HIDE DEF next
  <2>2. line.leaf \in Leaves
    BY <1>4, LineKinds
  <2>3. /\ next.lines = walk.lines /\ next.table = T
        /\ next.removed = walk.removed \cup {<<T, line.leaf>>} /\ next \in Walks
    <3> DEFINE pair == <<T, line.leaf>>
    <3>1. pair \in (Tables \cup {NoTable}) \X Leaves
      BY <2>2 DEF Walks
    <3> HIDE DEF pair
    <3>2. next = [walk EXCEPT !.removed = @ \cup {pair}]
      BY <2>1 DEF pair
    <3>3. /\ next.lines = walk.lines /\ next.table = T
          /\ next.removed = walk.removed \cup {pair} /\ next \in Walks
      BY <3>1, <3>2 DEF Walks
    <3> QED
      BY <3>3 DEF pair
  <2>4. EndTable(Append(part, line)) = T /\ Entries(Append(part, line)) = Entries(part) \cup {entry}
    BY <1>1, <1>4, LineAdds
  <2>5. Frame(next.lines) = Frame(Append(part, line))
    BY <1>1, <1>4, <2>3, FrameAdds DEF Framing
  <2> HIDE DEF entry, T
  <2>6. /\ Entries(next.lines)
             = {e \in Entries(Append(part, line)) : ~(e.kind = "key" /\ e.key \in keys)}
        /\ next.removed = {e.key : e \in {f \in Entries(Append(part, line)) :
                                            f.kind = "key" /\ f.key \in keys}}
    BY <1>2, <1>4, <2>3, <2>4 DEF StrikeSays
  <2>7. StrikeSays(next, Append(part, line), keys)
    BY <1>1, <2>3, <2>4, <2>5, <2>6 DEF StrikeSays
  <2> QED
    BY <2>3, <2>7 DEF next
<1>5. CASE line.kind # "table" /\ ~(line.kind = "key" /\ <<T, line.leaf>> \in keys)
  <2> DEFINE added == IF line.kind \in {"key", "quoted"} THEN {entry} ELSE {}
  <2>1. next = [walk EXCEPT !.lines = Append(@, line)]
    BY <1>5 DEF LineRemoved
  <2> HIDE DEF next
  <2>2. /\ next.lines = Append(walk.lines, line) /\ next.table = T
        /\ next.removed = walk.removed /\ next \in Walks
    BY <1>1, <2>1, Appended DEF Walks
  <2>3. /\ EndTable(next.lines) = T /\ Entries(next.lines) = Entries(walk.lines) \cup added
        /\ EndTable(Append(part, line)) = T
        /\ Entries(Append(part, line)) = Entries(part) \cup added
    BY <1>1, <1>5, <2>2, LineAdds
  <2>4. Frame(next.lines) = Frame(Append(part, line))
    BY <1>1, <2>2, FrameAdds
  <2>5. \A e \in added : ~(e.kind = "key" /\ e.key \in keys)
    BY <1>2, <1>5
  <2> HIDE DEF added, T
  <2>6. /\ Entries(next.lines)
             = {e \in Entries(Append(part, line)) : ~(e.kind = "key" /\ e.key \in keys)}
        /\ next.removed = {e.key : e \in {f \in Entries(Append(part, line)) :
                                            f.kind = "key" /\ f.key \in keys}}
    BY <2>2, <2>3, <2>5 DEF StrikeSays
  <2>7. StrikeSays(next, Append(part, line), keys)
    BY <2>2, <2>3, <2>4, <2>6 DEF StrikeSays
  <2> QED
    BY <2>2, <2>7 DEF next
<1> QED
  BY <1>3, <1>4, <1>5

(* After the whole file the walk has struck out what was asked for.         *)
LEMMA StruckSays ==
  ASSUME NEW keys, NEW file \in Seq(Lines)
  PROVE  Struck(file, keys) \in Walks /\ StrikeSays(Struck(file, keys), file, keys)
<1> DEFINE N == Len(file)
           Up(k) == SubSeq(file, 1, k)
           Turn(v, i) == LineRemoved(v, file[i], keys)
           Step == [i \in 1 .. N |-> [v \in Walks |->
                      IF StrikeSays(v, Up(i - 1), keys) THEN Turn(v, i) ELSE Beginning]]
           Body(t) == [i \in 0 .. N |-> IF i = 0 THEN Beginning ELSE Turn(t[i - 1], i)]
           t == CHOOSE t : t = Body(t)
<1>1. /\ N \in Nat /\ Up(0) = <<>> /\ Up(N) = file
      /\ \A i \in 1 .. N : i - 1 \in 0 .. N - 1 /\ (i - 1) + 1 = i /\ i \in 0 .. N
                           /\ i - 1 \in 0 .. N
  BY SubSeqFull, SubSeqEmpty, LenProperties
<1>2. ASSUME NEW i \in 1 .. N, NEW v \in Walks, StrikeSays(v, Up(i - 1), keys)
      PROVE  Turn(v, i) \in Walks /\ StrikeSays(Turn(v, i), Up(i), keys)
  <2>1. /\ Up(i - 1) \in Seq(Lines) /\ file[i] \in Lines
        /\ Up(i) = Append(Up(i - 1), file[i])
    BY <1>1, Grows
  <2> HIDE DEF Up
  <2> QED
    BY <1>2, <2>1, LineStruck
<1>3. Struck(file, keys) = t[N]
  BY Zenon DEF Struck
<1>4. Beginning \in Walks /\ StrikeSays(Beginning, <<>>, keys)
  <2>1. <<>> \in Seq(Lines) /\ Len(<<>>) = 0 /\ DOMAIN <<>> = {}
    BY EmptySeq, LenProperties
  <2>2. EndTable(<<>>) = NoTable /\ Entries(<<>>) = {}
    BY <2>1 DEF EndTable, TableAt, Headers, Entries, Assignments
  <2>3. Beginning.lines = <<>> /\ Beginning.table = NoTable /\ Beginning.removed = {}
    BY DEF Beginning
  <2> QED
    BY <2>2, <2>3, BeginningSays DEF StrikeSays
<1> HIDE DEF Turn, Up, N
<1>5. StaysIn(Walks, N, Step)
  BY <1>2, <1>4 DEF StaysIn
<1>6. PICK walk : Iterates(walk, Walks, N, Beginning, Step)
  <2> HIDE DEF Step
  <2> QED
    BY <1>1, <1>4, <1>5, Recursion
<1>7. /\ walk \in [0 .. N -> Walks] /\ walk[0] = Beginning
      /\ \A i \in 1 .. N : walk[i] = Step[i][walk[i - 1]]
  BY <1>6 DEF Iterates
<1> DEFINE T == {i \in 0 .. N : StrikeSays(walk[i], Up(i), keys)}
<1>8. 0 \in T
  BY <1>1, <1>4, <1>7
<1>9. ASSUME NEW i \in 1 .. N, StrikeSays(walk[i - 1], Up(i - 1), keys)
      PROVE  walk[i] = Turn(walk[i - 1], i) /\ StrikeSays(walk[i], Up(i), keys)
  <2>1. walk[i - 1] \in Walks
    BY <1>1, <1>7
  <2>2. walk[i] = Turn(walk[i - 1], i)
    BY <1>7, <1>9, <2>1
  <2> QED
    BY <1>2, <1>9, <2>1, <2>2
<1>10. ASSUME NEW i \in 0 .. N - 1, i \in T
       PROVE  i + 1 \in T
  <2>1. i + 1 \in 1 .. N /\ (i + 1) - 1 = i /\ i + 1 \in 0 .. N
    BY <1>1
  <2> QED
    BY <1>9, <1>10, <2>1
<1>11. \A i \in 0 .. N : StrikeSays(walk[i], Up(i), keys)
  <2>1. \A i \in 0 .. N : i \in T
    <3> HIDE DEF T
    <3> QED
      BY <1>1, <1>8, <1>10, Induction
  <2> QED
    BY <2>1
<1>12. \A i \in 1 .. N : walk[i] = Turn(walk[i - 1], i)
  BY <1>1, <1>9, <1>11
<1>13. walk = Body(walk)
  <2>1. \A i \in 0 .. N : i = 0 \/ i \in 1 .. N
    BY <1>1
  <2>2. \A i \in 0 .. N : walk[i] = Body(walk)[i]
    BY <1>7, <1>12, <2>1
  <2>3. walk = [i \in 0 .. N |-> walk[i]]
    BY <1>7
  <2> QED
    BY <2>2, <2>3
<1>14. t = Body(t)
  <2> HIDE DEF Body
  <2> QED
    BY <1>13
<1> HIDE DEF t
<1> DEFINE Q == {i \in 0 .. N : t[i] = walk[i]}
<1>15. 0 \in Q
  BY <1>1, <1>7, <1>14
<1>16. ASSUME NEW i \in 0 .. N - 1, i \in Q
       PROVE  i + 1 \in Q
  <2>1. i + 1 \in 1 .. N /\ (i + 1) - 1 = i /\ i + 1 # 0 /\ i + 1 \in 0 .. N
    BY <1>1
  <2>2. t[i + 1] = Turn(t[i], i + 1)
    BY <1>14, <2>1
  <2>3. walk[i + 1] = Turn(walk[i], i + 1)
    BY <1>12, <2>1
  <2> QED
    BY <1>16, <2>1, <2>2, <2>3
<1>17. N \in Q
  <2> HIDE DEF Q
  <2> QED
    BY <1>1, <1>15, <1>16, N \in 0 .. N, Induction
<1> QED
  BY <1>1, <1>3, <1>7, <1>11, <1>17

(* What remove_toml_keys() makes of a text in which no key is set in two    *)
(* spellings: the settings without the keys it reports, in the same frame.  *)
LEMMA RemovedIsExact ==
  ASSUME NEW keys, NEW file \in Seq(Lines), OneSpelling(file),
         NEW edit, edit = Removed(file, keys), WellFormed(edit.lines)
  PROVE  /\ edit.lines \in Seq(Lines)
         /\ SettingsOf(edit.lines) = Without(SettingsOf(file), edit.removed)
         /\ IsPrefix(Frame(file), Frame(edit.lines))
<1> DEFINE end == Struck(file, keys)
           text == edit.lines
           gone == edit.removed
           S == SettingsOf(text)
           B == SettingsOf(file)
<1>1. text = Trimmed(end.lines) /\ gone = end.removed
  BY DEF Removed
<1>2. end \in Walks /\ StrikeSays(end, file, keys)
  BY StruckSays
<1> HIDE DEF end, text, gone
<1>3. end.lines \in Seq(Lines)
  BY <1>2 DEF Walks
<1>4. text \in Seq(Lines) /\ Entries(text) = Entries(end.lines) /\ Frame(text) = Frame(end.lines)
  BY <1>1, <1>3, TrimmedSays
<1>5. /\ Entries(text) = {e \in Entries(file) : ~(e.kind = "key" /\ e.key \in keys)}
      /\ gone = {e.key : e \in {f \in Entries(file) : f.kind = "key" /\ f.key \in keys}}
      /\ Frame(text) = Frame(file)
  BY <1>1, <1>2, <1>4 DEF StrikeSays
<1>6. /\ \A e, f \in Entries(file) : e.key = f.key => e.kind = f.kind
      /\ \A e, f \in Entries(text) : e.key = f.key => e = f
  BY <1>4, SettingsAreEntries DEF text
<1>7. \A e \in Entries(file) : e \in Entries(text) <=> e.key \notin gone
  BY <1>5, <1>6
<1>8. /\ DOMAIN S = {e.key : e \in Entries(text)}
      /\ \A key \in DOMAIN S : \E e \in Entries(text) : e.key = key /\ e.value = S[key]
      /\ DOMAIN B = {e.key : e \in Entries(file)}
      /\ \A key \in DOMAIN B : \E e \in Entries(file) : e.key = key /\ e.value = B[key]
  BY <1>4, SettingsAreEntries
<1>9. S = [key \in DOMAIN S |-> S[key]]
  BY DEF SettingsOf
<1> HIDE DEF S, B
<1>10. Entries(text) \subseteq Entries(file)
  BY <1>5
<1>11. DOMAIN S = DOMAIN B \ gone
  BY <1>7, <1>8, <1>10
<1>12. ASSUME NEW key \in DOMAIN S
       PROVE  S[key] = B[key]
  <2>1. PICK e \in Entries(text) : e.key = key /\ e.value = S[key]
    BY <1>8
  <2>2. PICK f \in Entries(file) : f.key = key /\ f.value = B[key]
    BY <1>8, <1>11
  <2>3. f = e
    BY <1>6, <1>7, <1>11, <2>1, <2>2
  <2> QED
    BY <2>1, <2>2, <2>3
<1>13. S = Without(B, gone)
  BY <1>9, <1>11, <1>12 DEF Without
<1>14. IsPrefix(Frame(file), Frame(text))
  <2>1. Frame(file) \in Seq(Lines) /\ <<>> \in Seq(Lines)
    BY FrameJoins
  <2>2. Frame(file) \o <<>> = Frame(file) /\ IsPrefix(Frame(file), Frame(file) \o <<>>)
    BY <2>1, ConcatEmptySeq, ContinuedIsPrefix
  <2> QED
    BY <1>5, <2>2
<1> QED
  BY <1>4, <1>13, <1>14 DEF text, gone, S, B

-----------------------------------------------------------------------------
(* What a call that succeeded has promised stays true *)

(* A job that is under way writes values that have been coerced. *)
JobOK ==
  job.step # "idle" =>
    /\ {"step", "call", "settings", "temp"} \subseteq DOMAIN job
    /\ job.call \in {"commit", "unset"}
    /\ job.call = "commit" =>
         \A key \in DOMAIN job.settings :
           /\ key \in Schema /\ job.settings[key] # Invalid
           /\ Coerce[job.settings[key]] = job.settings[key]

IInv == SessionOK /\ JobOK /\ AnswersHold

(* What validate_leaf lets through is in the schema and stays as it is when *)
(* it is coerced again.                                                     *)
LEMMA ValidatedValues ==
  ASSUME NEW updates \in Payloads, NEW key \in DOMAIN Validated(updates)
  PROVE  /\ key \in Schema /\ Validated(updates)[key] # Invalid
         /\ Coerce[Validated(updates)[key]] = Validated(updates)[key]
BY CoerceAssumption, ValuesAssumption DEF Validated, Accepted

(* What the layers of a configuration show of themselves. *)
LEMMA ResolvedShows ==
  ASSUME NEW systemFile, NEW userFile, NEW overrides,
         \A key \in DOMAIN overrides :
           /\ key \in Schema
           /\ overrides[key] # Invalid /\ Coerce[overrides[key]] = overrides[key]
  PROVE  LET r == Resolve(systemFile, userFile, overrides)
         IN  /\ \A key \in DOMAIN overrides : r.value[key] = overrides[key]
             /\ \A key \in DOMAIN r.layer :
                  /\ r.layer[key] = "session" => key \in DOMAIN overrides
                  /\ r.layer[key] = "user" =>
                       key \in DOMAIN FileSettings(userFile)
             /\ \A key \in Accepted(FileSettings(userFile)) :
                  \/ r.layer[key] = "session"
                  \/ /\ r.layer[key] = "user"
                     /\ r.value[key] = Coerce[FileSettings(userFile)[key]]
<1> PICK r : r = Resolve(systemFile, userFile, overrides)
  OBVIOUS
<1>1. PICK r1, r2 :
        /\ LaidOver(r1, Builtin, "system", FileSettings(systemFile))
        /\ LaidOver(r2, r1, "user", FileSettings(userFile))
        /\ LaidOver(r, r2, "session", overrides)
  BY ResolveLays
<1>2. Accepted(overrides) = DOMAIN overrides
  BY DEF Accepted
<1>3. \A key \in DOMAIN Builtin.layer : Builtin.layer[key] = "builtin"
  BY DEF Builtin
<1>4. \A key \in DOMAIN overrides : r.value[key] = overrides[key]
  BY <1>1, <1>2 DEF LaidOver
<1>5. ASSUME NEW key \in DOMAIN r.layer
      PROVE  /\ r.layer[key] = "session" => key \in DOMAIN overrides
             /\ r.layer[key] = "user" => key \in DOMAIN FileSettings(userFile)
  <2>1. CASE key \in DOMAIN overrides
    BY <1>1, <1>2, <2>1 DEF LaidOver
  <2>2. CASE key \notin DOMAIN overrides
    <3>1. key \in DOMAIN r2.layer /\ r.layer[key] = r2.layer[key]
      BY <1>1, <1>2, <1>5, <2>2 DEF LaidOver
    <3>2. CASE key \in Accepted(FileSettings(userFile))
      BY <1>1, <3>1, <3>2 DEF LaidOver, Accepted
    <3>3. CASE key \notin Accepted(FileSettings(userFile))
      <4>1. key \in DOMAIN r1.layer /\ r2.layer[key] = r1.layer[key]
        BY <1>1, <3>1, <3>3 DEF LaidOver
      <4>2. r1.layer[key] \in {"system", "builtin"}
        BY <1>1, <1>3, <4>1 DEF LaidOver
      <4> QED
        BY <3>1, <4>1, <4>2
    <3> QED
      BY <3>2, <3>3
  <2> QED
    BY <2>1, <2>2
<1>6. ASSUME NEW key \in Accepted(FileSettings(userFile))
      PROVE  \/ r.layer[key] = "session"
             \/ /\ r.layer[key] = "user"
                /\ r.value[key] = Coerce[FileSettings(userFile)[key]]
  <2>1. CASE key \in DOMAIN overrides
    BY <1>1, <1>2, <2>1 DEF LaidOver
  <2>2. CASE key \notin DOMAIN overrides
    BY <1>1, <1>2, <1>6, <2>2 DEF LaidOver
  <2> QED
    BY <2>1, <2>2
<1> QED
  BY <1>4, <1>5, <1>6

(* A daemon that starts has promised nothing and has no previews.           *)
LEMMA InitEstablishes ==
  ASSUME Init
  PROVE  IInv
BY DEF Init, IInv, SessionOK, JobOK, AnswersHold, NoSettings, Idle, Silent

(* preview(): the session's layer is the highest, so what was previewed is  *)
(* in force.                                                                *)
LEMMA PreviewPreserves ==
  ASSUME IInv, NEW updates \in Payloads, Preview(updates)
  PROVE  IInv'
<1>1. /\ session' = Over(Validated(updates), session)
      /\ resolved' = Resolve(system, user, session')
      /\ answer' = [call |-> "preview", settings |-> Validated(updates)]
      /\ job' = job
  BY DEF Preview, Reread, Promises
<1>2. SessionOK'
  BY <1>1, ValidatedValues DEF IInv, SessionOK, Over, Schema
<1>3. \A key \in DOMAIN session' : resolved'.value[key] = session'[key]
  BY <1>1, <1>2, ResolvedShows DEF SessionOK, Schema
<1>4. \A key \in DOMAIN Validated(updates) :
        key \in DOMAIN session' /\ session'[key] = Validated(updates)[key]
  BY <1>1 DEF Over
<1>5. AnswersHold'
  BY <1>1, <1>3, <1>4 DEF AnswersHold
<1> QED
  BY <1>1, <1>2, <1>5 DEF IInv, JobOK, Schema

(* revert_previews(): without a session no value comes from it.             *)
LEMMA RevertPreserves ==
  ASSUME IInv, RevertPreview
  PROVE  IInv'
<1>1. /\ session' = NoSettings /\ DOMAIN session' = {}
      /\ resolved' = Resolve(system, user, session')
      /\ answer' = [call |-> "revert", settings |-> NoSettings]
      /\ job' = job
  BY DEF RevertPreview, Reread, Promises, NoSettings
<1>2. SessionOK'
  BY <1>1 DEF SessionOK
<1>3. \A key \in DOMAIN resolved'.layer : resolved'.layer[key] # "session"
  BY <1>1, ResolvedShows
<1> QED
  BY <1>1, <1>2, <1>3 DEF IInv, JobOK, AnswersHold, Schema

(* Calls that promise nothing, and steps that leave the promise alone. *)
LEMMA SilentPreserves ==
  ASSUME IInv, answer' = Silent, session' = session \/ session' = NoSettings,
         JobOK'
  PROVE  IInv'
BY DEF IInv, SessionOK, AnswersHold, Silent, NoSettings, Schema

(* A step that leaves the configuration and the promise alone, and forgets  *)
(* a job at most.                                                           *)
LEMMA KeptPreserves ==
  ASSUME IInv, UNCHANGED <<answer, resolved, session>>, JobOK'
  PROVE  IInv'
BY DEF IInv, SessionOK, AnswersHold, Schema

(* The reload that ends a commit or unset, after an exact edit: the promise *)
(* the call then makes holds.                                               *)
LEMMA ReloadedPreserves ==
  ASSUME IInv, EditedExactly, Reloaded
  PROVE  IInv'
<1>1. /\ job.step = "reload" /\ session' = session /\ job' = Idle
      /\ resolved' = Resolve(system, user, session)
  BY DEF Reloaded, Reread
<1>2. JobOK' /\ SessionOK'
  BY <1>1 DEF JobOK, Idle, IInv, SessionOK, Schema
<1>3. CASE user # job.text
  BY <1>1, <1>2, <1>3, SilentPreserves DEF Reloaded
<1>4. CASE user = job.text
  <2>1. answer' = [call |-> job.call, settings |-> job.settings]
    BY <1>4 DEF Reloaded, Promises
  <2>2. FileSettings(user) = SettingsOf(user) /\ ExactEdit(job, user)
    BY <1>1, <1>4 DEF EditedExactly, ExactEdit, FileSettings
  <2>3. CASE job.call = "commit"
    <3>1. \A key \in DOMAIN job.settings :
            /\ key \in Accepted(FileSettings(user))
            /\ Coerce[FileSettings(user)[key]] = job.settings[key]
      BY <1>1, <2>2, <2>3 DEF ExactEdit, Over, Accepted, IInv, JobOK
    <3>2. \A key \in Accepted(FileSettings(user)) :
            \/ resolved'.layer[key] = "session"
            \/ /\ resolved'.layer[key] = "user"
               /\ resolved'.value[key] = Coerce[FileSettings(user)[key]]
      BY <1>1, ResolvedShows DEF IInv, SessionOK
    <3> QED
      BY <1>2, <2>1, <2>3, <3>1, <3>2 DEF IInv, AnswersHold
  <2>4. CASE job.call = "unset"
    <3>1. \A key \in DOMAIN job.settings : key \notin DOMAIN FileSettings(user)
      BY <2>2, <2>4 DEF ExactEdit, Without
    <3>2. \A key \in DOMAIN resolved'.layer :
            resolved'.layer[key] = "user" => key \in DOMAIN FileSettings(user)
      BY <1>1, ResolvedShows DEF IInv, SessionOK
    <3> QED
      BY <1>2, <2>1, <2>4, <3>1, <3>2 DEF IInv, AnswersHold
  <2> QED
    BY <1>1, <2>3, <2>4 DEF IInv, JobOK
<1> QED
  BY <1>3, <1>4

(* One step per action.                                                     *)
LEMMA NextPreserves ==
  ASSUME IInv, EditedExactly, [Next]_vars
  PROVE  IInv'
<1>1. CASE UNCHANGED vars
  <2>1. UNCHANGED <<answer, resolved, session, job>>
    BY <1>1 DEF vars
  <2> QED
    BY <2>1, KeptPreserves DEF IInv, JobOK, Schema
<1>2. ASSUME NEW updates \in Payloads, Commit(updates)
      PROVE  IInv'
  <2>1. /\ answer' = Silent /\ session' = session
        /\ job'.call = "commit" /\ job'.settings = Validated(updates)
        /\ {"step", "call", "settings", "temp"} \subseteq DOMAIN job'
    BY <1>2 DEF Commit, Begins
  <2>2. JobOK'
    BY <2>1, ValidatedValues DEF JobOK, Schema
  <2> QED
    BY <2>1, <2>2, SilentPreserves
<1>3. ASSUME NEW keys \in KeyLists, Unset(keys)
      PROVE  IInv'
  <2>1. /\ answer' = Silent /\ session' = session /\ job'.call = "unset"
        /\ {"step", "call", "settings", "temp"} \subseteq DOMAIN job'
    BY <1>3 DEF Unset, Begins
  <2>2. JobOK'
    BY <2>1 DEF JobOK
  <2> QED
    BY <2>1, <2>2, SilentPreserves
<1>4. CASE Reload \/ Restarted
  <2>1. /\ answer' = Silent
        /\ (session' = session \/ session' = NoSettings)
        /\ (job' = job \/ job' = Idle)
    BY <1>4 DEF Reload, Restarted
  <2>2. JobOK'
    BY <2>1 DEF IInv, JobOK, Idle, Schema
  <2> QED
    BY <2>1, <2>2, SilentPreserves
<1>5. CASE Write \/ Replace \/ WriteFails \/ EditorSaves
  <2>1. UNCHANGED <<answer, resolved, session>>
    BY <1>5 DEF Write, Replace, WriteFails, EditorSaves
  <2>2. JobOK'
    <3>1. CASE Write
      BY <3>1 DEF Write, IInv, JobOK, Schema
    <3>2. CASE Replace
      BY <3>2 DEF Replace, IInv, JobOK, Schema
    <3>3. CASE WriteFails
      BY <3>3 DEF WriteFails, JobOK, Idle
    <3>4. CASE EditorSaves
      BY <3>4 DEF EditorSaves, IInv, JobOK, Schema
    <3> QED
      BY <1>5, <3>1, <3>2, <3>3, <3>4
  <2> QED
    BY <2>1, <2>2, KeptPreserves
<1> QED
  BY <1>1, <1>2, <1>3, <1>4, <1>5, PreviewPreserves, RevertPreserves,
     ReloadedPreserves
  DEF Next

-----------------------------------------------------------------------------
(* What commit and unset write *)

(* The file of the user and the text under way are texts in which no key is *)
(* set in two spellings, and the text under way is an exact edit.           *)
FilesOK ==
  /\ user \in Seq(Lines) /\ OneSpelling(user)
  /\ job.step # "idle" =>
       /\ {"call", "settings", "base", "text"} \subseteq DOMAIN job
       /\ job.text \in Seq(Lines) /\ OneSpelling(job.text)
  /\ EditedExactly

(* What TOML takes sets no key twice, so none in two spellings. *)
LEMMA WellFormedIsSpelledOnce ==
  ASSUME NEW text, WellFormed(text)
  PROVE  OneSpelling(text)
BY DEF WellFormed, OneSpelling

(* What validate_updates() yields is an edit.                               *)
LEMMA ValidatedIsEdit ==
  ASSUME NEW updates \in Payloads
  PROVE  Edit(Validated(updates))
<1>1. /\ DOMAIN Validated(updates) = Accepted(updates)
      /\ \A key \in Accepted(updates) : Validated(updates)[key] = Coerce[updates[key]]
  BY DEF Validated
<1>2. Accepted(updates) \subseteq DOMAIN updates /\ Accepted(updates) \subseteq Schema
  BY DEF Accepted
<1>3. IsFiniteSet(Accepted(updates))
  BY <1>2, ValuesAssumption, FS_Subset
<1>4. Schema \subseteq Tables \X Leaves
  BY TextsAssumption DEF Schema
<1>5. \A key \in Accepted(updates) : Coerce[updates[key]] \in DOMAIN Coerce
  BY CoerceAssumption, ValuesAssumption DEF Accepted
<1> QED
  BY <1>1, <1>2, <1>3, <1>4, <1>5 DEF Edit

(* commit begins with an exact edit of the file as it is.                   *)
LEMMA CommitEdits ==
  ASSUME FilesOK, NEW updates \in Payloads, Commit(updates)
  PROVE  FilesOK'
<1> DEFINE text == Updated(user, Validated(updates))
<1>1. /\ WellFormed(text) /\ user' = user
      /\ job' = [step |-> "write", call |-> "commit", settings |-> Validated(updates),
                 base |-> user, text |-> text, temp |-> <<>>]
  BY DEF Commit, Begins
<1>2. user \in Seq(Lines) /\ OneSpelling(user)
  BY DEF FilesOK
<1>3. /\ text \in Seq(Lines)
      /\ SettingsOf(text) = Over(Validated(updates), SettingsOf(user))
      /\ IsPrefix(Frame(user), Frame(text))
  BY <1>1, <1>2, ValidatedIsEdit, UpdatedIsExact
<1>4. OneSpelling(text)
  BY <1>1, WellFormedIsSpelledOnce
<1> HIDE DEF text
<1>5. EditedExactly'
  BY <1>1, <1>3 DEF EditedExactly, ExactEdit
<1>6. job'.text = text /\ {"call", "settings", "base", "text"} \subseteq DOMAIN job'
  BY <1>1
<1> QED
  BY <1>1, <1>2, <1>3, <1>4, <1>5, <1>6 DEF FilesOK, Lines

(* unset begins with an exact edit of the file as it is.                    *)
LEMMA UnsetEdits ==
  ASSUME FilesOK, NEW keys \in KeyLists, Unset(keys)
  PROVE  FilesOK'
<1>1. PICK edit : /\ edit = Removed(user, keys \cap Schema)
                  /\ Begins("unset", [key \in edit.removed |-> Invalid], edit.lines)
  BY DEF Unset
<1>2. user' = user /\ user \in Seq(Lines) /\ OneSpelling(user)
  BY DEF Unset, FilesOK
<1> DEFINE settings == [key \in edit.removed |-> Invalid]
<1>3. /\ WellFormed(edit.lines)
      /\ job' = [step |-> "write", call |-> "unset", settings |-> settings,
                 base |-> user, text |-> edit.lines, temp |-> <<>>]
  BY <1>1 DEF Begins
<1>4. /\ edit.lines \in Seq(Lines)
      /\ SettingsOf(edit.lines) = Without(SettingsOf(user), edit.removed)
      /\ IsPrefix(Frame(user), Frame(edit.lines))
  BY <1>1, <1>2, <1>3, RemovedIsExact
<1>5. OneSpelling(edit.lines)
  BY <1>3, WellFormedIsSpelledOnce
<1>6. DOMAIN settings = edit.removed
  OBVIOUS
<1> HIDE DEF settings
<1>7. EditedExactly'
  BY <1>3, <1>4, <1>6 DEF EditedExactly, ExactEdit
<1>8. job'.text = edit.lines /\ {"call", "settings", "base", "text"} \subseteq DOMAIN job'
  BY <1>3
<1> QED
  BY <1>2, <1>4, <1>5, <1>7, <1>8 DEF FilesOK, Lines

(* A job goes on with the text it has, or is over. *)
LEMMA JobGoesOn ==
  ASSUME FilesOK, user' \in Seq(Lines), OneSpelling(user'),
         \/ job' = job
         \/ job' = Idle
         \/ /\ job.step # "idle"
            /\ \/ job' = [job EXCEPT !.step = "reload"]
               \/ \E n : job' = [job EXCEPT !.temp = SubSeq(job.text, 1, n)]
  PROVE  FilesOK'
<1>1. CASE job' = job
  BY <1>1 DEF FilesOK, EditedExactly, ExactEdit, Lines
<1>2. CASE job' = Idle
  BY <1>2 DEF FilesOK, EditedExactly, Idle, Lines
<1>3. CASE /\ job.step # "idle"
           /\ \/ job' = [job EXCEPT !.step = "reload"]
              \/ \E n : job' = [job EXCEPT !.temp = SubSeq(job.text, 1, n)]
  <2>1. /\ job'.text = job.text /\ job'.call = job.call
        /\ job'.settings = job.settings /\ job'.base = job.base
        /\ DOMAIN job' = DOMAIN job
    BY <1>3 DEF FilesOK
  <2>2. ExactEdit(job, job.text)
    BY <1>3 DEF FilesOK, EditedExactly
  <2>3. ExactEdit(job', job'.text)
    BY <2>1, <2>2 DEF ExactEdit
  <2> QED
    BY <1>3, <2>1, <2>3 DEF FilesOK, EditedExactly, Lines
<1> QED
  BY <1>1, <1>2, <1>3

(* One step per action.                                                     *)
LEMMA NextKeepsFiles ==
  ASSUME FilesOK, [Next]_vars
  PROVE  FilesOK'
<1>1. CASE UNCHANGED vars
  BY <1>1, JobGoesOn DEF vars, FilesOK
<1>2. ASSUME NEW updates \in Payloads, Preview(updates)
      PROVE  FilesOK'
  BY <1>2, JobGoesOn DEF Preview, FilesOK
<1>3. CASE RevertPreview \/ Reload
  BY <1>3, JobGoesOn DEF RevertPreview, Reload, FilesOK
<1>4. CASE Write
  BY <1>4, JobGoesOn DEF Write, FilesOK
<1>5. CASE Replace
  <2>1. user' = job.text /\ job.step # "idle"
    BY <1>5 DEF Replace
  <2>2. user' \in Seq(Lines) /\ OneSpelling(user')
    BY <2>1 DEF FilesOK
  <2> QED
    BY <1>5, <2>1, <2>2, JobGoesOn DEF Replace
<1>6. CASE WriteFails \/ Reloaded \/ Restarted
  BY <1>6, JobGoesOn DEF WriteFails, Reloaded, Restarted, FilesOK
<1>7. CASE EditorSaves
  <2>1. user' \in Seq(Lines) /\ OneSpelling(user') /\ job' = job
    BY <1>7, TextsAssumption, SpellingAssumption DEF EditorSaves
  <2> QED
    BY <2>1, JobGoesOn
<1> QED
  BY <1>1, <1>2, <1>3, <1>4, <1>5, <1>6, <1>7, CommitEdits, UnsetEdits DEF Next

-----------------------------------------------------------------------------
(* The theorems *)

(* Previews enter the session coerced, whatever was previewed before. *)
THEOREM SessionIsCoerced == Spec => []SessionOK
<1>1. Init => SessionOK
  BY DEF Init, SessionOK, NoSettings
<1>2. SessionOK /\ [Next]_vars => SessionOK'
  <2> SUFFICES ASSUME SessionOK, [Next]_vars
               PROVE  SessionOK'
    OBVIOUS
  <2>1. ASSUME NEW updates \in Payloads, Preview(updates)
        PROVE  SessionOK'
    BY <2>1, ValidatedValues DEF Preview, SessionOK, Over, Schema
  <2>2. CASE session' = NoSettings \/ session' = session
    BY <2>2 DEF SessionOK, NoSettings, Schema
  <2> QED
    BY <2>1, <2>2
    DEF Next, vars, Commit, Unset, RevertPreview, Reload, Write, Replace,
        WriteFails, Reloaded, EditorSaves, Restarted
<1> QED
  BY <1>1, <1>2, PTL DEF Spec

(* load_resolved_config resolves what it is meant to: the highest layer     *)
(* with an acceptable value decides, and all others are reported.           *)
THEOREM HighestLayerAlwaysDecides == Spec => []HighestDecides
<1>1. SessionOK => HighestDecides
  BY HighestLayerDecides
<1> QED
  BY <1>1, SessionIsCoerced, PTL

(* The daemon only ever puts complete and exact edits of what it read in    *)
(* the place of the user's file: commit lays what it was given over the     *)
(* settings of the file and unset takes away what it reports, whatever the  *)
(* lines of the file are, whoever saves meanwhile and whatever fails.       *)
THEOREM EditsAreAlwaysExact == Spec => EditsAreExact
<1> DEFINE Exact == /\ job' # job => EditedExactly'
                    /\ user' # user =>
                         \/ EditorSaves
                         \/ /\ job.step = "write"
                            /\ ExactEdit(job, user')
<1>1. Init => FilesOK
  BY TextsAssumption, SpellingAssumption DEF Init, Idle, FilesOK, EditedExactly
<1>2. FilesOK /\ [Next]_vars => FilesOK'
  BY NextKeepsFiles
<1>3. FilesOK /\ FilesOK' /\ [Next]_vars => [Exact]_vars
  <2> SUFFICES ASSUME FilesOK, FilesOK', Next
               PROVE  Exact
    OBVIOUS
  <2>1. EditedExactly'
    BY DEF FilesOK
  <2>2. user' = user \/ Replace \/ EditorSaves
    BY DEF Next, Preview, Commit, Unset, RevertPreview, Reload, Write, WriteFails,
           Reloaded, Restarted
  <2>3. Replace => job.step = "write" /\ ExactEdit(job, user')
    BY DEF Replace, FilesOK, EditedExactly
  <2> QED
    BY <2>1, <2>2, <2>3
<1>4. [][Exact]_vars => EditsAreExact
  BY DEF EditsAreExact
<1> HIDE DEF Exact
<1> QED
  BY <1>1, <1>2, <1>3, <1>4, PTL DEF Spec

(* A call that was answered with success keeps its promise until the next   *)
(* one, whoever saves and whatever fails.                                   *)
THEOREM PromisesAreKept == Spec => []AnswersHold
<1>1. Init => IInv /\ FilesOK
  BY InitEstablishes, TextsAssumption, SpellingAssumption
  DEF Init, Idle, FilesOK, EditedExactly
<1>2. IInv /\ FilesOK /\ [Next]_vars => (IInv /\ FilesOK)'
  <2>1. FilesOK => EditedExactly
    BY DEF FilesOK
  <2> QED
    BY <2>1, NextPreserves, NextKeepsFiles
<1>3. IInv => AnswersHold
  BY DEF IInv
<1> QED
  BY <1>1, <1>2, <1>3, PTL DEF Spec
=============================================================================
