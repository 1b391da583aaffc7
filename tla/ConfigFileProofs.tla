-------------------------- MODULE ConfigFileProofs --------------------------
(***************************************************************************)
(* Theorems about ConfigFile, for any files whose lines the edits see as   *)
(* tomllib does, however their sections and keys are arranged, and for any *)
(* values that need no escape.                                             *)
(***************************************************************************)
EXTENDS ConfigFile, WellFoundedInduction, TLAPS

\* The lines of orderly files: [section], or name = value.
FineLines == {line \in FileLines :
                 /\ line = IF line.header THEN Header(line.name)
                           ELSE Setting(line.name, line.value)
                 /\ line.header => line.name # Top
                 /\ line.value # Broken}

\* No second section and no second key of a name.
Unique(f) ==
    \A i, j \in DOMAIN f :
        f[i].header = f[j].header /\ f[i].name = f[j].name
            /\ (f[i].header \/ Section(f, i) = Section(f, j)) => i = j

\* What an edit is asked for: values for keys that need no escape.
IsNew(new) == /\ DOMAIN new \subseteq Keys
              /\ \A k \in DOMAIN new : new[k] \in STRING \ {Broken} /\ Quotable(new[k])

-----------------------------------------------------------------------------
(* The last header before a line *)

\* Sets of natural numbers have least elements.
LEMMA Least == ASSUME NEW T \in SUBSET Nat, T # {} PROVE \E x \in T : \A y \in T : x =< y
<1> DEFINE R == OpToRel(<, Nat)
<1>1. \A x, y \in Nat : y < x => <<y, x>> \in R
  BY DEF OpToRel
<1>2. \E x \in T : \A y \in T : ~ (<<y, x>> \in R)
  <2> HIDE DEF R
  <2> QED BY NatLessThanWellFounded, WFMin, Zenon DEF R
<1>3. PICK x \in T : \A y \in T : ~ (<<y, x>> \in R)
  <2> HIDE DEF R
  <2> QED BY <1>2
<1>4. \A y \in T : ~ (y < x)
  <2> HIDE DEF R
  <2> QED BY <1>1, <1>3
<1> QED BY <1>4

LEMMA MinIs ==
    ASSUME NEW T \in SUBSET Nat, T # {}
    PROVE  Min(T) \in T /\ \A y \in T : Min(T) =< y
BY Least DEF Min

LEMMA MaxIs ==
    ASSUME NEW T \in SUBSET Nat, NEW m \in T, \A y \in T : y =< m
    PROVE  Max(T) = m
<1>1. Max(T) \in T /\ \A y \in T : Max(T) >= y
  BY DEF Max
<1>2. Max(T) \in Nat /\ m \in Nat /\ Max(T) >= m /\ Max(T) =< m
  BY <1>1
<1> HIDE DEF Max
<1> QED BY <1>2

\* Line w is the last header of f up to line i.
LastHeader(f, i, w) == w \in 1..i /\ f[w].header /\ \A j \in (w + 1)..i : ~f[j].header

LEMMA SectionIs ==
    ASSUME NEW f, NEW i \in Nat
    PROVE  /\ \A w : LastHeader(f, i, w) => Section(f, i) = f[w].name
           /\ (\A j \in 1..i : ~f[j].header) => Section(f, i) = Top
<1> DEFINE opened == {j \in 1..i : f[j].header}
<1>1. Section(f, i) = IF opened = {} THEN Top ELSE f[Max(opened)].name
  BY DEF Section
<1>2. opened \in SUBSET Nat
  OBVIOUS
<1>3. ASSUME NEW w, LastHeader(f, i, w) PROVE Section(f, i) = f[w].name
  <2>1. w \in opened /\ \A j \in opened : j =< w
    BY <1>3 DEF LastHeader
  <2> HIDE DEF opened
  <2>2. Max(opened) = w
    BY <1>2, <2>1, MaxIs
  <2> QED  BY <1>1, <2>1, <2>2
<1>4. (\A j \in 1..i : ~f[j].header) => opened = {}
  OBVIOUS
<1> HIDE DEF opened
<1> QED  BY <1>1, <1>3, <1>4

LEMMA SomeHeader ==
    ASSUME NEW f, NEW i \in Nat
    PROVE  (\A j \in 1..i : ~f[j].header) \/ \E w : LastHeader(f, i, w)
<1> SUFFICES ASSUME NEW h \in 1..i, f[h].header PROVE \E w : LastHeader(f, i, w)
  OBVIOUS
<1> DEFINE T == {x \in 0..i : x < i /\ f[i - x].header}
<1>1. T \in SUBSET Nat /\ i - h \in T
  OBVIOUS
<1>2. PICK x \in T : \A y \in T : x =< y
  <2> HIDE DEF T
  <2> QED  BY <1>1, Least
<1>3. ASSUME NEW j \in (i - x + 1)..i, f[j].header PROVE FALSE
  <2>1. i - j \in 0..i /\ i - j < x /\ i - (i - j) = j
    BY <1>2
  <2>2. i - j \in T
    BY <1>2, <1>3, <2>1
  <2> QED  BY <1>2, <2>1, <2>2
<1> QED  BY <1>2, <1>3 DEF LastHeader

-----------------------------------------------------------------------------
(* Edits that change values only *)

\* g has the lines of f, but for the values of some settings.
SameLines(f, g) ==
    /\ DOMAIN g = DOMAIN f
    /\ \A i \in DOMAIN f : /\ g[i].header = f[i].header
                           /\ g[i].name = f[i].name
                           /\ g[i].seen = f[i].seen

LEMMA SameSections ==
    ASSUME NEW f \in Seq(FineLines), NEW g, SameLines(f, g), NEW i \in 0..Len(f)
    PROVE  Section(g, i) = Section(f, i)
<1>1. \A j \in 1..i : g[j].header = f[j].header /\ g[j].name = f[j].name
  BY DEF SameLines
<1>2. CASE \A j \in 1..i : ~f[j].header
  BY <1>1, <1>2, SectionIs
<1>3. ASSUME NEW w, LastHeader(f, i, w) PROVE Section(g, i) = Section(f, i)
  <2>1. LastHeader(g, i, w) /\ g[w].name = f[w].name
    BY <1>1, <1>3 DEF LastHeader
  <2> QED  BY <1>3, <2>1, SectionIs
<1> QED  BY <1>2, <1>3, SomeHeader

LEMMA SamePlaces ==
    ASSUME NEW f \in Seq(FineLines), NEW g, SameLines(f, g)
    PROVE  /\ \A i \in DOMAIN f : Section(g, i) = Section(f, i) /\ KeyAt(g, i) = KeyAt(f, i)
           /\ \A k : Places(g, k) = Places(f, k)
           /\ AfterWeb(g) = AfterWeb(f)
           /\ Unique(f) => Unique(g)
<1>1. \A i \in DOMAIN f : Section(g, i) = Section(f, i) /\ KeyAt(g, i) = KeyAt(f, i)
  <2>1. \A i \in DOMAIN f : Section(g, i) = Section(f, i)
    BY SameSections
  <2> QED  BY <2>1 DEF KeyAt, SameLines
<1>2. \A k : Places(g, k) = Places(f, k)
  BY <1>1 DEF Places, SameLines
<1>3. AfterWeb(g) = AfterWeb(f)
  <2>1. \A i \in DOMAIN f : \A j \in 1..(i - 1) : j \in DOMAIN f
    OBVIOUS
  <2> QED  BY <2>1 DEF AfterWeb, SameLines
<1>4. Unique(f) => Unique(g)
  BY <1>1 DEF Unique, SameLines
<1> QED  BY <1>1, <1>2, <1>3, <1>4

LEMMA Strings == None \in STRING /\ "none" \in STRING /\ "none" # Top /\ None # Broken
<1>1. None \in STRING /\ "none" \in STRING
  BY ConfigAssumption
<1>2. "none" # "" /\ "" # "broken"
  OBVIOUS
<1> QED  BY <1>1, <1>2, Zenon DEF None, Top, Broken

LEMMA SettingIs ==
    ASSUME NEW name \in STRING, NEW v \in STRING \ {Broken}
    PROVE  /\ Setting(name, v) \in FineLines
           /\ Setting(name, v).header = FALSE
           /\ Setting(name, v).name = name
           /\ Setting(name, v).seen = None
           /\ Setting(name, v).value = v
<1> DEFINE s == IF name \in EditedNames THEN name ELSE None
           line == Setting(name, v)
<1>1. s \in STRING /\ None \in STRING
  BY Strings
<1>2. line = [header |-> FALSE, name |-> name, value |-> v, seen |-> None, starts |-> s]
  BY DEF Setting
<1> HIDE DEF s
<1>3. line \in FileLines
  <2> HIDE DEF line
  <2> QED  BY <1>1, <1>2 DEF FileLines
<1>4. line.header = FALSE /\ line.name = name /\ line.value = v /\ line.seen = None
  <2> HIDE DEF line
  <2> QED  BY <1>2
<1>5. line = Setting(line.name, line.value)
  <2>1. line.name = name /\ line.value = v
    BY <1>4
  <2> QED  BY <2>1
<1> HIDE DEF line
<1>6. line \in FineLines
  BY <1>3, <1>4, <1>5 DEF FineLines
<1> QED  BY <1>4, <1>6 DEF line

\* A setting with a new value is a line of an orderly file again.
LEMMA LineFacts ==
    ASSUME NEW line \in FineLines, ~line.header, NEW v \in STRING \ {Broken}
    PROVE  /\ Setting(line.name, v) \in FineLines
           /\ Setting(line.name, v).header = line.header
           /\ Setting(line.name, v).name = line.name
           /\ Setting(line.name, v).seen = line.seen
           /\ Setting(line.name, v).value = v
<1>1. /\ line.name \in STRING /\ line.value \in STRING \ {Broken}
      /\ line.header = FALSE /\ line = Setting(line.name, line.value)
  BY DEF FineLines, FileLines
<1>2. line.seen = None
  <2>1. Setting(line.name, line.value).seen = None
    BY <1>1, SettingIs
  <2> QED  BY <1>1, <2>1, Zenon
<1> QED  BY <1>1, <1>2, SettingIs

-----------------------------------------------------------------------------
(* What the edits see in orderly files *)

LEMMA SeenIs ==
    ASSUME NEW f \in Seq(FineLines), NEW i \in DOMAIN f
    PROVE  /\ f[i].header => f[i].seen = f[i].name /\ f[i].starts = None /\ f[i].seen # None
           /\ ~f[i].header => /\ f[i].seen = None
                              /\ f[i].starts = IF f[i].name \in EditedNames THEN f[i].name
                                                ELSE None
<1>1. f[i] \in FineLines
  OBVIOUS
<1>2. CASE f[i].header
  <2>1. f[i] = Header(f[i].name) /\ f[i].name # None
    BY <1>1, <1>2 DEF FineLines, Top, None
  <2> QED  BY <1>2, <2>1 DEF Header
<1>3. CASE ~f[i].header
  <2>1. f[i] = Setting(f[i].name, f[i].value)
    BY <1>1, <1>3 DEF FineLines
  <2> QED  BY <1>3, <2>1 DEF Setting
<1> QED  BY <1>2, <1>3

LEMMA SeenSectionIs ==
    ASSUME NEW f \in Seq(FineLines), NEW i \in DOMAIN f
    PROVE  SeenSection(f, i) = Section(f, i)
<1> DEFINE opened == {j \in 1..i : f[j].seen # None}
<1>1. SeenSection(f, i) = IF opened = {} THEN Top ELSE f[Max(opened)].seen
  BY DEF SeenSection
<1>2. \A j \in 1..i : j \in DOMAIN f
  OBVIOUS
<1>3. \A j \in 1..i : j \in opened <=> f[j].header
  BY <1>2, SeenIs
<1>4. opened \in SUBSET Nat
  OBVIOUS
<1>5. CASE \A j \in 1..i : ~f[j].header
  <2>1. opened = {}
    BY <1>3, <1>5
  <2> QED  BY <1>1, <1>5, <2>1, SectionIs
<1>6. ASSUME NEW w, LastHeader(f, i, w) PROVE SeenSection(f, i) = Section(f, i)
  <2>1. w \in opened /\ (\A j \in opened : j =< w) /\ w \in DOMAIN f /\ f[w].header
    BY <1>2, <1>3, <1>6 DEF LastHeader
  <2> HIDE DEF opened
  <2>2. Max(opened) = w
    BY <1>4, <2>1, MaxIs
  <2>3. f[w].seen = f[w].name
    BY <2>1, SeenIs
  <2> QED  BY <1>1, <1>6, <2>1, <2>2, <2>3, SectionIs
<1> QED  BY <1>5, <1>6, SomeHeader

\* A key is found where it is.
LEMMA FoundIs ==
    ASSUME NEW f \in Seq(FineLines), NEW i \in DOMAIN f, NEW k \in Keys
    PROVE  Found(f, i) = k <=> ~f[i].header /\ KeyAt(f, i) = k
<1>1. k[2] \in EditedNames /\ k[2] # None /\ k = <<k[1], k[2]>>
  <2>1. k[2] \in EditedNames
    BY DEF EditedNames
  <2>2. k = <<k[1], k[2]>>
    BY DEF Keys, UrlKey, PathKey, LimitKey, LevelKey, StrayKey
  <2> QED  BY <2>1, <2>2, ConfigAssumption
<1>2. SeenSection(f, i) = Section(f, i)
  BY SeenSectionIs
<1> QED  BY <1>1, <1>2, SeenIs DEF Found, KeyAt

LEMMA MatchesAre ==
    ASSUME NEW f \in Seq(FineLines), NEW k \in Keys
    PROVE  Matches(f, k) = Places(f, k)
BY FoundIs DEF Matches, Places

\* A line is replaced if it is one of the keys that are asked for.
LEMMA ReplacedAt ==
    ASSUME NEW f \in Seq(FineLines), NEW new, IsNew(new), NEW i \in DOMAIN f
    PROVE  Replaced(f, new)[i] = IF ~f[i].header /\ KeyAt(f, i) \in DOMAIN new
                                 THEN Setting(f[i].name, new[KeyAt(f, i)]) ELSE f[i]
<1>1. Replaced(f, new)[i] = IF Found(f, i) \in DOMAIN new
                            THEN Written(Found(f, i), new[Found(f, i)]) ELSE f[i]
  BY DEF Replaced
<1>2. CASE ~f[i].header /\ KeyAt(f, i) \in DOMAIN new
  <2>1. Found(f, i) = KeyAt(f, i)
    BY <1>2, FoundIs DEF IsNew
  <2>2. KeyAt(f, i)[2] = f[i].name /\ Quoted[new[KeyAt(f, i)]] = new[KeyAt(f, i)]
    BY <1>2 DEF KeyAt, IsNew, Quotable
  <2> QED  BY <1>1, <1>2, <2>1, <2>2 DEF Written
<1>3. CASE ~(~f[i].header /\ KeyAt(f, i) \in DOMAIN new)
  <2>1. Found(f, i) \notin DOMAIN new
    BY <1>3, FoundIs DEF IsNew
  <2> QED  BY <1>1, <1>3, <2>1
<1> QED  BY <1>2, <1>3

\* The first line of a key that settings is asked for.
First(f, changes, i) == \E k \in DOMAIN changes : Sets(f, k) /\ i = Min(Places(f, k))

LEMMA FirstIs ==
    ASSUME NEW f \in Seq(FineLines), NEW changes, NEW i, First(f, changes, i)
    PROVE  i \in DOMAIN f /\ ~f[i].header /\ KeyAt(f, i) \in DOMAIN changes
<1>1. PICK k \in DOMAIN changes : Sets(f, k) /\ i = Min(Places(f, k))
  BY DEF First
<1>2. Places(f, k) \in SUBSET Nat
  BY DEF Places
<1>3. i \in Places(f, k)
  BY <1>1, <1>2, MinIs DEF Sets
<1> QED  BY <1>1, <1>3 DEF Places

LEMMA SavedAt ==
    ASSUME NEW f \in Seq(FineLines), NEW changes, IsNew(changes), NEW i \in DOMAIN f
    PROVE  Saved(f, changes)[i] = IF First(f, changes, i)
                                  THEN Setting(f[i].name, changes[KeyAt(f, i)]) ELSE f[i]
<1> DEFINE firsts == {Min(Matches(f, k)) : k \in {k \in DOMAIN changes : Matches(f, k) # {}}}
<1>1. Saved(f, changes)[i] = IF i \in firsts THEN Written(Found(f, i), changes[Found(f, i)])
                             ELSE f[i]
  BY DEF Saved
<1>2. i \in firsts <=> First(f, changes, i)
  <2>1. \A k \in DOMAIN changes : Matches(f, k) = Places(f, k)
    BY MatchesAre DEF IsNew
  <2> QED  BY <2>1 DEF First, Sets
<1> HIDE DEF firsts
<1>3. CASE First(f, changes, i)
  <2>1. ~f[i].header /\ KeyAt(f, i) \in DOMAIN changes
    BY <1>3, FirstIs
  <2>2. Found(f, i) = KeyAt(f, i)
    BY <2>1, FoundIs DEF IsNew
  <2>3. KeyAt(f, i)[2] = f[i].name /\ Quoted[changes[KeyAt(f, i)]] = changes[KeyAt(f, i)]
    BY <2>1 DEF KeyAt, IsNew, Quotable
  <2> QED  BY <1>1, <1>2, <1>3, <2>2, <2>3 DEF Written
<1> QED  BY <1>1, <1>2, <1>3

-----------------------------------------------------------------------------
(* Edits in place *)

LEMMA ReplacedFacts ==
    ASSUME NEW f \in Seq(FineLines), NEW new, IsNew(new)
    PROVE  /\ Replaced(f, new) \in Seq(FineLines)
           /\ Len(Replaced(f, new)) = Len(f)
           /\ SameLines(f, Replaced(f, new))
<1> DEFINE g == Replaced(f, new)
<1>1. g = [i \in 1..Len(f) |-> g[i]] /\ \A i \in 1..Len(f) : f[i] \in FineLines
  BY DEF Replaced
<1>2. \A i \in 1..Len(f) :
          g[i] = IF ~f[i].header /\ KeyAt(f, i) \in DOMAIN new
                 THEN Setting(f[i].name, new[KeyAt(f, i)]) ELSE f[i]
  BY ReplacedAt
<1> HIDE DEF g
<1>3. ASSUME NEW i \in 1..Len(f)
      PROVE  /\ g[i] \in FineLines
             /\ g[i].header = f[i].header
             /\ g[i].name = f[i].name
             /\ g[i].seen = f[i].seen
  <2>1. CASE g[i] = f[i]
    BY <1>1, <2>1
  <2>2. CASE ~f[i].header /\ KeyAt(f, i) \in DOMAIN new
             /\ g[i] = Setting(f[i].name, new[KeyAt(f, i)])
    <3> DEFINE v == new[KeyAt(f, i)]
    <3>1. /\ f[i] \in FineLines /\ ~f[i].header /\ v \in STRING \ {Broken}
          /\ g[i] = Setting(f[i].name, v)
      BY <1>1, <2>2 DEF IsNew
    <3> HIDE DEF v
    <3>2. /\ Setting(f[i].name, v) \in FineLines
          /\ Setting(f[i].name, v).header = f[i].header
          /\ Setting(f[i].name, v).name = f[i].name
          /\ Setting(f[i].name, v).seen = f[i].seen
      BY <3>1, LineFacts
    <3> QED  BY <3>1, <3>2
  <2> QED  BY <1>2, <2>1, <2>2
<1>4. g \in Seq(FineLines) /\ Len(g) = Len(f)
  BY <1>1, <1>3
<1>5. SameLines(f, g)
  BY <1>3, <1>4 DEF SameLines
<1> QED  BY <1>4, <1>5 DEF g

LEMMA SavedFacts ==
    ASSUME NEW f \in Seq(FineLines), NEW changes, IsNew(changes)
    PROVE  /\ Saved(f, changes) \in Seq(FineLines)
           /\ SameLines(f, Saved(f, changes))
<1> DEFINE g == Saved(f, changes)
<1>1. g = [i \in 1..Len(f) |-> g[i]] /\ \A i \in 1..Len(f) : f[i] \in FineLines
  BY DEF Saved
<1>2. \A i \in 1..Len(f) :
          g[i] = IF First(f, changes, i) THEN Setting(f[i].name, changes[KeyAt(f, i)]) ELSE f[i]
  BY SavedAt
<1>3. \A i \in 1..Len(f) :
          First(f, changes, i) => ~f[i].header /\ KeyAt(f, i) \in DOMAIN changes
  BY FirstIs
<1> HIDE DEF g
<1>4. ASSUME NEW i \in 1..Len(f)
      PROVE  /\ g[i] \in FineLines
             /\ g[i].header = f[i].header
             /\ g[i].name = f[i].name
             /\ g[i].seen = f[i].seen
  <2>1. CASE g[i] = f[i]
    BY <1>1, <2>1
  <2>2. CASE First(f, changes, i) /\ g[i] = Setting(f[i].name, changes[KeyAt(f, i)])
    <3> DEFINE v == changes[KeyAt(f, i)]
    <3>1. /\ f[i] \in FineLines /\ ~f[i].header /\ v \in STRING \ {Broken}
          /\ g[i] = Setting(f[i].name, v)
      BY <1>1, <1>3, <2>2 DEF IsNew
    <3> HIDE DEF v
    <3>2. /\ Setting(f[i].name, v) \in FineLines
          /\ Setting(f[i].name, v).header = f[i].header
          /\ Setting(f[i].name, v).name = f[i].name
          /\ Setting(f[i].name, v).seen = f[i].seen
      BY <3>1, LineFacts
    <3> QED  BY <3>1, <3>2
  <2> QED  BY <1>2, <2>1, <2>2
<1>5. g \in Seq(FineLines) /\ Len(g) = Len(f)
  BY <1>1, <1>4
<1>6. SameLines(f, g)
  BY <1>4, <1>5 DEF SameLines
<1> QED  BY <1>5, <1>6 DEF g

-----------------------------------------------------------------------------
(* What the values are after an edit *)

\* Of a file that parses, any place of a key is the one load_config reads.
LEMMA SaysIs ==
    ASSUME NEW f \in Seq(FineLines), Unique(f), NEW k, NEW i \in Places(f, k)
    PROVE  Sets(f, k) /\ Says(f, k) = f[i].value
<1> DEFINE c == CHOOSE j \in Places(f, k) : TRUE
<1>1. c \in Places(f, k)
  OBVIOUS
<1>2. Sets(f, k) /\ Says(f, k) = f[c].value
  BY DEF Sets, Says
<1> HIDE DEF c
<1>3. \A j \in Places(f, k) :
          j \in DOMAIN f /\ ~f[j].header /\ <<Section(f, j), f[j].name>> = k
  BY DEF Places, KeyAt
<1>4. f[c].header = f[i].header /\ f[c].name = f[i].name /\ Section(f, c) = Section(f, i)
  <2>1. f[c].header \in BOOLEAN /\ f[i].header \in BOOLEAN
    <3>1. f[c] \in FineLines /\ f[i] \in FineLines
      BY <1>1, <1>3
    <3> QED  BY <3>1 DEF FineLines, FileLines
  <2> QED  BY <1>1, <1>3, <2>1
<1>5. c = i
  BY <1>1, <1>3, <1>4 DEF Unique
<1> QED  BY <1>2, <1>5

LEMMA ReplacedSays ==
    ASSUME NEW f \in Seq(FineLines), NEW new, IsNew(new), NEW k
    PROVE  Says(Replaced(f, new), k) =
               IF Sets(f, k) /\ k \in DOMAIN new THEN new[k] ELSE Says(f, k)
<1> DEFINE g == Replaced(f, new)
           i == CHOOSE j \in Places(f, k) : TRUE
<1>1. Places(g, k) = Places(f, k)
  BY ReplacedFacts, SamePlaces
<1>2. CASE ~Sets(f, k)
  BY <1>1, <1>2 DEF Says, Sets
<1>3. CASE Sets(f, k)
  <2>1. i \in Places(f, k)
    BY <1>3 DEF Sets
  <2>2. i \in DOMAIN f /\ ~f[i].header /\ KeyAt(f, i) = k
    BY <2>1 DEF Places
  <2>3. Says(f, k) = f[i].value /\ Says(g, k) = g[i].value
    BY <1>1, <1>3 DEF Says, Sets
  <2> HIDE DEF i
  <2>4. g[i] = IF k \in DOMAIN new THEN Setting(f[i].name, new[k]) ELSE f[i]
    BY <2>2, ReplacedAt
  <2> QED  BY <1>3, <2>3, <2>4 DEF Setting
<1> QED  BY <1>2, <1>3

LEMMA SavedSays ==
    ASSUME NEW f \in Seq(FineLines), Unique(f),
           NEW changes, IsNew(changes), NEW k
    PROVE  Says(Saved(f, changes), k) =
               IF Sets(f, k) /\ k \in DOMAIN changes THEN changes[k] ELSE Says(f, k)
<1> DEFINE g == Saved(f, changes)
           i == Min(Places(f, k))
<1>1. Places(g, k) = Places(f, k) /\ g \in Seq(FineLines) /\ Unique(g)
  BY SavedFacts, SamePlaces
<1>2. CASE ~Sets(f, k)
  BY <1>1, <1>2 DEF Says, Sets
<1>3. CASE Sets(f, k)
  <2>1. \A kk : Places(f, kk) \in SUBSET Nat
    BY DEF Places
  <2>2. i \in Places(f, k)
    BY <1>3, <2>1, MinIs DEF Sets
  <2>3. Says(f, k) = f[i].value /\ Says(g, k) = g[i].value
    <3> HIDE DEF i, g
    <3> QED  BY <1>1, <2>2, SaysIs
  <2>4. i \in DOMAIN f /\ KeyAt(f, i) = k
    BY <2>2 DEF Places
  <2>5. (\E kk \in DOMAIN changes : Sets(f, kk) /\ i = Min(Places(f, kk))) <=> k \in DOMAIN changes
    <3>1. ASSUME NEW kk \in DOMAIN changes, Sets(f, kk), i = Min(Places(f, kk)) PROVE kk = k
      <4>1. i \in Places(f, kk)
        BY <2>1, <3>1, MinIs DEF Sets
      <4> QED  BY <2>4, <4>1 DEF Places
    <3> QED  BY <1>3, <3>1
  <2>6. g[i] = IF k \in DOMAIN changes THEN Setting(f[i].name, changes[k]) ELSE f[i]
    <3>1. g[i] = IF First(f, changes, i) THEN Setting(f[i].name, changes[KeyAt(f, i)]) ELSE f[i]
      BY <2>4, SavedAt
    <3> QED  BY <2>4, <2>5, <3>1 DEF First
  <2> QED  BY <1>3, <2>3, <2>6 DEF Setting
<1> QED  BY <1>2, <1>3

-----------------------------------------------------------------------------
(* The injection of keys at the end of [web] *)

IsEnv(new) == IsNew(new) /\ DOMAIN new \subseteq {UrlKey, PathKey}

LEMMA WebKeys == /\ UrlKey = <<"web", UrlKey[2]>> /\ PathKey = <<"web", PathKey[2]>>
                 /\ UrlKey[2] \in STRING /\ PathKey[2] \in STRING
                 /\ UrlKey[2] # PathKey[2]
<1>1. UrlKey[2] = "public_url" /\ PathKey[2] = "admin_path"
  BY DEF UrlKey, PathKey
<1>2. UrlKey = <<"web", "public_url">> /\ PathKey = <<"web", "admin_path">>
  BY DEF UrlKey, PathKey
<1>3. UrlKey = <<"web", UrlKey[2]>> /\ PathKey = <<"web", PathKey[2]>>
  BY <1>1, <1>2, Zenon
<1>4. UrlKey[2] # PathKey[2]
  BY <1>1
<1>5. UrlKey[2] \in STRING /\ PathKey[2] \in STRING
  BY ConfigAssumption DEF EditedNames, Keys
<1> QED  BY <1>3, <1>4, <1>5

LEMMA NewLine ==
    ASSUME NEW new, IsNew(new), NEW k \in DOMAIN new
    PROVE  Setting(k[2], new[k]) \in FineLines
<1>1. k[2] \in STRING /\ new[k] \in STRING \ {Broken}
  BY ConfigAssumption DEF IsNew, EditedNames
<1> QED  BY <1>1, SettingIs

LEMMA LinesFacts ==
    ASSUME NEW new, IsEnv(new), NEW keys \in SUBSET DOMAIN new
    PROVE  LET l == Lines(keys, new) IN
           /\ l \in Seq(FineLines)
           /\ \A n \in 1..Len(l) : \E k \in keys : l[n] = Setting(k[2], new[k])
           /\ \A k \in keys : \E n \in 1..Len(l) : l[n] = Setting(k[2], new[k])
           /\ \A n, m \in 1..Len(l) : l[n].name = l[m].name => n = m
<1> DEFINE u == Setting(UrlKey[2], new[UrlKey])
           p == Setting(PathKey[2], new[PathKey])
           l == Lines(keys, new)
<1>1. UrlKey \in keys => u \in FineLines
  BY NewLine DEF IsEnv
<1>2. PathKey \in keys => p \in FineLines
  BY NewLine DEF IsEnv
<1>3. u.name # p.name
  BY WebKeys DEF Setting
<1>4. \A k \in keys : k = UrlKey \/ k = PathKey
  BY DEF IsEnv
<1>5. l = (IF UrlKey \in keys THEN <<u>> ELSE <<>>) \o (IF PathKey \in keys THEN <<p>> ELSE <<>>)
  <2>1. \A k \in keys : Written(k, new[k]) = Setting(k[2], new[k])
    BY DEF Written, IsEnv, IsNew, Quotable
  <2> QED  BY <2>1 DEF Lines, Line
<1> HIDE DEF u, p, l
<1>6. CASE UrlKey \in keys /\ PathKey \in keys
  <2>1. l = <<u>> \o <<p>> /\ <<u>> \in Seq(FineLines) /\ <<p>> \in Seq(FineLines)
    BY <1>1, <1>2, <1>5, <1>6
  <2>2. l \in Seq(FineLines) /\ Len(l) = 2 /\ l[1] = u /\ l[2] = p
    BY <2>1
  <2>3. \A n \in 1..Len(l) : n = 1 \/ n = 2
    BY <2>2
  <2> QED  BY <1>3, <1>4, <1>6, <2>2, <2>3 DEF u, p, l
<1>9. CASE UrlKey \in keys /\ PathKey \notin keys
  <2>1. l = <<u>>
    BY <1>1, <1>5, <1>9
  <2>2. l \in Seq(FineLines) /\ Len(l) = 1 /\ l[1] = u /\ \A n \in 1..Len(l) : n = 1
    BY <1>1, <1>9, <2>1
  <2> QED  BY <1>4, <1>9, <2>2 DEF u, l
<1>7. CASE UrlKey \notin keys /\ PathKey \in keys
  <2>1. l = <<p>>
    BY <1>2, <1>5, <1>7
  <2>2. l \in Seq(FineLines) /\ Len(l) = 1 /\ l[1] = p /\ \A n \in 1..Len(l) : n = 1
    BY <1>2, <1>7, <2>1
  <2> QED  BY <1>4, <1>7, <2>2 DEF p, l
<1>8. CASE UrlKey \notin keys /\ PathKey \notin keys
  <2>1. l = <<>>
    BY <1>5, <1>8
  <2> QED  BY <1>4, <1>8, <2>1 DEF l
<1> QED  BY <1>6, <1>9, <1>7, <1>8

\* g is f with the lines of l before line e.
Spliced(f, l, e, g) ==
    /\ e \in 1..Len(f)
    /\ g \in Seq(FineLines)
    /\ Len(g) = Len(f) + Len(l)
    /\ \A i \in 1..(e - 1) : g[i] = f[i]
    /\ \A i \in 1..Len(l) : g[e - 1 + i] = l[i]
    /\ \A i \in e..Len(f) : g[i + Len(l)] = f[i]

LEMMA Joined ==
    ASSUME NEW S, NEW s \in Seq(S), NEW u \in Seq(S)
    PROVE  LET r == s \o u IN
           /\ r \in Seq(S)
           /\ Len(r) = Len(s) + Len(u)
           /\ \A i \in 1..Len(s) : r[i] = s[i]
           /\ \A i \in 1..Len(u) : r[Len(s) + i] = u[i]
OBVIOUS

LEMMA SpliceIs ==
    ASSUME NEW f \in Seq(FineLines), NEW l \in Seq(FineLines), NEW e \in 1..Len(f)
    PROVE  Spliced(f, l, e, SubSeq(f, 1, e - 1) \o l \o SubSeq(f, e, Len(f)))
<1> DEFINE a == SubSeq(f, 1, e - 1)
           c == SubSeq(f, e, Len(f))
<1>1. a \in Seq(FineLines) /\ Len(a) = e - 1 /\ \A i \in 1..(e - 1) : a[i] = f[i]
  OBVIOUS
<1>2. c \in Seq(FineLines) /\ Len(c) = Len(f) - e + 1
      /\ \A i \in e..Len(f) : i - e + 1 \in 1..Len(c) /\ c[i - e + 1] = f[i]
  OBVIOUS
<1> HIDE DEF a, c
<1> DEFINE d == a \o l
           g == d \o c
<1>3. /\ d \in Seq(FineLines) /\ Len(d) = e - 1 + Len(l)
      /\ \A i \in 1..(e - 1) : d[i] = f[i]
      /\ \A i \in 1..Len(l) : d[e - 1 + i] = l[i]
  <2>1. d \in Seq(FineLines) /\ Len(d) = Len(a) + Len(l)
        /\ (\A i \in 1..Len(a) : d[i] = a[i]) /\ \A i \in 1..Len(l) : d[Len(a) + i] = l[i]
    <3>1. a \in Seq(FineLines)
      BY <1>1
    <3> QED  BY <3>1, Joined
  <2> HIDE DEF d
  <2> QED  BY <1>1, <2>1
<1> HIDE DEF d
<1>4. g \in Seq(FineLines) /\ Len(g) = Len(d) + Len(c)
      /\ (\A i \in 1..Len(d) : g[i] = d[i]) /\ \A i \in 1..Len(c) : g[Len(d) + i] = c[i]
  <2>1. d \in Seq(FineLines) /\ c \in Seq(FineLines)
    BY <1>2, <1>3
  <2> QED  BY <2>1, Joined
<1> HIDE DEF g
<1>5. Len(g) = Len(f) + Len(l)
  BY <1>2, <1>3, <1>4
<1>6. ASSUME NEW i \in 1..(e - 1) PROVE g[i] = f[i]
  <2>1. i \in 1..Len(d)
    BY <1>3
  <2> QED  BY <1>3, <1>4, <2>1
<1>7. ASSUME NEW i \in 1..Len(l) PROVE g[e - 1 + i] = l[i]
  <2>1. e - 1 + i \in 1..Len(d)
    BY <1>3
  <2> QED  BY <1>3, <1>4, <2>1
<1>8. ASSUME NEW i \in e..Len(f) PROVE g[i + Len(l)] = f[i]
  <2>1. i - e + 1 \in 1..Len(c) /\ c[i - e + 1] = f[i] /\ Len(d) + (i - e + 1) = i + Len(l)
    BY <1>2, <1>3
  <2> QED  BY <1>4, <2>1
<1>9. Spliced(f, l, e, g)
  BY <1>4, <1>5, <1>6, <1>7, <1>8 DEF Spliced
<1> QED  BY <1>9 DEF g, d, a, c

LEMMA EndOfWeb ==
    ASSUME NEW f \in Seq(FineLines), AfterWeb(f) # {}
    PROVE  LET e == Min(AfterWeb(f)) IN
           /\ e \in 1..Len(f)
           /\ f[e].header
           /\ Section(f, e - 1) = "web"
<1> DEFINE e == Min(AfterWeb(f))
<1>1. AfterWeb(f) \in SUBSET Nat
  BY DEF AfterWeb
<1>2. e \in AfterWeb(f) /\ \A y \in AfterWeb(f) : e =< y
  BY <1>1, MinIs
<1> HIDE DEF e
<1>3. e \in 1..Len(f) /\ f[e].header
  <2>1. e \in DOMAIN f /\ f[e].seen # None
    BY <1>2 DEF AfterWeb
  <2> QED  BY <2>1, SeenIs
<1>4. PICK w \in 1..(e - 1) : f[w].seen = "web"
  BY <1>2 DEF AfterWeb
<1>5. f[w].header
  <2>1. w \in DOMAIN f /\ "web" # None
    BY <1>3, <1>4 DEF None
  <2> QED  BY <1>4, <2>1, SeenIs
<1>6. PICK h : LastHeader(f, e - 1, h)
  <2>1. e - 1 \in Nat
    BY <1>3
  <2> QED  BY <1>4, <1>5, <2>1, SomeHeader
<1>7. h \in 1..Len(f) /\ h < e /\ h >= w /\ f[h].header
  BY <1>3, <1>4, <1>5, <1>6 DEF LastHeader
<1>8. f[h].seen = f[h].name /\ f[h].seen # None
  BY <1>7, SeenIs
<1>9. f[h].seen = "web"
  <2>1. CASE h = w
    BY <1>4, <2>1
  <2>2. CASE h # w
    <3>1. w \in 1..(h - 1) /\ h \in DOMAIN f
      BY <1>4, <1>7, <2>2
    <3>2. h \notin AfterWeb(f)
      BY <1>1, <1>2, <1>3, <1>7
    <3> QED  BY <1>4, <1>8, <3>1, <3>2 DEF AfterWeb
  <2> QED  BY <2>1, <2>2
<1>10. Section(f, e - 1) = "web"
  <2>1. e - 1 \in Nat
    BY <1>3
  <2> QED  BY <1>6, <1>8, <1>9, <2>1, SectionIs
<1> QED  BY <1>3, <1>10 DEF e

\* Neither the lines before the injected ones nor those after them change their section;
\* the injected ones are in the section that ends there.
LEMMA SplicedSections ==
    ASSUME NEW f \in Seq(FineLines), NEW l \in Seq(FineLines), NEW e, NEW g,
           Spliced(f, l, e, g), f[e].header, \A n \in 1..Len(l) : ~l[n].header
    PROVE  /\ \A i \in 0..(e - 1) : Section(g, i) = Section(f, i)
           /\ \A n \in 1..Len(l) : Section(g, e - 1 + n) = Section(f, e - 1)
           /\ \A i \in e..Len(f) : Section(g, i + Len(l)) = Section(f, i)
<1>1. /\ e \in 1..Len(f) /\ Len(l) \in Nat /\ Len(f) \in Nat
      /\ \A i \in 1..(e - 1) : g[i] = f[i]
      /\ \A i \in 1..Len(l) : g[e - 1 + i] = l[i]
      /\ \A i \in e..Len(f) : g[i + Len(l)] = f[i]
  BY DEF Spliced
<1>2. ASSUME NEW i \in 0..(e - 1), NEW h \in Nat, h >= i,
             \A j \in (i + 1)..h : ~g[j].header
      PROVE  Section(g, h) = Section(f, i)
  <2>1. CASE \A j \in 1..i : ~f[j].header
    <3>1. \A j \in 1..h : ~g[j].header
      BY <1>1, <1>2, <2>1
    <3> QED  BY <2>1, <3>1, SectionIs
  <2>2. ASSUME NEW w, LastHeader(f, i, w) PROVE Section(g, h) = Section(f, i)
    <3>1. w \in 1..i /\ f[w].header /\ g[w] = f[w] /\ \A j \in (w + 1)..i : ~f[j].header
      BY <1>1, <2>2 DEF LastHeader
    <3>2. \A j \in (w + 1)..h : ~g[j].header
      BY <1>1, <1>2, <3>1
    <3>3. LastHeader(g, h, w)
      BY <1>2, <3>1, <3>2 DEF LastHeader
    <3> QED  BY <2>2, <3>1, <3>3, SectionIs
  <2> QED  BY <2>1, <2>2, SomeHeader
<1>3. \A i \in 0..(e - 1) : Section(g, i) = Section(f, i)
  BY <1>1, <1>2
<1>4. ASSUME NEW n \in 1..Len(l) PROVE Section(g, e - 1 + n) = Section(f, e - 1)
  <2>1. ASSUME NEW j \in e..(e - 1 + n) PROVE ~g[j].header
    <3>1. j - (e - 1) \in 1..Len(l) /\ j = e - 1 + (j - (e - 1))
      BY <1>1
    <3> QED  BY <1>1, <3>1
  <2>2. e - 1 \in 0..(e - 1) /\ e - 1 + n \in Nat /\ e - 1 + n >= e - 1 /\ e - 1 + 1 = e
    BY <1>1
  <2> QED  BY <1>2, <2>1, <2>2
<1>5. ASSUME NEW i \in e..Len(f) PROVE Section(g, i + Len(l)) = Section(f, i)
  <2>1. i \in Nat /\ e \in 1..i /\ f[e].header
    BY <1>1
  <2>2. PICK w : LastHeader(f, i, w)
    BY <2>1, SomeHeader
  <2>3. w \in e..i
    BY <1>1, <2>1, <2>2 DEF LastHeader
  <2>4. g[w + Len(l)] = f[w] /\ w + Len(l) \in 1..(i + Len(l))
    <3>1. w \in Nat /\ w \in e..Len(f) /\ e >= 1
      BY <1>1, <2>3
    <3>2. w + Len(l) \in 1..(i + Len(l))
      BY <1>1, <2>1, <2>3, <3>1
    <3> QED  BY <1>1, <3>1, <3>2
  <2>5. ASSUME NEW j \in (w + Len(l) + 1)..(i + Len(l)) PROVE ~g[j].header
    <3>1. j - Len(l) \in (w + 1)..i /\ j - Len(l) \in e..Len(f) /\ j = (j - Len(l)) + Len(l)
      BY <1>1, <2>3
    <3>2. g[j] = f[j - Len(l)]
      BY <1>1, <3>1
    <3> QED  BY <2>2, <3>1, <3>2 DEF LastHeader
  <2>6. LastHeader(g, i + Len(l), w + Len(l)) /\ i + Len(l) \in Nat
    BY <1>1, <2>2, <2>4, <2>5 DEF LastHeader
  <2>7. Section(g, i + Len(l)) = g[w + Len(l)].name /\ Section(f, i) = f[w].name
    BY <2>1, <2>2, <2>6, SectionIs
  <2> QED  BY <2>4, <2>7
<1> QED  BY <1>3, <1>4, <1>5

\* With the missing keys injected the file still parses, and says of them what it should, of
\* the others what it said.
LEMMA Injected ==
    ASSUME NEW f \in Seq(FineLines), Unique(f), NEW new, IsEnv(new),
           NEW keys \in SUBSET DOMAIN new, \A k \in keys : ~Sets(f, k),
           NEW e, NEW g, Spliced(f, Lines(keys, new), e, g), f[e].header,
           Section(f, e - 1) = "web"
    PROVE  /\ g \in Seq(FineLines)
           /\ Unique(g)
           /\ \A k : Says(g, k) = IF k \in keys THEN new[k] ELSE Says(f, k)
<1> DEFINE l == Lines(keys, new)
           Pos(i) == IF i < e THEN i ELSE i + Len(l)
<1>1. /\ l \in Seq(FineLines)
      /\ \A n \in 1..Len(l) : \E k \in keys : l[n] = Setting(k[2], new[k])
      /\ \A k \in keys : \E n \in 1..Len(l) : l[n] = Setting(k[2], new[k])
      /\ \A n, m \in 1..Len(l) : l[n].name = l[m].name => n = m
  BY LinesFacts
<1>2. ASSUME NEW n \in 1..Len(l) PROVE ~l[n].header
  <2>1. PICK k \in keys : l[n] = Setting(k[2], new[k])
    BY <1>1
  <2>2. ~Setting(k[2], new[k]).header
    BY DEF Setting
  <2> QED  BY <2>1, <2>2
<1>3. /\ e \in 1..Len(f)
      /\ g \in Seq(FineLines)
      /\ Len(g) = Len(f) + Len(l)
      /\ \A i \in 1..(e - 1) : g[i] = f[i]
      /\ \A i \in 1..Len(l) : g[e - 1 + i] = l[i]
      /\ \A i \in e..Len(f) : g[i + Len(l)] = f[i]
  BY DEF Spliced
<1>4. /\ \A i \in 0..(e - 1) : Section(g, i) = Section(f, i)
      /\ \A n \in 1..Len(l) : Section(g, e - 1 + n) = "web"
      /\ \A i \in e..Len(f) : Section(g, i + Len(l)) = Section(f, i)
  BY <1>1, <1>2, SplicedSections
<1> HIDE DEF l
<1>5. Len(l) \in Nat /\ Len(f) \in Nat
  BY <1>1
<1>6. ASSUME NEW i \in 1..Len(f)
      PROVE  /\ Pos(i) \in 1..Len(g) /\ g[Pos(i)] = f[i] /\ Section(g, Pos(i)) = Section(f, i)
  BY <1>3, <1>4, <1>5
<1>7. ASSUME NEW k \in keys PROVE k = <<"web", k[2]>> /\ k \in DOMAIN new
  BY WebKeys DEF IsEnv
<1>8. ASSUME NEW n \in 1..Len(l)
      PROVE  /\ e - 1 + n \in 1..Len(g) /\ g[e - 1 + n] = l[n] /\ ~l[n].header
             /\ Section(g, e - 1 + n) = "web"
  BY <1>2, <1>3, <1>4, <1>5
<1>9. ASSUME NEW j \in 1..Len(g)
      PROVE  (\E i \in 1..Len(f) : j = Pos(i)) \/ \E n \in 1..Len(l) : j = e - 1 + n
  <2>1. CASE j < e
    BY <1>3, <2>1
  <2>2. CASE j >= e /\ j < e + Len(l)
    <3>1. j - (e - 1) \in 1..Len(l) /\ j = e - 1 + (j - (e - 1))
      BY <1>3, <1>5, <2>2
    <3> QED  BY <3>1
  <2>3. CASE j >= e + Len(l)
    <3>1. j - Len(l) \in 1..Len(f) /\ j = Pos(j - Len(l))
      BY <1>3, <1>5, <2>3
    <3> QED  BY <3>1
  <2> QED  BY <1>3, <1>5, <2>1, <2>2, <2>3
<1> HIDE DEF Pos
\* No line of f is one for a key that is injected.
<1>10. ASSUME NEW n \in 1..Len(l), NEW i \in 1..Len(f), ~f[i].header,
              Section(f, i) = "web", f[i].name = l[n].name
       PROVE  FALSE
  <2>1. PICK k \in keys : l[n] = Setting(k[2], new[k])
    BY <1>1
  <2>2. KeyAt(f, i) = k
    BY <1>7, <1>10, <2>1 DEF KeyAt, Setting
  <2> QED  BY <1>10, <2>2 DEF Sets, Places
<1>11. Unique(g)
  <2> SUFFICES ASSUME NEW a \in 1..Len(g), NEW b \in 1..Len(g),
                      g[a].header = g[b].header, g[a].name = g[b].name,
                      g[a].header \/ Section(g, a) = Section(g, b)
               PROVE  a = b
    BY <1>3 DEF Unique
  <2>1. ASSUME NEW i \in 1..Len(f), NEW j \in 1..Len(f), a = Pos(i), b = Pos(j) PROVE a = b
    <3>1. /\ g[a] = f[i] /\ Section(g, a) = Section(f, i)
          /\ g[b] = f[j] /\ Section(g, b) = Section(f, j)
      BY <1>6, <2>1
    <3>2. /\ f[i].header = f[j].header /\ f[i].name = f[j].name
          /\ f[i].header \/ Section(f, i) = Section(f, j)
      BY <3>1
    <3>3. i = j
      BY <3>2 DEF Unique
    <3> QED  BY <2>1, <3>3
  <2>2. ASSUME NEW i \in 1..Len(f), NEW n \in 1..Len(l), NEW x \in 1..Len(g),
               NEW y \in 1..Len(g), x = Pos(i), y = e - 1 + n,
               g[x].header = g[y].header, g[x].name = g[y].name,
               g[x].header \/ Section(g, x) = Section(g, y)
        PROVE  FALSE
    <3>1. /\ g[x] = f[i] /\ Section(g, x) = Section(f, i)
          /\ g[y] = l[n] /\ Section(g, y) = "web" /\ ~l[n].header
      BY <1>6, <1>8, <2>2
    <3>2. ~f[i].header /\ f[i].name = l[n].name /\ Section(f, i) = "web"
      BY <2>2, <3>1
    <3> QED  BY <1>10, <3>2
  <2>3. ASSUME NEW n \in 1..Len(l), NEW m \in 1..Len(l), a = e - 1 + n, b = e - 1 + m PROVE a = b
    <3>1. g[a] = l[n] /\ g[b] = l[m]
      BY <1>8, <2>3
    <3>2. n = m
      BY <1>1, <3>1
    <3> QED  BY <2>3, <3>2
  <2> QED  BY <1>9, <2>1, <2>2, <2>3
<1>12. ASSUME NEW k \in keys PROVE Says(g, k) = new[k]
  <2>1. PICK n \in 1..Len(l) : l[n] = Setting(k[2], new[k])
    BY <1>1
  <2>2. e - 1 + n \in Places(g, k) /\ g[e - 1 + n].value = new[k]
    BY <1>3, <1>7, <1>8, <2>1 DEF Places, KeyAt, Setting
  <2> QED  BY <1>3, <1>11, <2>2, SaysIs
<1>13. ASSUME NEW k, k \notin keys PROVE Says(g, k) = Says(f, k)
  <2>1. CASE Sets(f, k)
    <3>1. PICK i \in Places(f, k) : TRUE
      BY <2>1 DEF Sets
    <3>2. i \in 1..Len(f) /\ ~f[i].header /\ <<Section(f, i), f[i].name>> = k
      BY <3>1 DEF Places, KeyAt
    <3>3. Pos(i) \in Places(g, k) /\ g[Pos(i)] = f[i]
      BY <1>3, <1>6, <3>2 DEF Places, KeyAt
    <3> QED  BY <1>3, <1>11, <3>1, <3>3, SaysIs
  <2>2. CASE ~Sets(f, k)
    <3>1. ASSUME NEW j \in Places(g, k) PROVE FALSE
      <4>1. j \in 1..Len(g) /\ ~g[j].header /\ <<Section(g, j), g[j].name>> = k
        BY <1>3 DEF Places, KeyAt
      <4>2. ASSUME NEW i \in 1..Len(f), j = Pos(i) PROVE FALSE
        <5>1. i \in Places(f, k)
          BY <1>6, <4>1, <4>2 DEF Places, KeyAt
        <5> QED  BY <2>2, <5>1 DEF Sets
      <4>3. ASSUME NEW n \in 1..Len(l), j = e - 1 + n PROVE FALSE
        <5>1. PICK kk \in keys : l[n] = Setting(kk[2], new[kk])
          BY <1>1
        <5>2. k = <<"web", kk[2]>>
          BY <1>8, <4>1, <4>3, <5>1 DEF Setting
        <5> QED  BY <1>7, <1>13, <5>2
      <4> QED  BY <1>9, <4>1, <4>2, <4>3
    <3>2. Places(g, k) = {}
      BY <3>1
    <3> QED  BY <2>2, <3>2 DEF Says, Sets
  <2> QED  BY <2>1, <2>2
<1> QED  BY <1>3, <1>11, <1>12, <1>13

-----------------------------------------------------------------------------
(* link and settings *)

LEMMA EnvFacts ==
    ASSUME NEW env \in Environments, AllQuotable(env)
    PROVE  IsEnv(env)
<1>1. CASE env = <<>>
  BY <1>1 DEF IsEnv, IsNew
<1>2. ASSUME NEW url \in Urls, NEW path \in Paths \cup {None}, env = Env(url, path)
      PROVE  IsEnv(env)
  <2>1. DOMAIN env = {UrlKey} \cup (IF path = None THEN {} ELSE {PathKey})
    BY <1>2 DEF Env
  <2>2. \A k \in DOMAIN env : env[k] = IF k = UrlKey THEN url ELSE path
    BY <1>2 DEF Env
  <2>3. url \in STRING \ {Broken} /\ (path # None => path \in STRING \ {Broken})
    BY ConfigAssumption
  <2>4. \A k \in DOMAIN env : env[k] \in STRING \ {Broken}
    <3>1. UrlKey # PathKey
      BY WebKeys
    <3> QED  BY <2>1, <2>2, <2>3, <3>1
  <2>5. {UrlKey, PathKey} \subseteq Keys
    BY DEF Keys
  <2> QED  BY <2>1, <2>4, <2>5 DEF IsEnv, IsNew, AllQuotable
<1> QED  BY <1>1, <1>2 DEF Environments

LEMMA ChangesFacts ==
    ASSUME NEW changes \in Changes, AllQuotable(changes)
    PROVE  IsNew(changes)
<1>1. \A k \in DOMAIN changes : changes[k] \in Values(k)
  BY DEF Changes
<1>2. \A k : Values(k) \subseteq STRING \ {Broken}
  BY ConfigAssumption DEF Values
<1>3. DOMAIN changes \subseteq Keys
  BY DEF Changes
<1> QED  BY <1>1, <1>2, <1>3 DEF IsNew, AllQuotable

LEMMA LinkedFacts ==
    ASSUME NEW f \in Seq(FineLines), Unique(f), NEW new, IsEnv(new)
    PROVE  /\ Linked(f, new) \in Seq(FineLines)
           /\ Unique(Linked(f, new))
           /\ \A k : Says(Linked(f, new), k) # Says(f, k) =>
                         k \in DOMAIN new /\ Says(Linked(f, new), k) = new[k]
           /\ AfterWeb(Linked(f, new)) # {} =>
                  \A k \in DOMAIN new : Says(Linked(f, new), k) = new[k]
<1> DEFINE r == Replaced(f, new)
           e == Min(AfterWeb(f))
           l == Lines(Missing(f, new), new)
           g == SubSeq(r, 1, e - 1) \o l \o SubSeq(r, e, Len(f))
<1>1. IsNew(new)
  BY DEF IsEnv
<1>2. r \in Seq(FineLines) /\ Len(r) = Len(f) /\ SameLines(f, r)
  BY <1>1, ReplacedFacts
<1>3. Unique(r) /\ AfterWeb(r) = AfterWeb(f) /\ \A k : Sets(r, k) <=> Sets(f, k)
  BY <1>2, SamePlaces DEF Sets
<1>4. \A k : Says(r, k) = IF Sets(f, k) /\ k \in DOMAIN new THEN new[k] ELSE Says(f, k)
  BY <1>1, ReplacedSays
<1>5. Missing(f, new) \in SUBSET DOMAIN new
      /\ \A k \in DOMAIN new : k \in Missing(f, new) <=> ~Sets(f, k)
  <2>1. \A k \in DOMAIN new : Matches(f, k) = Places(f, k)
    BY <1>1, MatchesAre DEF IsNew
  <2> QED  BY <2>1 DEF Missing, Sets
<1>6. Linked(f, new) = IF Missing(f, new) = {} \/ AfterWeb(f) = {} THEN r ELSE g
  BY DEF Linked
<1> HIDE DEF r
<1>7. CASE Missing(f, new) = {} \/ AfterWeb(f) = {}
  <2>1. Linked(f, new) = r
    BY <1>6, <1>7
  <2> QED  BY <1>2, <1>3, <1>4, <1>5, <1>7, <2>1
<1>8. CASE ~(Missing(f, new) = {} \/ AfterWeb(f) = {})
  <2>1. Linked(f, new) = g
    BY <1>6, <1>8
  <2>2. e \in 1..Len(r) /\ r[e].header /\ Section(r, e - 1) = "web"
    BY <1>2, <1>3, <1>8, EndOfWeb
  <2>3. l \in Seq(FineLines)
    BY <1>5, LinesFacts
  <2>4. Spliced(r, l, e, g)
    <3> HIDE DEF e, l
    <3> QED  BY <1>2, <2>2, <2>3, SpliceIs
  <2>5. \A k \in Missing(f, new) : ~Sets(r, k)
    BY <1>3, <1>5
  <2>6. /\ g \in Seq(FineLines)
        /\ Unique(g)
        /\ \A k : Says(g, k) = IF k \in Missing(f, new) THEN new[k] ELSE Says(r, k)
    <3> HIDE DEF e, g
    <3> QED  BY <1>2, <1>3, <1>5, <2>2, <2>4, <2>5, Injected
  <2> HIDE DEF g
  <2> QED  BY <1>4, <1>5, <2>1, <2>6
<1> QED  BY <1>7, <1>8

LEMMA SavedKeeps ==
    ASSUME NEW f \in Seq(FineLines), Unique(f), NEW changes \in Changes, AllQuotable(changes)
    PROVE  /\ Saved(f, changes) \in Seq(FineLines)
           /\ Unique(Saved(f, changes))
           /\ \A k : Says(Saved(f, changes), k) # Says(f, k) =>
                         k \in DOMAIN changes /\ Says(Saved(f, changes), k) = changes[k]
<1>1. IsNew(changes)
  BY ChangesFacts
<1>2. Saved(f, changes) \in Seq(FineLines) /\ Unique(Saved(f, changes))
  BY <1>1, SavedFacts, SamePlaces
<1> QED  BY <1>1, <1>2, SavedSays

\* link leaves no file that would be taken for none.
LEMMA LinkedIsThere ==
    ASSUME NEW f \in Seq(FineLines), f # NoFile, NEW new, IsEnv(new)
    PROVE  Linked(f, new) # NoFile
<1> SUFFICES ASSUME Linked(f, new) = NoFile PROVE FALSE
  OBVIOUS
<1> DEFINE h == Header("none")
           r == Replaced(f, new)
           e == Min(AfterWeb(f))
           l == Lines(Missing(f, new), new)
           g == SubSeq(r, 1, e - 1) \o l \o SubSeq(r, e, Len(f))
<1>1. NoFile = <<h>> /\ h.header
  BY DEF NoFile, Header
<1>2. Len(NoFile) = 1 /\ NoFile[1] = h
  BY <1>1
<1>3. r \in Seq(FineLines) /\ Len(r) = Len(f) /\ SameLines(f, r)
  BY ReplacedFacts DEF IsEnv
<1>4. CASE Linked(f, new) = r
  <2>1. Len(f) = 1 /\ r[1] = h
    BY <1>2, <1>3, <1>4
  <2>2. f[1] = h
    <3>1. 1 \in DOMAIN f /\ f[1] \in FineLines
      BY <2>1
    <3>2. f[1].header /\ f[1].name = "none"
      BY <1>1, <2>1, <3>1, <1>3 DEF SameLines, Header
    <3> QED  BY <3>1, <3>2 DEF FineLines
  <2>3. f = <<h>>
    <3> HIDE DEF h
    <3> QED  BY <2>1, <2>2
  <2> QED  BY <1>1, <2>3
<1>5. CASE Linked(f, new) = g /\ AfterWeb(f) # {}
  <2>1. e \in 1..Len(f) /\ e \in AfterWeb(f)
    <3>1. AfterWeb(f) \in SUBSET Nat /\ AfterWeb(f) \subseteq DOMAIN f
      BY DEF AfterWeb
    <3>2. e \in AfterWeb(f)
      BY <1>5, <3>1, MinIs
    <3> HIDE DEF e
    <3> QED  BY <3>1, <3>2
  <2>2. Len(f) >= 2
    <3> HIDE DEF e
    <3>1. PICK j \in 1..(e - 1) : f[j].seen = "web"
      BY <2>1 DEF AfterWeb
    <3> QED  BY <2>1, <3>1
  <2>3. l \in Seq(FineLines)
    <3>1. Missing(f, new) \in SUBSET DOMAIN new
      BY DEF Missing
    <3> QED  BY <3>1, LinesFacts
  <2>4. e \in 1..Len(r)
    BY <1>3, <2>1
  <2> HIDE DEF e, l, r
  <2>5. Spliced(r, l, e, g)
    BY <1>3, <2>3, <2>4, SpliceIs
  <2> HIDE DEF g
  <2>6. Len(g) = Len(f) + Len(l) /\ Len(l) \in Nat /\ Len(f) \in Nat
    BY <1>3, <2>3, <2>5 DEF Spliced
  <2>7. g = NoFile
    BY <1>5, Zenon
  <2>8. Len(g) = 1
    BY <1>2, <2>7, Zenon
  <2>9. Len(g) >= 2
    BY <2>2, <2>6
  <2> QED  BY <2>8, <2>9
<1> QED  BY <1>4, <1>5 DEF Linked

-----------------------------------------------------------------------------
(* The state machine *)

\* A file that is orderly, as the invariant has it.
Fine(f) == f \in Seq(FineLines) /\ Unique(f)

\* Every orderly file is one that somebody has written or an edit of one; link has left a
\* file, and has started the server with what is written there.
ConfigIInv ==
    /\ orderly => Fine(local)
    /\ linked /\ orderly => local # NoFile
    /\ LinkLasts

LEMMA OrderlyIs == ASSUME NEW f \in Seq(FileLines), Orderly(f) PROVE Fine(f)
<1>1. ASSUME NEW i \in 1..Len(f) PROVE f[i] \in FineLines
  BY DEF Orderly, Legible, Parses, FineLines
<1>2. f \in Seq(FineLines)
  BY <1>1
<1> QED  BY <1>2 DEF Fine, Orderly, Parses, Unique

LEMMA FineParses == ASSUME NEW f, Fine(f) PROVE Parses(f)
<1>1. \A i \in DOMAIN f : f[i] \in FineLines
  BY DEF Fine
<1>2. \A i \in DOMAIN f : f[i].value # Broken
  BY <1>1 DEF FineLines
<1> QED  BY <1>2 DEF Fine, Parses, Unique

LEMMA NoFileFine == Fine(NoFile)
<1>1. Header("none") \in FineLines
  <2> DEFINE line == Header("none")
  <2>1. line = [header |-> TRUE, name |-> "none", value |-> None, seen |-> "none",
                starts |-> None]
    BY DEF Header
  <2>2. line.header = TRUE /\ line.name = "none" /\ line.value = None
    <3> HIDE DEF line
    <3> QED  BY <2>1
  <2>3. line \in FileLines
    <3> HIDE DEF line
    <3> QED  BY <2>1, Strings DEF FileLines
  <2>4. line = Header(line.name)
    BY <2>2
  <2> HIDE DEF line
  <2>5. line \in FineLines
    BY <2>2, <2>3, <2>4, Strings DEF FineLines
  <2> QED  BY <2>5 DEF line
<1>2. NoFile \in Seq(FineLines) /\ DOMAIN NoFile = {1}
  <2> DEFINE h == Header("none")
  <2>1. h \in FineLines
    BY <1>1
  <2> HIDE DEF h
  <2>2. <<h>> \in Seq(FineLines) /\ DOMAIN <<h>> = {1}
    BY <2>1
  <2> QED  BY <2>2 DEF NoFile, h
<1> QED  BY <1>2 DEF Fine, Unique

LEMMA EmptyFine == Fine(<<>>)
BY DEF Fine, Unique

LEMMA PresentFacts ==
    ASSUME ConfigIInv, orderly
    PROVE  Fine(Present(local)) /\ Present(local) # NoFile
<1>1. Fine(Example) /\ Example # NoFile
  BY ConfigAssumption, OrderlyIs
<1> QED  BY <1>1 DEF ConfigIInv, Present

LEMMA ConfigInitInv == ConfigInit => ConfigIInv
<1> SUFFICES ASSUME ConfigInit PROVE ConfigIInv
  OBVIOUS
<1>1. local \in Files => local \in Seq(FileLines)
  BY ConfigAssumption
<1>2. orderly => Fine(local)
  BY <1>1, OrderlyIs, NoFileFine DEF ConfigInit
<1> QED  BY <1>2 DEF ConfigInit, ConfigIInv, LinkLasts

LEMMA LinkInv ==
    ASSUME ConfigIInv, NEW url \in Urls, NEW path \in Paths \cup {None}, Link(url, path)
    PROVE  ConfigIInv'
<1> DEFINE new == Env(url, path)
<1>1. new \in Environments
  BY DEF Environments
<1> HIDE DEF new
<1>2. /\ local' = Linked(Present(local), new) /\ running' = Launched(new)
      /\ orderly' = (orderly /\ AllQuotable(new)) /\ etc' = etc /\ home' = home
  BY DEF Link, new
<1>3. SUFFICES ASSUME orderly, AllQuotable(new)
               PROVE  Fine(local') /\ local' # NoFile /\ LinkLasts'
  BY <1>2 DEF ConfigIInv, LinkLasts
<1>4. IsEnv(new)
  BY <1>1, <1>3, EnvFacts
<1>5. Present(local) \in Seq(FineLines) /\ Unique(Present(local)) /\ Present(local) # NoFile
  BY <1>3, PresentFacts DEF Fine
<1>6. /\ Fine(local')
      /\ local' # NoFile
      /\ AfterWeb(local') # {} => \A k \in DOMAIN new : Says(local', k) = new[k]
  BY <1>2, <1>4, <1>5, LinkedFacts, LinkedIsThere DEF Fine
<1>7. LinkLasts'
  <2> SUFFICES ASSUME etc = NoFile, home = NoFile, AfterWeb(local') # {}, running' # Down
               PROVE  running' = Load(local', <<>>)
    BY <1>2 DEF LinkLasts
  <2>1. running' = Load(local', new)
    BY <1>2 DEF Launched
  <2>2. \A k \in Keys : (IF k \in DOMAIN new THEN new[k] ELSE Says(local', k)) = Says(local', k)
    BY <1>6
  <2> QED  BY <2>1, <2>2 DEF Load
<1> QED  BY <1>6, <1>7

LEMMA RestartInv ==
    ASSUME ConfigIInv, NEW env \in Environments, Restart(env)
    PROVE  ConfigIInv'
<1>1. /\ local' = Present(local) /\ etc' = etc /\ home' = home /\ orderly' = orderly
      /\ orderly => Fine(local') /\ local' # NoFile
  BY PresentFacts DEF Restart
<1>2. LinkLasts'
  <2> SUFFICES ASSUME linked', etc = NoFile, home = NoFile, running' # Down
               PROVE  running' = Load(local', <<>>)
    BY <1>1 DEF LinkLasts
  <2>1. env = <<>>
    BY DEF Restart
  <2> QED  BY <2>1 DEF Restart, Launched
<1> QED  BY <1>1, <1>2 DEF ConfigIInv

LEMMA SettingsInv ==
    ASSUME ConfigIInv, NEW changes \in Changes, NEW restart \in BOOLEAN,
           Settings(changes, restart)
    PROVE  ConfigIInv'
<1>1. /\ local' = Saved(Present(local), changes) /\ ~linked'
      /\ orderly' = (orderly /\ AllQuotable(changes))
  BY DEF Settings
<1>2. orderly' => Fine(local')
  BY <1>1, PresentFacts, SavedKeeps DEF Fine
<1> QED  BY <1>1, <1>2 DEF ConfigIInv, LinkLasts

LEMMA ConfigNextInv == ConfigIInv /\ [ConfigNext]_configVars => ConfigIInv'
<1> SUFFICES ASSUME ConfigIInv, [ConfigNext]_configVars PROVE ConfigIInv'
  OBVIOUS
<1>1. ASSUME NEW url \in Urls, NEW path \in Paths \cup {None}, Link(url, path)
      PROVE  ConfigIInv'
  BY <1>1, LinkInv
<1>2. ASSUME NEW changes \in Changes, NEW restart \in BOOLEAN, Settings(changes, restart)
      PROVE  ConfigIInv'
  BY <1>2, SettingsInv
<1>3. ASSUME NEW env \in Environments, Restart(env) PROVE ConfigIInv'
  BY <1>3, RestartInv
<1>4. CASE Torn
  BY <1>4, EmptyFine DEF Torn, ConfigIInv, LinkLasts
<1>5. CASE Install
  BY <1>5, ConfigAssumption DEF Install, ConfigIInv, LinkLasts
<1>6. CASE UserEdits
  <2>1. local' \in Seq(FileLines) /\ orderly' = Orderly(local') /\ ~linked'
    BY <1>6, ConfigAssumption DEF UserEdits
  <2> QED  BY <2>1, OrderlyIs DEF ConfigIInv, LinkLasts
<1>7. CASE UserWrites
  BY <1>7, ConfigAssumption DEF UserWrites, ConfigIInv, LinkLasts
<1>8. CASE Stop
  BY <1>8 DEF Stop, ConfigIInv, LinkLasts
<1>9. CASE UNCHANGED configVars
  BY <1>9 DEF configVars, ConfigIInv, LinkLasts
<1> QED  BY <1>1, <1>2, <1>3, <1>4, <1>5, <1>6, <1>7, <1>8, <1>9 DEF ConfigNext

LEMMA ConfigInv == ConfigSpec => []ConfigIInv
BY ConfigInitInv, ConfigNextInv, PTL DEF ConfigSpec

\* Whatever orderly file the edits start from, one that tomllib accepts and whose lines the
\* edits see as it does, and whatever the edits and interruptions: as long as no value needs
\* an escape, tomllib reads the file.
THEOREM EditsStayReadable == ConfigSpec => []Readable
<1>1. ConfigIInv => Readable
  BY FineParses DEF ConfigIInv, Readable
<1> QED  BY ConfigInv, <1>1, PTL

\* On every such file, link and settings change the keys they were given, in the section
\* where they belong, and no other key, if the values need no escape.
THEOREM EditsAreExact == ConfigSpec => []OnlyWhatWasAsked
<1>1. ConfigIInv => OnlyWhatWasAsked
  <2> SUFFICES ASSUME ConfigIInv, orderly
               PROVE  LET f == Present(local) IN
                      /\ \A new \in Environments :
                             AllQuotable(new) => Changed(f, Linked(f, new), new)
                      /\ \A changes \in Changes :
                             AllQuotable(changes) => Changed(f, Saved(f, changes), changes)
    BY DEF OnlyWhatWasAsked
  <2>1. Present(local) \in Seq(FineLines) /\ Unique(Present(local))
    BY PresentFacts DEF Fine
  <2>2. ASSUME NEW new \in Environments, AllQuotable(new)
        PROVE  Changed(Present(local), Linked(Present(local), new), new)
    BY <2>1, <2>2, EnvFacts, LinkedFacts DEF Changed
  <2>3. ASSUME NEW changes \in Changes, AllQuotable(changes)
        PROVE  Changed(Present(local), Saved(Present(local), changes), changes)
    BY <2>1, <2>3, SavedKeeps DEF Changed
  <2> QED  BY <2>2, <2>3
<1> QED  BY ConfigInv, <1>1, PTL

\* Where such a file is the one that the server reads, and a section follows [web] in it, what
\* link sets outlasts the environment it is set with.
THEOREM LinkOutlastsRestart == ConfigSpec => []LinkLasts
<1>1. ConfigIInv => LinkLasts
  BY DEF ConfigIInv
<1> QED  BY ConfigInv, <1>1, PTL
=============================================================================
