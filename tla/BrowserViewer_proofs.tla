----------------------- MODULE BrowserViewer_proofs -----------------------
(***************************************************************************)
(* That the viewer page keeps lock, list, download and password in step     *)
(* whatever runs between two awaits.  The inductive invariant says of each  *)
(* unlock under way which of the globals it may rely on: a steady one finds *)
(* them as it left them, or as another steady one did with the same values. *)
(***************************************************************************)
EXTENDS BrowserViewer, FiniteSetTheorems, SequenceTheorems, TLAPS

Owners == Containers \cup {0}
Headers == [of : Owners, slot : Slots \cup {0}]
Tasks == [at : {"pause", "derive", "import", "table", "unlocked", "refused"}, pw : Containers,
          slots : Owners, file : Owners, header : Headers, key : Owners, steady : BOOLEAN,
          moved : BOOLEAN]
Downloads == [at : {"none", "running", "delivered", "abandoned"}, file : Owners, header : Owners,
              key : Owners, entry : Owners, offsets : Owners, clicked : Owners,
              got : Seq(Owners \X Nat)]
Sections == [file : BOOLEAN, password : BOOLEAN, lock : BOOLEAN, list : Owners, offsets : Owners,
             by : Nat, unlock : BOOLEAN]

\* What each global holds.
Typed == /\ containerFile \in Owners /\ validSlots \in Owners /\ activeHeader \in Headers
         /\ activeDEK \in Owners /\ activeDEKKey \in Owners /\ activeFileTable \in Owners
         /\ ui \in Sections /\ loading \in BOOLEAN /\ locked \in BOOLEAN
         /\ checks \in Seq([at : {"reading", "done"}, file : Containers])
         /\ unlocks \in Seq(Tasks) /\ download \in Downloads

\* Until tryAutoLoad is over the page offers nothing and nothing else is under way.
Unloaded == loading => /\ checks = <<>> /\ unlocks = <<>> /\ ui.list = 0
                       /\ ~ ui.file /\ ~ ui.password /\ ~ ui.lock

\* A lock that found nothing under way leaves nothing under way.
Locked == /\ LockHolds
          /\ locked => \A u \in DOMAIN unlocks : ~ InFlight(u)

\* A steady unlock under way works on the slots of the open file, and what it has put into the
\* globals is still there, or another one has put the same.
Undisturbed(u) ==
    LET t == unlocks[u] IN
    /\ t.slots # 0 /\ t.slots = containerFile /\ t.slots = validSlots
    /\ t.at \in {"import", "table"} =>
           /\ Recovered(t.pw, t.slots) # 0
           /\ activeHeader = [of |-> t.slots, slot |-> Recovered(t.pw, t.slots)]
           /\ t.key = t.slots
    /\ t.at = "table" => t.file = containerFile /\ t.header = activeHeader

\* While one steady unlock is under way, all that are under way are steady.
TasksSound ==
    \A u \in DOMAIN unlocks : InFlight(u) /\ unlocks[u].steady =>
        /\ Undisturbed(u)
        /\ \A v \in DOMAIN unlocks : InFlight(v) => unlocks[v].steady

\* Another unlock that was under way when the file of u was replaced, or that began later.
Company(u) == \E v \in DOMAIN unlocks : v # u /\ (v > u \/ unlocks[v].moved)

\* An unlock that reads the table of a file which is no longer the open one has been overtaken,
\* with all that were under way before it; the header stays away until another unlock finds one.
FileMoved ==
    \A u \in DOMAIN unlocks : InFlight(u) =>
        /\ \A v \in DOMAIN unlocks : v < u /\ InFlight(v) /\ unlocks[u].moved => unlocks[v].moved
        /\ unlocks[u].at = "table" /\ unlocks[u].file # containerFile =>
               unlocks[u].moved /\ (activeHeader = NoHeader \/ Company(u))

\* A list was shown by an unlock that has ended, and the table is the list's or gone.
ListShown ==
    ui.list # 0 => /\ ui.by \in DOMAIN unlocks /\ ~ InFlight(ui.by)
                   /\ activeHeader # NoHeader
                   /\ activeFileTable # 0 => activeFileTable = ui.list

\* A download works on the entry of the list clicked, and all it gets lies in its file.
Fetched ==
    /\ download.at \in {"running", "delivered"} =>
           /\ download.entry = download.clicked
           /\ \A j \in DOMAIN download.got : download.got[j][1] = download.file
    /\ download.at = "delivered" => download.got = Content(download.entry)

BVInv == Typed /\ Unloaded /\ Locked /\ TasksSound /\ FileMoved /\ ListShown
             /\ ListIsOfThisFile /\ Fetched /\ RightPasswordOpens

-----------------------------------------------------------------------------
(***************************************************************************)
(* The listed slots, in ascending order.                                   *)
(***************************************************************************)
LEMMA LeastOne ==
  ASSUME NEW S \in SUBSET Nat, S # {}
  PROVE  \E n \in S : \A m \in S : n <= m
<1>1. \E n \in S : \A m \in S : ~ (<<m, n>> \in OpToRel(<, Nat))
  BY NatLessThanWellFounded, WFMin
<1>2. \A m, n \in Nat : m < n => <<m, n>> \in OpToRel(<, Nat)
  BY DEF OpToRel
<1>3. PICK n \in S : \A m \in S : ~ (<<m, n>> \in OpToRel(<, Nat))
  BY <1>1
<1>4. ASSUME NEW m \in S PROVE n <= m
  <2>1. m \in Nat /\ n \in Nat /\ ~ (m < n)
    BY <1>2, <1>3
  <2> QED BY <2>1
<1> QED BY <1>4

\* A set of numbers up to n has a greatest one.
LEMMA GreatestOne ==
  ASSUME NEW n \in Nat, NEW S \in SUBSET (0 .. n), S # {}
  PROVE  \E k \in S : \A m \in S : m <= k
<1> DEFINE bounds == {b \in Nat : \A m \in S : m <= b}
<1>1. n \in bounds
  OBVIOUS
<1>2. PICK b \in bounds : \A c \in bounds : b <= c
  BY <1>1, LeastOne
<1>3. PICK x \in S : TRUE
  OBVIOUS
<1>4. b \in Nat /\ \A m \in S : m \in Nat /\ m <= b
  BY <1>2
<1>5. b \in S
  <2> SUFFICES ASSUME b \notin S PROVE FALSE
    OBVIOUS
  <2>1. \A m \in S : m < b
    BY <1>4
  <2>2. b - 1 \in bounds
    BY <1>3, <1>4, <2>1
  <2> QED BY <1>2, <1>4, <2>2
<1> QED BY <1>4, <1>5

\* Every set of slots is finite.
LEMMA SlotSets ==
  ASSUME NEW S \in SUBSET Slots
  PROVE  IsFiniteSet(S) /\ Cardinality(S) \in Nat /\ S \in SUBSET Nat
<1>1. IsFiniteSet(Slots)
  BY BrowserAssumption, FS_Interval DEF Slots
<1>2. Slots \in SUBSET Nat
  BY BrowserAssumption DEF Slots
<1> QED BY <1>1, <1>2, FS_Subset, FS_CardinalityType

Ascending(s, S) ==
    /\ s \in [1 .. Cardinality(S) -> S]
    /\ \A j, k \in DOMAIN s : j < k => s[j] < s[k]

\* A set of slots can be listed in ascending order: by its size, the greatest slot put last.
LEMMA AscendingExists ==
  ASSUME NEW S \in SUBSET Slots
  PROVE  \E s : Ascending(s, S)
<1> DEFINE bad == {n \in Nat : \E T \in SUBSET Slots :
                                   Cardinality(T) = n /\ ~ \E s : Ascending(s, T)}
<1>1. SUFFICES bad = {}
  BY <1>1, SlotSets
<1>2. SUFFICES ASSUME bad # {} PROVE FALSE
  OBVIOUS
<1>3. PICK n \in bad : \A m \in bad : n <= m
  <2>1. bad \in SUBSET Nat
    OBVIOUS
  <2> HIDE DEF bad
  <2> QED BY <1>2, <2>1, LeastOne
<1>4. PICK T \in SUBSET Slots : Cardinality(T) = n /\ ~ \E s : Ascending(s, T)
  BY <1>3
<1>5. n \in Nat /\ IsFiniteSet(T) /\ T \in SUBSET Nat
  BY <1>4, SlotSets
<1>6. T # {}
  <2> SUFFICES ASSUME T = {} PROVE FALSE
    OBVIOUS
  <2>1. 1 .. Cardinality(T) = {}
    BY FS_EmptySet
  <2>2. Ascending([j \in 1 .. Cardinality(T) |-> 0], T)
    BY <2>1 DEF Ascending
  <2> QED BY <1>4, <2>2
<1>7. PICK x \in T : \A y \in T : y <= x
  <2>1. T \in SUBSET (0 .. SLOT_COUNT) /\ SLOT_COUNT \in Nat
    BY BrowserAssumption DEF Slots
  <2> QED BY <1>6, <2>1, GreatestOne
<1> DEFINE R == T \ {x}
<1>8. R \in SUBSET Slots /\ Cardinality(R) = n - 1 /\ n - 1 \in Nat
  <2>1. Cardinality(R) = n - 1
    BY <1>4, <1>5, <1>7, FS_RemoveElement
  <2> QED BY <2>1, SlotSets
<1>9. PICK t : Ascending(t, R)
  <2>1. n - 1 \notin bad
    BY <1>3, <1>5
  <2> QED BY <1>8, <2>1
<1> DEFINE s == [j \in 1 .. n |-> IF j = n THEN x ELSE t[j]]
<1>10. \A j \in 1 .. n : j # n => j \in 1 .. n - 1 /\ t[j] \in R /\ t[j] \in T
  <2>1. t \in [1 .. n - 1 -> R]
    BY <1>8, <1>9 DEF Ascending
  <2>2. \A j \in 1 .. n : j # n => j \in 1 .. n - 1
    BY <1>5
  <2> QED BY <2>1, <2>2
<1>11. s \in [1 .. n -> T]
  BY <1>7, <1>10
<1>12. ASSUME NEW j \in 1 .. n, NEW k \in 1 .. n, j < k PROVE s[j] < s[k]
  <2>1. j # n /\ s[j] = t[j] /\ j \in 1 .. n - 1
    BY <1>5, <1>12
  <2>2. CASE k = n
    <3>1. t[j] \in T /\ t[j] # x
      BY <2>1, <1>10
    <3>2. t[j] <= x /\ t[j] \in Nat /\ x \in Nat
      BY <3>1, <1>7, <1>5
    <3> QED BY <2>1, <2>2, <3>1, <3>2
  <2>3. CASE k # n
    <3>1. k \in 1 .. n - 1 /\ s[k] = t[k]
      BY <2>3, <1>5
    <3>2. DOMAIN t = 1 .. n - 1
      BY <1>8, <1>9 DEF Ascending
    <3> QED BY <1>9, <1>12, <2>1, <3>1, <3>2 DEF Ascending
  <2> QED BY <2>2, <2>3
<1>13. Ascending(s, T)
  BY <1>4, <1>11, <1>12 DEF Ascending
<1> QED BY <1>4, <1>13

\* An ascending list of a set of slots has each of them.
LEMMA AscendingIsOnto ==
  ASSUME NEW S \in SUBSET Slots, NEW s, Ascending(s, S), NEW i \in S
  PROVE  \E k \in DOMAIN s : s[k] = i
<1> DEFINE D == 1 .. Cardinality(S)
<1>1. Cardinality(S) \in Nat /\ IsFiniteSet(S) /\ s \in [D -> S] /\ DOMAIN s = D
  BY SlotSets DEF Ascending
<1>2. ASSUME NEW j \in D, NEW k \in D, s[j] = s[k] PROVE j = k
  <2>1. s[j] \in Nat /\ s[k] \in Nat
    BY <1>1, SlotSets
  <2>2. ~ (j < k) /\ ~ (k < j)
    BY <1>1, <1>2, <2>1 DEF Ascending
  <2> QED BY <2>2, <1>1
<1>3. s \in Injection(D, S)
  BY <1>1, <1>2 DEF Injection, IsInjective
<1>4. Cardinality(D) = Cardinality(S)
  BY <1>1, FS_Interval
<1>5. s \in Surjection(D, S)
  BY <1>1, <1>3, <1>4, FS_Injection
<1> QED BY <1>1, <1>5 DEF Surjection

LEMMA ListedAscends ==
  ASSUME NEW c
  PROVE  Ascending(Listed(c), ListedSlots(c)) /\ ListedSlots(c) \in SUBSET Slots
<1>1. ListedSlots(c) \in SUBSET Slots
  BY DEF ListedSlots
<1>2. PICK s : Ascending(s, ListedSlots(c))
  BY <1>1, AscendingExists
<1>3. Listed(c) = CHOOSE t \in [1 .. Cardinality(ListedSlots(c)) -> ListedSlots(c)] :
                      \A j, k \in DOMAIN t : j < k => t[j] < t[k]
  BY DEF Listed
<1> QED BY <1>1, <1>2, <1>3 DEF Ascending

\* The slot an unlock recovers the key from, if any, is a slot.
LEMMA RecoveredType ==
  ASSUME NEW pw, NEW c
  PROVE  Recovered(pw, c) \in Slots \cup {0}
<1> DEFINE s == Listed(c)
           stops == Stops(pw, c)
           k == CHOOSE j \in stops : \A m \in stops : j <= m
<1>1. CASE stops = {}
  BY <1>1 DEF Recovered
<1>2. CASE stops # {}
  <2>1. stops \in SUBSET DOMAIN s /\ DOMAIN s \in SUBSET Nat /\ s \in [DOMAIN s -> Slots]
    <3>1. s \in [1 .. Cardinality(ListedSlots(c)) -> ListedSlots(c)]
      BY ListedAscends DEF Ascending
    <3>2. stops \in SUBSET DOMAIN s
      BY DEF Stops
    <3>3. DOMAIN s \in SUBSET Nat
      BY <3>1
    <3> QED BY <3>1, <3>2, <3>3, ListedAscends
  <2>2. \E j \in stops : \A m \in stops : j <= m
    <3>1. stops \in SUBSET Nat
      BY <2>1
    <3> HIDE DEF stops
    <3> QED BY <1>2, <3>1, LeastOne
  <2>3. k \in stops
    BY <2>2
  <2>4. s[k] \in Slots
    BY <2>1, <2>3
  <2>5. Recovered(pw, c) = IF Damage(c, s[k]) = "huge" THEN 0 ELSE s[k]
    BY <1>2 DEF Recovered
  <2> QED BY <2>4, <2>5
<1> QED BY <1>1, <1>2

\* What RightPasswordOpens asks of a container.
Openable(c) == \E i \in Slots : /\ Damage(c, i) = "whole"
                                /\ \A j \in 1 .. i - 1 : Damage(c, j) \in {"magic", "salt", "body"}

Anew(c, k) == k = 1 \/ SaltOf(c, Listed(c)[k]) # SaltOf(c, Listed(c)[k - 1])
From(c, k) == CHOOSE j \in 1 .. k : Anew(c, j) /\ \A m \in j + 1 .. k : ~ Anew(c, m)

\* The key a listed slot is tried with was derived from a slot before it, or itself, with the
\* same salt.
LEMMA KeyHasTheSalt ==
  ASSUME NEW pw, NEW c, NEW k \in DOMAIN Listed(c)
  PROVE  \E f \in 1 .. k : /\ KEKs(pw, c)[k] = deriveKEK(pw, c, Listed(c)[f])
                           /\ SaltOf(c, Listed(c)[f]) = SaltOf(c, Listed(c)[k])
<1> DEFINE s == Listed(c)
           f == From(c, k)
<1>1. k \in Nat \ {0} /\ 1 .. k \in SUBSET DOMAIN s
  <2>1. DOMAIN s = 1 .. Cardinality(ListedSlots(c)) /\ Cardinality(ListedSlots(c)) \in Nat
    BY ListedAscends, SlotSets DEF Ascending
  <2> QED BY <2>1
<1>2. \E j \in 1 .. k : Anew(c, j) /\ \A m \in j + 1 .. k : ~ Anew(c, m)
  <2> DEFINE anews == {j \in 1 .. k : Anew(c, j)}
  <2>1. anews \in SUBSET (0 .. k) /\ 1 \in anews
    BY <1>1 DEF Anew
  <2>2. PICK j \in anews : \A m \in anews : m <= j
    <3> HIDE DEF anews
    <3> QED BY <1>1, <2>1, GreatestOne
  <2>3. \A m \in j + 1 .. k : m \in 1 .. k /\ ~ (m <= j)
    BY <1>1, <2>2
  <2>4. \A m \in j + 1 .. k : ~ Anew(c, m)
    BY <2>2, <2>3
  <2> QED BY <2>2, <2>4
<1>3. f \in 1 .. k /\ \A m \in f + 1 .. k : ~ Anew(c, m)
  BY <1>2 DEF From
<1>4. KEKs(pw, c)[k] = deriveKEK(pw, c, s[f])
  BY DEF KEKs, From, Anew
<1>5. SaltOf(c, s[f]) = SaltOf(c, s[k])
  <2> DEFINE other == {j \in f .. k : SaltOf(c, s[j]) # SaltOf(c, s[f])}
  <2>1. SUFFICES ASSUME other # {} PROVE FALSE
    BY <1>1, <1>3
  <2>2. PICK j \in other : \A m \in other : j <= m
    <3>1. other \in SUBSET Nat
      BY <1>1, <1>3
    <3> HIDE DEF other
    <3> QED BY <2>1, <3>1, LeastOne
  <2>3. j \in f + 1 .. k /\ j - 1 \in f .. k /\ j # 1 /\ ~ (j <= j - 1)
    BY <1>1, <1>3, <2>2
  <2>4. SaltOf(c, s[j]) = SaltOf(c, s[j - 1])
    BY <1>3, <2>3 DEF Anew
  <2>5. SaltOf(c, s[j - 1]) = SaltOf(c, s[f])
    BY <2>2, <2>3
  <2> QED BY <2>2, <2>4, <2>5
<1> QED BY <1>3, <1>4, <1>5

\* It recovers one with the right password only.
LEMMA OnlyItsPassword ==
  ASSUME NEW pw, NEW c, Recovered(pw, c) # 0
  PROVE  pw = c
<1> DEFINE s == Listed(c)
           stops == Stops(pw, c)
           k == CHOOSE j \in stops : \A m \in stops : j <= m
<1>1. stops # {} /\ stops \in SUBSET DOMAIN s /\ stops \in SUBSET Nat
  <2>1. stops # {} /\ stops \in SUBSET DOMAIN s
    BY DEF Recovered, Stops
  <2>2. DOMAIN s = 1 .. Cardinality(ListedSlots(c))
    BY ListedAscends DEF Ascending
  <2> QED BY <2>1, <2>2
<1>2. k \in stops
  <2> HIDE DEF stops
  <2> QED BY <1>1, LeastOne
<1>3. Damage(c, s[k]) # "huge"
  BY <1>1 DEF Recovered
<1>4. KEKs(pw, c)[k] = OwnKEK(c)
  BY <1>2, <1>3 DEF Stops, Authenticates
<1>5. k \in DOMAIN s
  BY <1>1, <1>2
<1>6. KEKs(pw, c)[k].pw = pw
  <2> HIDE DEF k
  <2>1. PICK f \in 1 .. k : KEKs(pw, c)[k] = deriveKEK(pw, c, s[f])
    BY <1>5, KeyHasTheSalt
  <2> QED BY <2>1 DEF deriveKEK
<1> QED BY <1>4, <1>6 DEF OwnKEK

\* The right password opens a container that can be opened: the loop gets to the whole slot, and
\* the key it has there is the slot's.
LEMMA OpenableIsOpened ==
  ASSUME NEW c \in Containers, Openable(c)
  PROVE  /\ Recovered(c, c) # 0 /\ Damage(c, Recovered(c, c)) = "whole"
         /\ Damage(c, Listed(c)[1]) # "huge"
<1> DEFINE s == Listed(c)
<1>1. PICK i \in Slots : /\ Damage(c, i) = "whole"
                         /\ \A j \in 1 .. i - 1 : Damage(c, j) \in {"magic", "salt", "body"}
  BY DEF Openable
<1>2. PICK k \in DOMAIN s : s[k] = i
  <2>1. i \in ListedSlots(c)
    BY <1>1 DEF ListedSlots
  <2> QED BY <2>1, ListedAscends, AscendingIsOnto
<1>3. k \in Nat \ {0} /\ 1 .. k \in SUBSET DOMAIN s /\ DOMAIN s \in SUBSET Nat
  <2>1. DOMAIN s = 1 .. Cardinality(ListedSlots(c)) /\ Cardinality(ListedSlots(c)) \in Nat
    BY ListedAscends, SlotSets DEF Ascending
  <2> QED BY <2>1
<1>4. \A j \in 1 .. k : s[j] \in Nat \ {0} /\ (j # k => Damage(c, s[j]) \in {"salt", "body"})
  <2> SUFFICES ASSUME NEW j \in 1 .. k
               PROVE  s[j] \in Nat \ {0} /\ (j # k => Damage(c, s[j]) \in {"salt", "body"})
    OBVIOUS
  <2>1. s[j] \in ListedSlots(c) /\ (j < k => s[j] < s[k])
    BY <1>3, ListedAscends DEF Ascending
  <2>2. s[j] \in Nat \ {0} /\ Damage(c, s[j]) # "magic" /\ i \in Nat
    BY <2>1, BrowserAssumption DEF ListedSlots, Slots
  <2>3. CASE j = k
    BY <2>2, <2>3
  <2>4. CASE j # k
    <3>1. s[j] < i
      BY <1>2, <1>3, <2>1, <2>4
    <3>2. s[j] \in 1 .. i - 1
      BY <2>2, <3>1
    <3> QED BY <1>1, <2>2, <3>2
  <2> QED BY <2>3, <2>4
<1>5. Damage(c, s[k]) = "whole"
  BY <1>1, <1>2
<1>6. KEKs(c, c)[k] = OwnKEK(c)
  <2>1. PICK f \in 1 .. k : /\ KEKs(c, c)[k] = deriveKEK(c, c, s[f])
                            /\ SaltOf(c, s[f]) = SaltOf(c, s[k])
    BY KeyHasTheSalt
  <2>2. SaltOf(c, s[k]) = 0
    BY <1>5 DEF SaltOf
  <2>3. Damage(c, s[f]) \in {"salt", "body", "whole"}
    BY <1>4, <1>5, <2>1
  <2>4. Damage(c, s[f]) \notin {"kdf", "huge"}
    BY <2>3
  <2> QED BY <2>1, <2>2, <2>4 DEF deriveKEK, OwnKEK
<1>7. k \in Stops(c, c)
  BY <1>2, <1>5, <1>6 DEF Stops, Authenticates
<1>8. \A m \in Stops(c, c) : m \in Nat /\ k <= m
  <2> SUFFICES ASSUME NEW m \in Stops(c, c), ~ (k <= m) PROVE FALSE
    BY <1>3 DEF Stops
  <2>1. m \in DOMAIN s /\ Damage(c, s[m]) \in {"whole", "table", "huge"}
    BY DEF Stops, Authenticates
  <2>2. m \in 1 .. k /\ m # k
    <3>1. m \in Nat \ {0}
      BY <2>1, ListedAscends, SlotSets DEF Ascending
    <3> QED BY <1>3, <3>1
  <2>3. Damage(c, s[m]) \in {"salt", "body"}
    BY <1>4, <2>2
  <2> QED BY <2>1, <2>3
<1>9. (CHOOSE j \in Stops(c, c) : \A m \in Stops(c, c) : j <= m) = k
  <2> DEFINE l == CHOOSE j \in Stops(c, c) : \A m \in Stops(c, c) : j <= m
  <2>1. l \in Stops(c, c) /\ l <= k
    BY <1>7, <1>8
  <2> QED BY <1>3, <1>8, <2>1
<1>10. Recovered(c, c) = i
  BY <1>2, <1>5, <1>7, <1>9 DEF Recovered
<1>11. i # 0
  BY BrowserAssumption DEF Slots
<1>12. Damage(c, s[1]) # "huge"
  <2>1. 1 \in 1 .. k
    BY <1>3
  <2>2. Damage(c, s[1]) \in {"salt", "body", "whole"}
    BY <1>4, <1>5, <2>1
  <2> QED BY <2>2
<1> QED BY <1>1, <1>10, <1>11, <1>12

-----------------------------------------------------------------------------
(***************************************************************************)
(* What is found in the containers never changes, and so neither does what *)
(* a password recovers.                                                    *)
(***************************************************************************)
LEMMA FoundStays == [BVNext]_bvVars => found' = found
BY DEF BVNext, UserStep, Awaited, onFileSelected, onUnlock, onLock, Click, AutoLoad, NoAutoLoad,
       CheckEnds, Unlocking, Loop, Derived, Imported, TableRead, TableFails, ReadChunk, Delivered,
       Abandoned, bvVars

LEMMA RecoveredStays ==
  ASSUME found' = found
  PROVE  /\ \A c, i : Damage(c, i)' = Damage(c, i)
         /\ \A pw, c : Recovered(pw, c)' = Recovered(pw, c)
         /\ \A c : Openable(c)' = Openable(c)
<1>1. \A c, i : Damage(c, i)' = Damage(c, i)
  BY DEF Damage
<1>2. \A c : ListedSlots(c)' = ListedSlots(c)
  BY <1>1 DEF ListedSlots
<1>3. \A c : Listed(c)' = Listed(c)
  BY <1>2 DEF Listed
<1>4. \A c, i : SaltOf(c, i)' = SaltOf(c, i)
  BY <1>1 DEF SaltOf
<1>5. \A pw, c, i : deriveKEK(pw, c, i)' = deriveKEK(pw, c, i)
  BY <1>1, <1>4 DEF deriveKEK
<1>6. ASSUME NEW pw, NEW c PROVE KEKs(pw, c)' = KEKs(pw, c)
  <2>1. Listed(c)' = Listed(c)
    BY <1>3
  <2> QED BY <2>1 DEF KEKs, deriveKEK, SaltOf, Damage
<1>7. \A kek, c, i : Authenticates(kek, c, i)' = Authenticates(kek, c, i)
  BY <1>1 DEF Authenticates, OwnKEK
<1>8. \A pw, c : Stops(pw, c)' = Stops(pw, c)
  BY <1>1, <1>3, <1>6, <1>7 DEF Stops
<1>9. ASSUME NEW pw, NEW c PROVE Recovered(pw, c)' = Recovered(pw, c)
  <2>1. Listed(c)' = Listed(c) /\ Stops(pw, c)' = Stops(pw, c)
    BY <1>3, <1>8
  <2> QED BY <2>1 DEF Recovered, Damage
<1>10. \A c : Openable(c)' = Openable(c)
  BY <1>1 DEF Openable
<1> QED BY <1>1, <1>9, <1>10

-----------------------------------------------------------------------------
(***************************************************************************)
(* What the handlers do to the unlocks under way.                          *)
(***************************************************************************)
LEMMA DisturbedTasks ==
  ASSUME unlocks \in Seq(Tasks)
  PROVE  /\ Disturbed \in Seq(Tasks) /\ DOMAIN Disturbed = DOMAIN unlocks
         /\ Len(Disturbed) = Len(unlocks)
         /\ \A u \in DOMAIN unlocks :
               /\ Disturbed[u].at = unlocks[u].at /\ Disturbed[u].pw = unlocks[u].pw
               /\ Disturbed[u].slots = unlocks[u].slots
               /\ Disturbed[u].file = unlocks[u].file /\ Disturbed[u].moved = unlocks[u].moved
               /\ InFlight(u) => Disturbed[u].steady = FALSE
               /\ ~ InFlight(u) => Disturbed[u] = unlocks[u]
<1>1. DOMAIN unlocks = 1 .. Len(unlocks) /\ Len(unlocks) \in Nat
      /\ \A u \in DOMAIN unlocks : unlocks[u] \in Tasks
  OBVIOUS
<1>2. \A u \in DOMAIN unlocks : Disturbed[u] \in Tasks
  BY <1>1 DEF Disturbed, Tasks
<1>3. DOMAIN Disturbed = 1 .. Len(unlocks)
  BY <1>1 DEF Disturbed
<1>4. Disturbed = [u \in 1 .. Len(unlocks) |-> Disturbed[u]]
  BY <1>1 DEF Disturbed
<1>5. Disturbed \in Seq(Tasks) /\ Len(Disturbed) = Len(unlocks)
  <2>1. Disturbed \in [1 .. Len(unlocks) -> Tasks]
    BY <1>1, <1>2, <1>3, <1>4
  <2> QED BY <1>1, <1>3, <2>1
<1>6. ASSUME NEW u \in DOMAIN unlocks
      PROVE  /\ Disturbed[u].at = unlocks[u].at /\ Disturbed[u].pw = unlocks[u].pw
             /\ Disturbed[u].slots = unlocks[u].slots
             /\ Disturbed[u].file = unlocks[u].file /\ Disturbed[u].moved = unlocks[u].moved
             /\ InFlight(u) => Disturbed[u].steady = FALSE
             /\ ~ InFlight(u) => Disturbed[u] = unlocks[u]
  BY <1>1 DEF Disturbed, Tasks
<1> QED BY <1>1, <1>3, <1>5, <1>6

LEMMA OvertakenTasks ==
  ASSUME unlocks \in Seq(Tasks)
  PROVE  /\ Overtaken \in Seq(Tasks) /\ DOMAIN Overtaken = DOMAIN unlocks
         /\ Len(Overtaken) = Len(unlocks)
         /\ \A u \in DOMAIN unlocks :
               /\ Overtaken[u].at = unlocks[u].at /\ Overtaken[u].pw = unlocks[u].pw
               /\ Overtaken[u].slots = unlocks[u].slots
               /\ Overtaken[u].file = unlocks[u].file /\ (InFlight(u) => Overtaken[u].moved)
               /\ InFlight(u) => Overtaken[u].steady = FALSE
               /\ ~ InFlight(u) => Overtaken[u] = unlocks[u]
<1>1. DOMAIN unlocks = 1 .. Len(unlocks) /\ Len(unlocks) \in Nat
      /\ \A u \in DOMAIN unlocks : unlocks[u] \in Tasks
  OBVIOUS
<1>2. \A u \in DOMAIN unlocks : Overtaken[u] \in Tasks
  BY <1>1 DEF Overtaken, Tasks
<1>3. DOMAIN Overtaken = 1 .. Len(unlocks)
  BY <1>1 DEF Overtaken
<1>4. Overtaken = [u \in 1 .. Len(unlocks) |-> Overtaken[u]]
  BY <1>1 DEF Overtaken
<1>5. Overtaken \in Seq(Tasks) /\ Len(Overtaken) = Len(unlocks)
  <2>1. Overtaken \in [1 .. Len(unlocks) -> Tasks]
    BY <1>1, <1>2, <1>3, <1>4
  <2> QED BY <1>1, <1>3, <2>1
<1>6. ASSUME NEW u \in DOMAIN unlocks
      PROVE  /\ Overtaken[u].at = unlocks[u].at /\ Overtaken[u].pw = unlocks[u].pw
             /\ Overtaken[u].slots = unlocks[u].slots
             /\ Overtaken[u].file = unlocks[u].file /\ (InFlight(u) => Overtaken[u].moved)
             /\ InFlight(u) => Overtaken[u].steady = FALSE
             /\ ~ InFlight(u) => Overtaken[u] = unlocks[u]
  BY <1>1 DEF Overtaken, Tasks
<1> QED BY <1>1, <1>3, <1>5, <1>6

\* A step of the unlock u itself: the others stay, and u keeps its password and history.
Advances(u) ==
    /\ u \in DOMAIN unlocks /\ InFlight(u)
    /\ unlocks' \in Seq(Tasks) /\ DOMAIN unlocks' = DOMAIN unlocks
    /\ \A v \in DOMAIN unlocks : v # u => unlocks'[v] = unlocks[v]
    /\ unlocks'[u].pw = unlocks[u].pw /\ unlocks'[u].steady = unlocks[u].steady
    /\ unlocks'[u].moved = unlocks[u].moved

LEMMA UnlockingAdvances ==
  ASSUME Typed, NEW u \in DOMAIN unlocks, Unlocking(u)
  PROVE  Advances(u)
<1>1. unlocks \in Seq(Tasks) /\ unlocks[u] \in Tasks
  BY DEF Typed
<1>2. unlocks[u].at \in {"pause", "derive", "import", "table"}
  BY DEF Unlocking, Loop, Derived, Imported, TableRead, TableFails
<1>3. InFlight(u)
  BY <1>2 DEF InFlight
<1> DEFINE Same(t) == /\ t.pw = unlocks[u].pw /\ t.steady = unlocks[u].steady
                      /\ t.moved = unlocks[u].moved
<1>4. \E t \in Tasks : /\ unlocks' = [unlocks EXCEPT ![u] = t]
                       /\ Same(t)
  <2> DEFINE at(b) == [unlocks[u] EXCEPT !.at = b]
  <2>1. ASSUME NEW b \in {"unlocked", "refused"}, NEW sections, Ends(u, b, sections)
        PROVE  \E t \in Tasks : /\ unlocks' = [unlocks EXCEPT ![u] = t]
                               /\ Same(t)
    <3>1. unlocks' = [unlocks EXCEPT ![u] = at(b)]
      BY <1>1, <2>1 DEF Ends
    <3>2. at(b) \in Tasks /\ Same(at(b))
      BY <1>1 DEF Tasks
    <3> QED BY <3>1, <3>2
  <2>2. CASE Loop(u)
    <3>1. CASE validSlots = 0
      BY <2>1, <2>2, <3>1 DEF Loop
    <3>2. CASE validSlots # 0
      <4> DEFINE t == [unlocks[u] EXCEPT !.at = "derive", !.slots = validSlots]
      <4>1. unlocks' = [unlocks EXCEPT ![u] = t]
        BY <1>1, <2>2, <3>2 DEF Loop
      <4>2. t \in Tasks /\ Same(t)
        BY <1>1 DEF Tasks, Typed
      <4> QED BY <4>1, <4>2
    <3> QED BY <3>1, <3>2
  <2>3. CASE Derived(u)
    <3> DEFINE i == Recovered(unlocks[u].pw, unlocks[u].slots)
    <3>1. CASE i = 0
      BY <2>1, <2>3, <3>1 DEF Derived
    <3>2. CASE i # 0
      <4> DEFINE t == [unlocks[u] EXCEPT !.at = "import", !.key = unlocks[u].slots]
      <4>1. unlocks' = [unlocks EXCEPT ![u] = t]
        BY <1>1, <2>3, <3>2 DEF Derived
      <4>2. t \in Tasks /\ Same(t)
        BY <1>1 DEF Tasks, Typed
      <4> QED BY <4>1, <4>2
    <3> QED BY <3>1, <3>2
  <2>4. CASE Imported(u)
    <3>1. CASE activeHeader = NoHeader
      BY <2>1, <2>4, <3>1 DEF Imported
    <3>2. CASE activeHeader # NoHeader
      <4> DEFINE t == [unlocks[u] EXCEPT !.at = "table", !.file = containerFile,
                                         !.header = activeHeader]
      <4>1. unlocks' = [unlocks EXCEPT ![u] = t]
        BY <1>1, <2>4, <3>2 DEF Imported
      <4>2. t \in Tasks /\ Same(t)
        BY <1>1 DEF Tasks, Typed
      <4> QED BY <4>1, <4>2
    <3> QED BY <3>1, <3>2
  <2>5. CASE TableRead(u)
    BY <2>1, <2>5 DEF TableRead
  <2>6. CASE TableFails(u)
    BY <2>1, <2>6 DEF TableFails
  <2> QED BY <2>2, <2>3, <2>4, <2>5, <2>6 DEF Unlocking
<1>5. PICK t \in Tasks : /\ unlocks' = [unlocks EXCEPT ![u] = t]
                         /\ Same(t)
  BY <1>4
<1>6. unlocks' \in Seq(Tasks) /\ DOMAIN unlocks' = DOMAIN unlocks
  BY <1>1, <1>5
<1> QED BY <1>1, <1>3, <1>5, <1>6 DEF Advances

-----------------------------------------------------------------------------
(***************************************************************************)
(* Types.                                                                  *)
(***************************************************************************)
LEMMA NoHeaderType == NoHeader \in Headers /\ NoHeader.of = 0
BY DEF NoHeader, Headers, Owners

\* The step of an unlock keeps the types of the globals.
LEMMA UnlockingTypes ==
  ASSUME Typed, NEW u \in DOMAIN unlocks, Unlocking(u)
  PROVE  Typed'
<1> DEFINE t == unlocks[u]
<1>1. t \in Tasks /\ t.slots \in Owners /\ t.file \in Owners /\ t.key \in Owners
  <2>1. t \in Tasks
    BY DEF Typed
  <2> QED BY <2>1 DEF Tasks
<1>2. unlocks' \in Seq(Tasks)
  BY UnlockingAdvances DEF Advances
<1>3. ASSUME NEW b, NEW sections \in Sections, Ends(u, b, sections)
      PROVE  ui' \in Sections
  BY <1>3 DEF Ends, Sections
<1>4. CASE Loop(u)
  BY <1>2, <1>3, <1>4 DEF Typed, Loop, keys
<1>5. CASE Derived(u)
  <2> DEFINE i == Recovered(t.pw, t.slots)
  <2>1. i \in Slots \cup {0}
    BY RecoveredType
  <2>2. CASE i = 0
    BY <1>2, <1>3, <1>5, <2>2 DEF Typed, Derived
  <2>3. CASE i # 0
    <3>1. activeHeader' = [of |-> t.slots, slot |-> i] /\ activeDEK' = t.slots /\ ui' = ui
      BY <1>5, <2>3 DEF Derived
    <3>2. activeHeader' \in Headers
      BY <1>1, <2>1, <3>1 DEF Headers
    <3> HIDE DEF i
    <3> QED BY <1>1, <1>2, <1>5, <3>1, <3>2 DEF Typed, Derived
  <2> QED BY <2>2, <2>3
<1>6. CASE Imported(u)
  BY <1>1, <1>2, <1>3, <1>6 DEF Typed, Imported
<1>7. CASE TableRead(u)
  <2> DEFINE unlocked == [ui EXCEPT !.file = FALSE, !.password = FALSE, !.lock = TRUE]
  <2>1. unlocked \in Sections
    BY DEF Typed, Sections
  <2>2. [unlocked EXCEPT !.list = t.file, !.offsets = containerFile, !.by = u] \in Sections
    <3>1. u \in Nat
      BY DEF Typed
    <3> QED BY <1>1, <2>1, <3>1 DEF Typed, Sections
  <2>3. ui' \in Sections
    BY <1>3, <1>7, <2>1, <2>2 DEF TableRead
  <2> QED BY <1>1, <1>2, <1>7, <2>3 DEF Typed, TableRead
<1>8. CASE TableFails(u)
  BY <1>2, <1>3, <1>8 DEF Typed, TableFails, keys
<1> QED BY <1>4, <1>5, <1>6, <1>7, <1>8 DEF Unlocking

\* A chunk got is one of the file's.
LEMMA ReadChunkGets ==
  ASSUME download \in Downloads, ReadChunk
  PROVE  \E g \in Owners \X Nat :
            /\ g[1] = download.file
            /\ download' = [download EXCEPT !.got = Append(download.got, g)]
            /\ Append(download.got, g) \in Seq(Owners \X Nat)
            /\ Append(download.got, g) = [j \in 1 .. Len(download.got) + 1 |->
                   IF j \in DOMAIN download.got THEN download.got[j] ELSE g]
<1>1. download.got \in Seq(Owners \X Nat) /\ download.file \in Owners
  BY DEF Downloads
<1>2. PICK k \in PlacesRead :
        download' = [download EXCEPT !.got = Append(download.got, Plain(download.file, k))]
  BY DEF ReadChunk
<1>3. k \in Nat
  <2>1. CASE PlacesRead = {Len(download.got) + 1}
    BY <1>1, <2>1
  <2>2. CASE PlacesRead = {0} \cup 1 .. Chunks[download.file]
    BY <2>2
  <2> QED BY <2>1, <2>2 DEF PlacesRead
<1>4. Plain(download.file, k) \in Owners \X Nat /\ Plain(download.file, k)[1] = download.file
  BY <1>1, <1>3 DEF Plain
<1> DEFINE g == Plain(download.file, k)
<1> HIDE DEF g
<1>5. Append(download.got, g) \in Seq(Owners \X Nat)
  BY <1>1, <1>4 DEF g
<1>6. Append(download.got, g) = [j \in 1 .. Len(download.got) + 1 |->
                   IF j \in DOMAIN download.got THEN download.got[j] ELSE g]
  <2>1. DOMAIN download.got = 1 .. Len(download.got) /\ Len(download.got) \in Nat
    BY <1>1
  <2> QED BY <1>1, <1>4, <2>1 DEF g, Append
<1> QED BY <1>2, <1>4, <1>5, <1>6 DEF g

\* The step of any other handler does too.
LEMMA TypesKept ==
  ASSUME Typed, [BVNext]_bvVars
  PROVE  Typed'
<1> DEFINE Check == [at : {"reading", "done"}, file : Containers]
<1>1. 0 \in Owners /\ \A c \in Containers : c \in Owners
  BY DEF Owners
<1>2. ASSUME NEW c \in Containers, Chosen(c)
      PROVE  containerFile' \in Owners /\ checks' \in Seq(Check)
  <2>1. [at |-> "reading", file |-> c] \in Check
    OBVIOUS
  <2> HIDE DEF Check
  <2>2. checks \in Seq(Check)
    BY DEF Typed, Check
  <2> QED BY <1>1, <1>2, <2>1, <2>2, AppendProperties DEF Chosen
<1>3. ASSUME NEW c \in Containers, onFileSelected(c) PROVE Typed'
  <2>1. ui' \in Sections
    BY <1>1, <1>3 DEF onFileSelected, Typed, Sections
  <2> QED BY <1>1, <1>2, <1>3, <2>1, OvertakenTasks, NoHeaderType DEF onFileSelected, Typed
<1>4. ASSUME NEW pw \in Containers, onUnlock(pw) PROVE Typed'
  <2> DEFINE refusedNow == validSlots = 0 \/ Damage(validSlots, Listed(validSlots)[1]) = "huge"
             steady == /\ validSlots = containerFile
                      /\ \A u \in DOMAIN unlocks : InFlight(u) => unlocks[u].steady
             task == [at |-> IF refusedNow THEN "refused" ELSE "pause", pw |-> pw,
                      slots |-> validSlots, file |-> 0, header |-> NoHeader, key |-> 0,
                      steady |-> steady, moved |-> FALSE]
  <2>1. unlocks' = Append(unlocks, task) /\ ui' = [ui EXCEPT !.unlock = refusedNow]
    BY <1>4 DEF onUnlock
  <2>2. refusedNow \in BOOLEAN /\ steady \in BOOLEAN
    OBVIOUS
  <2>3. task \in Tasks
    <3>1. (IF refusedNow THEN "refused" ELSE "pause") \in {"pause", "refused"}
      OBVIOUS
    <3> HIDE DEF refusedNow, steady
    <3> QED BY <1>1, <2>2, <3>1, NoHeaderType DEF Tasks, Typed
  <2>4. ui' \in Sections
    <3> HIDE DEF refusedNow
    <3> QED BY <2>1, <2>2 DEF Typed, Sections
  <2>5. unlocks' \in Seq(Tasks)
    <3> HIDE DEF task
    <3> QED BY <2>1, <2>3, AppendProperties DEF Typed
  <2> QED BY <1>4, <2>4, <2>5 DEF onUnlock, Typed, keys
<1>5. CASE onLock
  <2>1. ui' \in Sections
    BY <1>1, <1>5 DEF onLock, Typed, Sections
  <2>2. locked' \in BOOLEAN
    BY <1>5 DEF onLock
  <2> QED BY <1>1, <1>5, <2>1, <2>2 DEF onLock, Typed
<1>6. CASE Click
  <2>1. activeHeader.of \in Owners /\ ui.offsets \in Owners
    BY DEF Typed, Headers, Sections
  <2>2. download' \in Downloads
    <3>1. ui.list \in Owners /\ <<>> \in Seq(Owners \X Nat)
      BY DEF Typed, Sections
    <3> QED BY <1>6, <2>1, <3>1 DEF Click, Typed, Downloads
  <2> QED BY <1>6, <2>2 DEF Click, Typed, keys
<1>7. CASE AutoLoad
  BY <1>1, <1>2, <1>7 DEF AutoLoad, Typed, keys
<1>8. CASE NoAutoLoad
  BY <1>8 DEF NoAutoLoad, Typed, keys, Sections
<1>9. ASSUME NEW k \in DOMAIN checks, CheckEnds(k) PROVE Typed'
  <2>1. checks[k] \in Check /\ checks[k].file \in Containers
    <3>1. checks \in Seq(Check)
      BY DEF Typed
    <3> HIDE DEF Check
    <3>2. checks[k] \in Check
      BY <3>1
    <3> QED BY <3>2 DEF Check
  <2>2. checks' \in Seq(Check)
    <3>1. [checks[k] EXCEPT !.at = "done"] \in Check
      BY <2>1
    <3>2. checks' = [checks EXCEPT ![k] = [checks[k] EXCEPT !.at = "done"]]
      BY <1>9 DEF CheckEnds
    <3> HIDE DEF Check
    <3>3. checks \in Seq(Check)
      BY DEF Typed, Check
    <3> QED BY <3>1, <3>2, <3>3
  <2>3. validSlots' \in Owners /\ ui' \in Sections
    BY <1>1, <1>9, <2>1 DEF CheckEnds, Typed, Sections
  <2> QED BY <1>9, <2>2, <2>3, DisturbedTasks DEF CheckEnds, Typed, keys
<1>10. ASSUME NEW u \in DOMAIN unlocks, Unlocking(u) PROVE Typed'
  BY <1>10, UnlockingTypes
<1>11. CASE Delivered \/ Abandoned
  <2>1. download' \in Downloads
    <3>1. <<>> \in Seq(Owners \X Nat)
      OBVIOUS
    <3> QED BY <1>1, <1>11, <3>1 DEF Delivered, Abandoned, NoDownload, Typed, Downloads
  <2> QED BY <1>11, <2>1 DEF Delivered, Abandoned, Typed, keys
<1>12. CASE ReadChunk
  <2>1. download' \in Downloads
    <3>1. download \in Downloads
      BY DEF Typed
    <3>2. PICK g \in Owners \X Nat :
             /\ download' = [download EXCEPT !.got = Append(download.got, g)]
             /\ Append(download.got, g) \in Seq(Owners \X Nat)
      BY <1>12, <3>1, ReadChunkGets
    <3> DEFINE got == Append(download.got, g)
    <3> HIDE DEF got
    <3> QED BY <3>1, <3>2 DEF Downloads, got
  <2> QED BY <1>12, <2>1 DEF ReadChunk, Typed, keys
<1>13. CASE UNCHANGED bvVars
  BY <1>13 DEF bvVars, keys, Typed
<1> QED BY <1>3, <1>4, <1>5, <1>6, <1>7, <1>8, <1>9, <1>10, <1>11, <1>12, <1>13
        DEF BVNext, UserStep, Awaited

-----------------------------------------------------------------------------
(***************************************************************************)
(* The unlocks over a step.                                                *)
(***************************************************************************)

\* Nothing happens to the unlocks, or all under way are disturbed, or one starts or goes on.
LEMMA WhatHappens ==
  ASSUME [BVNext]_bvVars
  PROVE  \/ unlocks' = unlocks
         \/ unlocks' = Disturbed
         \/ unlocks' = Overtaken
         \/ \E pw \in Containers : onUnlock(pw)
         \/ \E u \in DOMAIN unlocks : Unlocking(u)
BY DEF BVNext, UserStep, Awaited, onFileSelected, onLock, Click, AutoLoad, NoAutoLoad, CheckEnds,
       ReadChunk, Delivered, Abandoned, bvVars

\* The task a started unlock is, and the state it finds.
LEMMA Started ==
  ASSUME Typed, NEW pw \in Containers, onUnlock(pw)
  PROVE  LET n == Len(unlocks) + 1 IN
         /\ DOMAIN unlocks' = DOMAIN unlocks \cup {n} /\ n \notin DOMAIN unlocks
         /\ \A v \in DOMAIN unlocks : unlocks'[v] = unlocks[v]
         /\ unlocks'[n].pw = pw /\ unlocks'[n].slots = validSlots /\ ~ unlocks'[n].moved
         /\ unlocks'[n].at \in {"refused", "pause"}
         /\ unlocks'[n].at = "refused" =>
               validSlots = 0 \/ Damage(validSlots, Listed(validSlots)[1]) = "huge"
         /\ unlocks'[n].at = "pause" => validSlots # 0
         /\ unlocks'[n].steady <=> /\ validSlots = containerFile
                                   /\ \A u \in DOMAIN unlocks :
                                          InFlight(u) => unlocks[u].steady
<1> DEFINE n == Len(unlocks) + 1
           refusedNow == validSlots = 0 \/ Damage(validSlots, Listed(validSlots)[1]) = "huge"
           steady == /\ validSlots = containerFile
                     /\ \A u \in DOMAIN unlocks : InFlight(u) => unlocks[u].steady
           task == [at |-> IF refusedNow THEN "refused" ELSE "pause", pw |-> pw,
                    slots |-> validSlots, file |-> 0, header |-> NoHeader, key |-> 0,
                    steady |-> steady, moved |-> FALSE]
<1>1. unlocks' = Append(unlocks, task)
  BY DEF onUnlock
<1>2. /\ unlocks \in Seq(Tasks) /\ DOMAIN unlocks = 1 .. Len(unlocks)
      /\ Len(unlocks) \in Nat
  BY DEF Typed
<1>3. DOMAIN unlocks' = 1 .. n /\ unlocks'[n] = task
      /\ \A v \in 1 .. Len(unlocks) : unlocks'[v] = unlocks[v]
  <2> HIDE DEF task
  <2> QED BY <1>1, <1>2
<1>4. DOMAIN unlocks' = DOMAIN unlocks \cup {n} /\ n \notin DOMAIN unlocks
  BY <1>2, <1>3
<1>5. /\ task.pw = pw /\ task.slots = validSlots /\ ~ task.moved
      /\ task.at = (IF refusedNow THEN "refused" ELSE "pause") /\ task.steady = steady
  <2> HIDE DEF refusedNow, steady
  <2> QED OBVIOUS
<1>6. /\ task.at \in {"refused", "pause"} /\ (task.at = "refused" => refusedNow)
      /\ (task.at = "pause" => validSlots # 0)
  BY <1>5
<1>7. task.steady <=> steady
  BY <1>5
<1> HIDE DEF task
<1> QED BY <1>2, <1>3, <1>4, <1>5, <1>6, <1>7

\* What has ended stays as it ended.
LEMMA FinishedStays ==
  ASSUME Typed, [BVNext]_bvVars, NEW u \in DOMAIN unlocks, ~ InFlight(u)
  PROVE  u \in DOMAIN unlocks' /\ unlocks'[u] = unlocks[u]
<1>1. unlocks \in Seq(Tasks)
  BY DEF Typed
<1>2. CASE unlocks' = Disturbed \/ unlocks' = Overtaken
  BY <1>1, <1>2, DisturbedTasks, OvertakenTasks
<1>3. ASSUME NEW pw \in Containers, onUnlock(pw)
      PROVE  u \in DOMAIN unlocks' /\ unlocks'[u] = unlocks[u]
  BY <1>1, <1>3, Started
<1>4. ASSUME NEW v \in DOMAIN unlocks, Unlocking(v)
      PROVE  u \in DOMAIN unlocks' /\ unlocks'[u] = unlocks[u]
  BY <1>4, UnlockingAdvances DEF Advances
<1> QED BY <1>2, <1>3, <1>4, WhatHappens

-----------------------------------------------------------------------------
(***************************************************************************)
(* The parts of the invariant, one by one.                                 *)
(***************************************************************************)
LEMMA UnloadedKept ==
  ASSUME Typed, Unloaded, [BVNext]_bvVars
  PROVE  Unloaded'
<1> SUFFICES ASSUME loading' PROVE Unloaded'
  BY DEF Unloaded
<1>1. CASE UNCHANGED bvVars
  BY <1>1 DEF bvVars, Unloaded
<1>2. CASE BVNext
  <2>1. loading
    BY <1>2 DEF BVNext, UserStep, Awaited, onFileSelected, onUnlock, onLock, Click, AutoLoad,
                NoAutoLoad, CheckEnds, Unlocking, Loop, Derived, Imported, TableRead, TableFails,
                ReadChunk, Delivered, Abandoned
  <2>2. DOMAIN checks = {} /\ DOMAIN unlocks = {}
    BY <2>1 DEF Unloaded
  <2>3. ReadChunk \/ Delivered \/ Abandoned
    BY <1>2, <2>1, <2>2 DEF BVNext, UserStep, Awaited, onFileSelected, onUnlock, onLock, Click,
                            AutoLoad, NoAutoLoad, Unloaded
  <2> QED BY <2>1, <2>3 DEF ReadChunk, Delivered, Abandoned, Unloaded
<1> QED BY <1>1, <1>2

LEMMA LockedKept ==
  ASSUME Typed, Locked, [BVNext]_bvVars
  PROVE  Locked'
<1> DEFINE Idle == \A u \in DOMAIN unlocks : ~ InFlight(u)
<1>1. ASSUME unlocks' = Disturbed, Idle PROVE Idle'
  <2>1. DOMAIN unlocks' = DOMAIN unlocks
        /\ \A u \in DOMAIN unlocks : unlocks'[u].at = unlocks[u].at
    BY <1>1, DisturbedTasks DEF Typed
  <2> QED BY <1>1, <2>1 DEF InFlight
<1>2. ASSUME NEW c, onFileSelected(c) PROVE Locked'
  BY <1>2 DEF onFileSelected, Locked, LockHolds
<1>3. ASSUME NEW pw, onUnlock(pw) PROVE Locked'
  BY <1>3 DEF onUnlock, Locked, LockHolds
<1>4. CASE onLock
  <2>1. LockHolds'
    BY <1>4 DEF onLock, LockHolds, Typed, Sections
  <2>2. locked' => Idle'
    BY <1>4 DEF onLock, InFlight
  <2> QED BY <2>1, <2>2 DEF Locked
<1>5. ASSUME NEW k, CheckEnds(k) PROVE Locked'
  <2>1. ui'.list = ui.list
    BY <1>5 DEF CheckEnds, Typed, Sections
  <2>2. LockHolds'
    BY <1>5, <2>1 DEF CheckEnds, LockHolds, Locked, keys
  <2>3. locked' => Idle'
    <3>1. unlocks' = unlocks \/ unlocks' = Disturbed
      BY <1>5 DEF CheckEnds
    <3>2. unlocks' = unlocks /\ Idle => Idle'
      BY DEF InFlight
    <3>3. locked' = locked
      BY <1>5 DEF CheckEnds
    <3> QED BY <1>1, <3>1, <3>2, <3>3 DEF Locked
  <2> QED BY <2>2, <2>3 DEF Locked
<1>6. ASSUME NEW u \in DOMAIN unlocks, Unlocking(u) PROVE Locked'
  <2>1. ~ locked
    BY <1>6, UnlockingAdvances DEF Advances, Locked
  <2>2. ~ locked'
    BY <1>6, <2>1 DEF Unlocking, Loop, Derived, Imported, TableRead, TableFails
  <2> QED BY <2>2 DEF Locked, LockHolds
<1>7. CASE AutoLoad \/ Click \/ ReadChunk \/ Delivered \/ Abandoned \/ UNCHANGED bvVars
  BY <1>7 DEF AutoLoad, Click, ReadChunk, Delivered, Abandoned, bvVars, keys, Locked, LockHolds,
              InFlight
<1>8. CASE NoAutoLoad
  <2>1. ui'.list = ui.list
    BY <1>8 DEF NoAutoLoad, Typed, Sections
  <2> QED BY <1>8, <2>1 DEF NoAutoLoad, keys, Locked, LockHolds, InFlight
<1> QED BY <1>2, <1>3, <1>4, <1>5, <1>6, <1>7, <1>8 DEF BVNext, UserStep, Awaited

LEMMA FetchedKept ==
  ASSUME Typed, ListShown, Fetched, [BVNext]_bvVars
  PROVE  Fetched'
<1>1. Content(download.entry)' = Content(download'.entry)
  BY DEF Content
<1>2. CASE Click
  <2>1. ui.list # 0 /\ activeFileTable # 0
        /\ download'.at = "running" /\ download'.entry = activeFileTable
        /\ download'.clicked = ui.list /\ download'.got = <<>>
    BY <1>2 DEF Click
  <2>2. activeFileTable = ui.list /\ DOMAIN download'.got = {}
    BY <2>1 DEF ListShown
  <2> QED BY <2>1, <2>2 DEF Fetched
<1>3. CASE ReadChunk
  <2>1. download.at = "running" /\ download \in Downloads
    BY <1>3 DEF ReadChunk, Typed
  <2>2. PICK g \in Owners \X Nat :
            /\ g[1] = download.file
            /\ download' = [download EXCEPT !.got = Append(download.got, g)]
            /\ Append(download.got, g) = [j \in 1 .. Len(download.got) + 1 |->
                   IF j \in DOMAIN download.got THEN download.got[j] ELSE g]
    BY <1>3, <2>1, ReadChunkGets
  <2>3. /\ download'.at = "running" /\ download'.entry = download.entry
        /\ download'.clicked = download.clicked /\ download'.file = download.file
        /\ download'.got = Append(download.got, g)
    BY <2>1, <2>2 DEF Downloads
  <2>4. \A j \in DOMAIN download'.got : download'.got[j][1] = download.file
    BY <2>1, <2>2, <2>3 DEF Fetched
  <2> QED BY <2>1, <2>3, <2>4 DEF Fetched
<1>4. CASE Delivered
  <2>1. download.at = "running" /\ download.got = Content(download.entry)
    BY <1>4 DEF Delivered, ChecksumAgrees
  <2>2. /\ download'.at = "delivered" /\ download'.entry = download.entry
        /\ download'.clicked = download.clicked /\ download'.file = download.file
        /\ download'.got = download.got
    BY <1>4 DEF Delivered, Typed, Downloads
  <2>3. Content(download'.entry) = Content(download.entry)
    BY <2>2
  <2> QED BY <1>1, <2>1, <2>2, <2>3 DEF Fetched
<1>5. CASE Abandoned
  BY <1>5 DEF Abandoned, Fetched, NoDownload
<1>6. CASE download' = download
  BY <1>1, <1>6 DEF Fetched
<1> QED BY <1>2, <1>3, <1>4, <1>5, <1>6 DEF BVNext, UserStep, Awaited, onFileSelected, onUnlock,
          onLock, AutoLoad, NoAutoLoad, CheckEnds, Unlocking, Loop, Derived, Imported, TableRead,
          TableFails, bvVars

\* The checksum ties what was got to the entry, and where it lay ties the entry to the file.
LEMMA FetchedIsTheFile ==
  ASSUME Typed, Fetched
  PROVE  DeliveredIsTheFile
<1> SUFFICES ASSUME download.at = "delivered"
             PROVE  /\ download.got = Content(download.clicked)
                    /\ download.got # <<>> => download.file = download.clicked
  BY DEF DeliveredIsTheFile
<1>1. /\ download.got = Content(download.clicked) /\ download.entry = download.clicked
      /\ \A j \in DOMAIN download.got : download.got[j][1] = download.file
  BY DEF Fetched
<1>2. ASSUME download.got # <<>> PROVE download.file = download.clicked
  <2>1. 1 \in DOMAIN download.got
    <3>1. download.got \in Seq(Owners \X Nat)
      BY DEF Typed, Downloads
    <3> QED BY <1>2, <3>1
  <2>2. Content(download.clicked)[1] = <<download.clicked, 1>>
    BY <1>1, <2>1 DEF Content
  <2> QED BY <1>1, <2>1, <2>2
<1> QED BY <1>1, <1>2

\* A steady unlock finds the globals as it left them, step after step.
LEMMA UndisturbedGoesOn ==
  ASSUME Typed, NEW u \in DOMAIN unlocks, Unlocking(u), Undisturbed(u), InFlight(u)', found' = found
  PROVE  Undisturbed(u)'
<1> DEFINE t == unlocks[u]
           i == Recovered(t.pw, t.slots)
<1>1. /\ unlocks \in Seq(Tasks) /\ t \in Tasks /\ Advances(u)
  BY UnlockingAdvances DEF Typed
<1>3. \A pw, c : Recovered(pw, c)' = Recovered(pw, c)
  BY RecoveredStays
<1>4. \A b, sections : Ends(u, b, sections) => unlocks'[u].at = b
  BY <1>1 DEF Ends, Tasks
<1>5. containerFile' = containerFile /\ validSlots' = validSlots
  BY DEF Unlocking, Loop, Derived, Imported, TableRead, TableFails
<1>6. t.slots # 0 /\ t.slots = containerFile /\ t.slots = validSlots
  BY DEF Undisturbed
<1>7. CASE Loop(u)
  <2>1. validSlots # 0
    BY <1>6
  <2>2. unlocks'[u] = [t EXCEPT !.at = "derive", !.slots = validSlots]
    BY <1>1, <1>7, <2>1 DEF Loop
  <2>3. unlocks'[u].at = "derive" /\ unlocks'[u].slots = validSlots
    BY <1>1, <2>2 DEF Tasks
  <2> QED BY <1>5, <1>6, <2>3 DEF Undisturbed
<1>8. CASE Derived(u)
  <2>1. i # 0
    BY <1>4, <1>8 DEF Derived, InFlight
  <2>2. /\ unlocks'[u] = [t EXCEPT !.at = "import", !.key = t.slots]
        /\ activeHeader' = [of |-> t.slots, slot |-> i]
    BY <1>1, <1>8, <2>1 DEF Derived
  <2>3. /\ unlocks'[u].at = "import" /\ unlocks'[u].slots = t.slots /\ unlocks'[u].pw = t.pw
        /\ unlocks'[u].key = t.slots
    BY <1>1, <2>2 DEF Tasks
  <2>4. Recovered(unlocks[u].pw, unlocks[u].slots)' = i
    BY <1>3, <2>3
  <2> HIDE DEF i
  <2> QED BY <1>5, <1>6, <2>1, <2>2, <2>3, <2>4 DEF Undisturbed
<1>9. CASE Imported(u)
  <2>1. /\ i # 0 /\ activeHeader = [of |-> t.slots, slot |-> i] /\ t.key = t.slots
    BY <1>9 DEF Imported, Undisturbed
  <2>2. activeHeader # NoHeader
    BY <1>4, <1>9 DEF Imported, InFlight
  <2>3. /\ unlocks'[u] = [t EXCEPT !.at = "table", !.file = containerFile, !.header = activeHeader]
        /\ activeHeader' = activeHeader
    BY <1>1, <1>9, <2>2 DEF Imported
  <2>4. /\ unlocks'[u].at = "table" /\ unlocks'[u].slots = t.slots /\ unlocks'[u].pw = t.pw
        /\ unlocks'[u].key = t.key /\ unlocks'[u].file = containerFile
        /\ unlocks'[u].header = activeHeader
    BY <1>1, <2>3 DEF Tasks
  <2>5. Recovered(unlocks[u].pw, unlocks[u].slots)' = i
    BY <1>3, <2>4
  <2> HIDE DEF i
  <2> QED BY <1>5, <1>6, <2>1, <2>3, <2>4, <2>5 DEF Undisturbed
<1>10. CASE TableRead(u)
  BY <1>4, <1>10 DEF TableRead, InFlight
<1>11. CASE TableFails(u)
  BY <1>4, <1>11 DEF TableFails, InFlight
<1> QED BY <1>7, <1>8, <1>9, <1>10, <1>11 DEF Unlocking

\* A step of one steady unlock leaves another one the globals it relies on: both are of the
\* open file, and only its password recovers anything, always the same slot.
LEMMA OthersStayUndisturbed ==
  ASSUME Typed, NEW u \in DOMAIN unlocks, Unlocking(u), Undisturbed(u), found' = found,
         NEW w \in DOMAIN unlocks, w # u, Undisturbed(w)
  PROVE  Undisturbed(w)'
<1> DEFINE t == unlocks[u]
           o == unlocks[w]
           i == Recovered(t.pw, t.slots)
<1>1. unlocks'[w] = o
  BY UnlockingAdvances DEF Advances
<1>2. \A pw, c : Recovered(pw, c)' = Recovered(pw, c)
  BY RecoveredStays
<1>3. containerFile' = containerFile /\ validSlots' = validSlots
  BY DEF Unlocking, Loop, Derived, Imported, TableRead, TableFails
<1>4. o.slots # 0 /\ o.slots = containerFile /\ o.slots = validSlots /\ t.slots = o.slots
  BY DEF Undisturbed
<1>5. o.at \in {"import", "table"} => activeHeader' = activeHeader
  <2> SUFFICES ASSUME o.at \in {"import", "table"}, activeHeader' # activeHeader PROVE FALSE
    OBVIOUS
  <2>1. Derived(u)
    BY DEF Unlocking, Loop, Derived, Imported, TableRead, TableFails, keys
  <2>2. i # 0 /\ activeHeader' = [of |-> t.slots, slot |-> i]
    BY <2>1 DEF Derived
  <2>3. /\ Recovered(o.pw, o.slots) # 0
        /\ activeHeader = [of |-> o.slots, slot |-> Recovered(o.pw, o.slots)]
    BY DEF Undisturbed
  <2>4. t.pw = t.slots /\ o.pw = o.slots
    BY <2>2, <2>3, OnlyItsPassword
  <2>5. i = Recovered(o.pw, o.slots)
    BY <1>4, <2>4
  <2> HIDE DEF i
  <2> QED BY <1>4, <2>2, <2>3, <2>5
<1>6. Recovered(unlocks[w].pw, unlocks[w].slots)' = Recovered(o.pw, o.slots)
  BY <1>1, <1>2
<1> QED BY <1>1, <1>3, <1>5, <1>6 DEF Undisturbed

LEMMA TasksKept ==
  ASSUME Typed, Unloaded, TasksSound, [BVNext]_bvVars
  PROVE  TasksSound'
<1>1. unlocks \in Seq(Tasks)
  BY DEF Typed
<1>2. CASE unlocks' = Disturbed \/ unlocks' = Overtaken
  <2>1. DOMAIN unlocks' = DOMAIN unlocks
    BY <1>1, <1>2, DisturbedTasks, OvertakenTasks
  <2>2. ASSUME NEW u \in DOMAIN unlocks', InFlight(u)' PROVE ~ unlocks'[u].steady
    <3>1. unlocks'[u].at = unlocks[u].at
      BY <1>1, <1>2, <2>1, DisturbedTasks, OvertakenTasks
    <3>2. InFlight(u)
      BY <2>2, <3>1 DEF InFlight
    <3> QED BY <1>1, <1>2, <2>1, <3>2, DisturbedTasks, OvertakenTasks
  <2> QED BY <2>2 DEF TasksSound
<1>3. ASSUME NEW pw \in Containers, onUnlock(pw) PROVE TasksSound'
  <2>1. PICK n :
        /\ DOMAIN unlocks' = DOMAIN unlocks \cup {n} /\ n \notin DOMAIN unlocks
        /\ \A v \in DOMAIN unlocks : unlocks'[v] = unlocks[v]
        /\ unlocks'[n].slots = validSlots
        /\ unlocks'[n].at \in {"refused", "pause"}
        /\ unlocks'[n].at = "pause" => validSlots # 0
        /\ unlocks'[n].steady <=> /\ validSlots = containerFile
                                  /\ \A u \in DOMAIN unlocks : InFlight(u) => unlocks[u].steady
    <3> DEFINE m == Len(unlocks) + 1
    <3> WITNESS m
    <3> QED BY <1>3, Started
  <2>2. \A v \in DOMAIN unlocks : InFlight(v)' <=> InFlight(v)
    BY <2>1 DEF InFlight
  <2>3. /\ containerFile' = containerFile /\ validSlots' = validSlots
        /\ activeHeader' = activeHeader /\ found' = found
    BY <1>3 DEF onUnlock, keys
  <2>4. \A pw2, c : Recovered(pw2, c)' = Recovered(pw2, c)
    BY <2>3, RecoveredStays
  <2>5. \A v \in DOMAIN unlocks : Undisturbed(v) => Undisturbed(v)'
    <3> SUFFICES ASSUME NEW v \in DOMAIN unlocks, Undisturbed(v) PROVE Undisturbed(v)'
      OBVIOUS
    <3>1. unlocks'[v] = unlocks[v]
      BY <2>1
    <3> QED BY <2>3, <2>4, <3>1 DEF Undisturbed
  <2>6. InFlight(n)' /\ unlocks'[n].steady => Undisturbed(n)'
    <3> SUFFICES ASSUME InFlight(n)', unlocks'[n].steady PROVE Undisturbed(n)'
      OBVIOUS
    <3>1. unlocks'[n].at = "pause"
      BY <2>1 DEF InFlight
    <3> QED BY <2>1, <2>3, <3>1 DEF Undisturbed
  <2>7. ASSUME NEW w \in DOMAIN unlocks, InFlight(w), unlocks[w].steady, InFlight(n)'
        PROVE  unlocks'[n].steady
    <3>1. /\ validSlots = containerFile
          /\ \A u \in DOMAIN unlocks : InFlight(u) => unlocks[u].steady
      BY <2>7 DEF TasksSound, Undisturbed
    <3> QED BY <2>1, <3>1
  <2>8. SUFFICES ASSUME NEW w \in DOMAIN unlocks', InFlight(w)', unlocks'[w].steady
                 PROVE  /\ Undisturbed(w)'
                        /\ \A v \in DOMAIN unlocks' : InFlight(v)' => unlocks'[v].steady
    BY DEF TasksSound
  <2>9. CASE w = n
    BY <2>1, <2>2, <2>6, <2>8, <2>9
  <2>10. CASE w # n
    <3>1. w \in DOMAIN unlocks /\ InFlight(w) /\ unlocks[w].steady
      BY <2>1, <2>2, <2>8, <2>10
    <3>2. Undisturbed(w) /\ \A v \in DOMAIN unlocks : InFlight(v) => unlocks[v].steady
      BY <3>1 DEF TasksSound
    <3> QED BY <2>1, <2>2, <2>5, <2>7, <3>1, <3>2
  <2> QED BY <2>9, <2>10
<1>4. ASSUME NEW u \in DOMAIN unlocks, Unlocking(u) PROVE TasksSound'
  <2>1. Advances(u)
    BY <1>4, UnlockingAdvances
  <2>2. SUFFICES ASSUME NEW w \in DOMAIN unlocks', InFlight(w)', unlocks'[w].steady
                 PROVE  /\ Undisturbed(w)'
                        /\ \A v \in DOMAIN unlocks' : InFlight(v)' => unlocks'[v].steady
    BY DEF TasksSound
  <2>3. \A v \in DOMAIN unlocks' : /\ v \in DOMAIN unlocks /\ (InFlight(v)' => InFlight(v))
                                   /\ unlocks'[v].steady = unlocks[v].steady
    BY <2>1 DEF Advances, InFlight
  <2>4. Undisturbed(w) /\ \A v \in DOMAIN unlocks : InFlight(v) => unlocks[v].steady
    BY <2>2, <2>3 DEF TasksSound
  <2>5. Undisturbed(u)
    BY <2>1, <2>4 DEF TasksSound, Advances
  <2>6. Undisturbed(w)'
    BY <1>4, <2>2, <2>3, <2>4, <2>5, UndisturbedGoesOn, OthersStayUndisturbed, FoundStays
  <2> QED BY <2>3, <2>4, <2>6
<1>5. CASE AutoLoad
  <2>1. DOMAIN unlocks' = {}
    BY <1>5 DEF AutoLoad, Unloaded
  <2> QED BY <2>1 DEF TasksSound
<1>6. ASSUME unlocks' = unlocks, containerFile' = containerFile, activeHeader' = activeHeader,
             found' = found, validSlots' = validSlots \/ validSlots' = containerFile
      PROVE  TasksSound'
  <2>1. \A pw, c : Recovered(pw, c)' = Recovered(pw, c)
    BY <1>6, RecoveredStays
  <2>2. \A u \in DOMAIN unlocks : InFlight(u)' = InFlight(u) /\ (Undisturbed(u) => Undisturbed(u)')
    BY <1>6, <2>1 DEF Undisturbed, InFlight
  <2> QED BY <1>6, <2>2 DEF TasksSound
<1>7. ASSUME NEW c, onFileSelected(c) PROVE TasksSound'
  BY <1>2, <1>7 DEF onFileSelected
<1>8. CASE NoAutoLoad \/ onLock \/ Click \/ ReadChunk \/ Delivered \/ Abandoned \/ UNCHANGED bvVars
  BY <1>6, <1>8 DEF NoAutoLoad, onLock, Click, ReadChunk, Delivered, Abandoned, bvVars, keys
<1>9. ASSUME NEW k, CheckEnds(k) PROVE TasksSound'
  <2>1. CASE unlocks' = Disturbed
    BY <1>2, <2>1
  <2>2. CASE unlocks' # Disturbed
    <3>1. /\ unlocks' = unlocks /\ checks[k].file = containerFile
          /\ containerFile' = containerFile /\ activeHeader' = activeHeader /\ found' = found
      BY <1>9, <2>2 DEF CheckEnds, keys
    <3>2. validSlots' = validSlots \/ validSlots' = containerFile
      BY <1>9, <3>1 DEF CheckEnds
    <3> QED BY <1>6, <3>1, <3>2
  <2> QED BY <2>1, <2>2
<1> QED BY <1>3, <1>4, <1>5, <1>7, <1>8, <1>9 DEF BVNext, UserStep, Awaited

\* Unlocks stay in the list, and an overtaken one stays overtaken.
LEMMA MovedStays ==
  ASSUME Typed, [BVNext]_bvVars, NEW v \in DOMAIN unlocks
  PROVE  v \in DOMAIN unlocks' /\ (unlocks[v].moved => unlocks'[v].moved)
<1>1. unlocks \in Seq(Tasks)
  BY DEF Typed
<1>2. CASE unlocks' = Disturbed \/ unlocks' = Overtaken
  BY <1>1, <1>2, DisturbedTasks, OvertakenTasks
<1>3. ASSUME NEW pw \in Containers, onUnlock(pw)
      PROVE  v \in DOMAIN unlocks' /\ (unlocks[v].moved => unlocks'[v].moved)
  BY <1>1, <1>3, Started
<1>4. ASSUME NEW u \in DOMAIN unlocks, Unlocking(u)
      PROVE  v \in DOMAIN unlocks' /\ (unlocks[v].moved => unlocks'[v].moved)
  BY <1>4, UnlockingAdvances DEF Advances
<1> QED BY <1>2, <1>3, <1>4, WhatHappens

LEMMA CompanyStays ==
  ASSUME Typed, [BVNext]_bvVars, NEW u, Company(u)
  PROVE  Company(u)'
BY MovedStays DEF Company

LEMMA FileMovedKept ==
  ASSUME Typed, Unloaded, FileMoved, [BVNext]_bvVars
  PROVE  FileMoved'
<1>1. unlocks \in Seq(Tasks) /\ DOMAIN unlocks \in SUBSET Nat
  BY DEF Typed
<1>2. ASSUME containerFile' = containerFile, activeHeader' = activeHeader,
             unlocks' = unlocks \/ unlocks' = Disturbed
      PROVE  FileMoved'
  <2>1. /\ DOMAIN unlocks' = DOMAIN unlocks
        /\ \A u \in DOMAIN unlocks :
              /\ unlocks'[u].at = unlocks[u].at /\ unlocks'[u].file = unlocks[u].file
              /\ unlocks'[u].moved = unlocks[u].moved
    BY <1>1, <1>2, DisturbedTasks
  <2>2. \A u \in DOMAIN unlocks : InFlight(u)' <=> InFlight(u)
    BY <2>1 DEF InFlight
  <2> QED BY <1>2, <2>1, <2>2, CompanyStays DEF FileMoved
<1>3. ASSUME NEW c, onFileSelected(c) PROVE FileMoved'
  <2>1. unlocks' = Overtaken /\ activeHeader' = NoHeader
    BY <1>3 DEF onFileSelected
  <2>2. /\ DOMAIN unlocks' = DOMAIN unlocks
        /\ \A u \in DOMAIN unlocks : unlocks'[u].at = unlocks[u].at
        /\ \A u \in DOMAIN unlocks : InFlight(u) => unlocks'[u].moved
    BY <1>1, <2>1, OvertakenTasks
  <2>3. \A u \in DOMAIN unlocks' : InFlight(u)' => unlocks'[u].moved
    BY <2>2 DEF InFlight
  <2> QED BY <2>1, <2>3 DEF FileMoved
<1>4. ASSUME NEW pw \in Containers, onUnlock(pw) PROVE FileMoved'
  <2> DEFINE n == Len(unlocks) + 1
  <2>1. /\ DOMAIN unlocks' = DOMAIN unlocks \cup {n} /\ n \notin DOMAIN unlocks
        /\ \A v \in DOMAIN unlocks : unlocks'[v] = unlocks[v]
        /\ unlocks'[n].at \in {"refused", "pause"} /\ ~ unlocks'[n].moved
    BY <1>4, Started
  <2>2. \A v \in DOMAIN unlocks : v < n /\ ~ (n < v)
    BY <1>1
  <2>3. \A u \in DOMAIN unlocks : /\ unlocks'[u].at = unlocks[u].at
                                  /\ unlocks'[u].file = unlocks[u].file
                                  /\ unlocks'[u].moved = unlocks[u].moved
    BY <1>1, <2>1, DisturbedTasks
  <2>4. \A u \in DOMAIN unlocks : InFlight(u)' <=> InFlight(u)
    BY <2>3 DEF InFlight
  <2>5. containerFile' = containerFile /\ activeHeader' = activeHeader
    BY <1>4 DEF onUnlock, keys
  <2> HIDE DEF n
  <2>6. ASSUME NEW u \in DOMAIN unlocks', InFlight(u)'
        PROVE  /\ \A v \in DOMAIN unlocks' : v < u /\ InFlight(v)' /\ unlocks'[u].moved =>
                                                unlocks'[v].moved
               /\ unlocks'[u].at = "table" /\ unlocks'[u].file # containerFile' =>
                     unlocks'[u].moved /\ (activeHeader' = NoHeader \/ Company(u)')
    <3>1. CASE u = n
      BY <2>1, <3>1
    <3>2. CASE u # n
      <4>1. u \in DOMAIN unlocks /\ InFlight(u)
        BY <2>1, <2>4, <2>6, <3>2
      <4> QED BY <2>1, <2>2, <2>3, <2>4, <2>5, <4>1, CompanyStays DEF FileMoved
    <3> QED BY <3>1, <3>2
  <2> QED BY <2>6 DEF FileMoved
<1>5. ASSUME NEW w \in DOMAIN unlocks, Unlocking(w) PROVE FileMoved'
  <2>1. Advances(w) /\ containerFile' = containerFile
    BY <1>5, UnlockingAdvances DEF Unlocking, Loop, Derived, Imported, TableRead, TableFails
  <2>2. \A u \in DOMAIN unlocks : /\ u \in DOMAIN unlocks' /\ unlocks'[u].moved = unlocks[u].moved
                                  /\ InFlight(u)' => InFlight(u)
    BY <2>1 DEF Advances, InFlight
  <2>3. activeHeader' = activeHeader \/ Derived(w)
    BY <1>5 DEF Unlocking, Loop, Derived, Imported, TableRead, TableFails, keys
  <2>4. ASSUME NEW u \in DOMAIN unlocks', InFlight(u)', unlocks'[u].at = "table",
               unlocks'[u].file # containerFile'
        PROVE  unlocks'[u].moved /\ (activeHeader' = NoHeader \/ Company(u)')
    <3>1. u \in DOMAIN unlocks /\ InFlight(u)
      BY <2>1, <2>2, <2>4 DEF Advances
    <3>2. CASE u = w
      <4>1. unlocks[u] \in Tasks
        BY <1>1, <3>1
      <4>2. \A b, sections : Ends(u, b, sections) => unlocks'[u].at = b
        BY <1>1, <3>1, <4>1 DEF Ends, Tasks
      <4>3. CASE Imported(u) /\ activeHeader # NoHeader
        <5>1. unlocks'[u] = [unlocks[u] EXCEPT !.at = "table", !.file = containerFile,
                                               !.header = activeHeader]
          BY <1>1, <3>1, <4>3 DEF Imported
        <5>2. unlocks'[u].file = containerFile
          BY <4>1, <5>1 DEF Tasks
        <5> QED BY <2>1, <2>4, <5>2
      <4>4. CASE ~ (Imported(u) /\ activeHeader # NoHeader)
        <5>1. unlocks'[u].at # "table"
          BY <1>1, <1>5, <3>1, <3>2, <4>1, <4>2, <4>4
             DEF Unlocking, Loop, Derived, Imported, TableRead, TableFails, Tasks
        <5> QED BY <2>4, <5>1
      <4> QED BY <4>3, <4>4
    <3>3. CASE u # w
      <4>1. unlocks'[u] = unlocks[u]
        BY <2>1, <3>1, <3>3 DEF Advances
      <4>2. unlocks[u].moved /\ (activeHeader = NoHeader \/ Company(u))
        BY <2>1, <2>4, <3>1, <4>1 DEF FileMoved
      <4>3. CASE activeHeader' = activeHeader
        BY <4>1, <4>2, <4>3, CompanyStays
      <4>4. CASE Derived(w)
        <5>1. w > u \/ unlocks[w].moved
          <6>1. InFlight(w) /\ (w > u \/ w < u)
            BY <1>1, <2>1, <3>1, <3>3 DEF Advances
          <6> QED BY <3>1, <4>2, <6>1 DEF FileMoved
        <5>2. Company(u)
          BY <3>3, <5>1 DEF Company
        <5> QED BY <4>1, <4>2, <5>2, CompanyStays
      <4> QED BY <2>3, <4>3, <4>4
    <3> QED BY <3>2, <3>3
  <2>5. ASSUME NEW u \in DOMAIN unlocks', InFlight(u)', NEW v \in DOMAIN unlocks', v < u,
               InFlight(v)', unlocks'[u].moved
        PROVE  unlocks'[v].moved
    BY <2>1, <2>2, <2>5 DEF Advances, FileMoved
  <2> QED BY <2>4, <2>5 DEF FileMoved
<1>6. CASE AutoLoad
  <2>1. DOMAIN unlocks' = {}
    BY <1>6 DEF AutoLoad, Unloaded
  <2> QED BY <2>1 DEF FileMoved
<1>7. CASE NoAutoLoad \/ Click \/ ReadChunk \/ Delivered \/ Abandoned \/ UNCHANGED bvVars
  BY <1>2, <1>7 DEF NoAutoLoad, Click, ReadChunk, Delivered, Abandoned, bvVars, keys
<1>8. CASE onLock
  BY <1>2, <1>8 DEF onLock
<1>9. ASSUME NEW k, CheckEnds(k) PROVE FileMoved'
  BY <1>2, <1>9 DEF CheckEnds, keys
<1> QED BY <1>3, <1>4, <1>5, <1>6, <1>7, <1>8, <1>9 DEF BVNext, UserStep, Awaited

\* What TableRead puts on the page.
LEMMA TableReadShows ==
  ASSUME Typed, NEW u \in DOMAIN unlocks, TableRead(u)
  PROVE  /\ activeFileTable' = unlocks[u].file /\ activeHeader' = activeHeader
         /\ containerFile' = containerFile /\ ~ InFlight(u)' /\ InFlight(u)
         /\ activeHeader = NoHeader => ui'.list = ui.list /\ ui'.by = ui.by
         /\ activeHeader # NoHeader => ui'.list = unlocks[u].file /\ ui'.by = u
<1> DEFINE unlocked == [ui EXCEPT !.file = FALSE, !.password = FALSE, !.lock = TRUE]
           shown == [unlocked EXCEPT !.list = unlocks[u].file, !.offsets = containerFile, !.by = u]
<1>1. unlocks[u] \in Tasks /\ ui \in Sections
  BY DEF Typed
<1>2. \A b \in {"unlocked", "refused"} : \A sections : Ends(u, b, sections) =>
          ui' = [sections EXCEPT !.unlock = TRUE] /\ ~ InFlight(u)'
  BY <1>1 DEF Ends, InFlight, Tasks
<1>3. InFlight(u)
  BY DEF TableRead, InFlight
<1>4. CASE activeHeader = NoHeader
  <2>1. Ends(u, "refused", unlocked)
    BY <1>4 DEF TableRead
  <2>2. ui' = [unlocked EXCEPT !.unlock = TRUE] /\ ~ InFlight(u)'
    BY <1>2, <2>1
  <2> QED BY <1>1, <1>3, <1>4, <2>2 DEF TableRead, Sections
<1>5. CASE activeHeader # NoHeader
  <2>1. Ends(u, "unlocked", shown)
    BY <1>5 DEF TableRead
  <2>2. ui' = [shown EXCEPT !.unlock = TRUE] /\ ~ InFlight(u)'
    BY <1>2, <2>1
  <2> QED BY <1>1, <1>3, <1>5, <2>2 DEF TableRead, Sections
<1> QED BY <1>4, <1>5

\* Steps that are no TableRead leave the list and who showed it alone, or clear the list.
LEMMA ListSteps ==
  ASSUME Typed, Unloaded, [BVNext]_bvVars
  PROVE  \/ ui'.list = 0
         \/ /\ ui'.list = ui.list /\ ui'.by = ui.by /\ containerFile' = containerFile
            /\ activeFileTable' = activeFileTable
            /\ activeHeader' = activeHeader \/ \E u \in DOMAIN unlocks : Derived(u)
         \/ \E u \in DOMAIN unlocks : TableRead(u)
<1> DEFINE Same == /\ ui'.list = ui.list /\ ui'.by = ui.by /\ containerFile' = containerFile
                   /\ activeFileTable' = activeFileTable
<1>1. ui \in Sections
  BY DEF Typed
<1>2. ASSUME NEW c, onFileSelected(c) PROVE ui'.list = 0
  BY <1>1, <1>2 DEF onFileSelected, Sections
<1>3. CASE onLock
  BY <1>1, <1>3 DEF onLock, Sections
<1>4. CASE AutoLoad
  BY <1>4 DEF AutoLoad, Unloaded
<1>5. ASSUME NEW pw, onUnlock(pw) PROVE Same /\ activeHeader' = activeHeader
  BY <1>1, <1>5 DEF onUnlock, Sections, keys
<1>6. CASE NoAutoLoad
  BY <1>1, <1>6 DEF NoAutoLoad, Sections, keys
<1>7. ASSUME NEW k, CheckEnds(k) PROVE Same /\ activeHeader' = activeHeader
  BY <1>1, <1>7 DEF CheckEnds, Sections, keys
<1>8. CASE Click \/ ReadChunk \/ Delivered \/ Abandoned \/ UNCHANGED bvVars
  BY <1>8 DEF Click, ReadChunk, Delivered, Abandoned, bvVars, keys
<1>9. ASSUME NEW u \in DOMAIN unlocks, Unlocking(u), ~ TableRead(u)
      PROVE  Same /\ (activeHeader' = activeHeader \/ Derived(u))
  BY <1>1, <1>9 DEF Unlocking, Loop, Derived, Imported, TableFails, Ends, Sections, keys
<1> QED BY <1>2, <1>3, <1>4, <1>5, <1>6, <1>7, <1>8, <1>9 DEF BVNext, UserStep, Awaited

\* The slot whose header is taken is never none.
LEMMA DerivedHeader ==
  ASSUME NEW u, Derived(u)
  PROVE  activeHeader' = activeHeader \/ activeHeader' # NoHeader
<1> DEFINE i == Recovered(unlocks[u].pw, unlocks[u].slots)
<1>1. CASE i = 0
  BY <1>1 DEF Derived
<1>2. CASE i # 0
  <2>1. activeHeader' = [of |-> unlocks[u].slots, slot |-> i]
    BY <1>2 DEF Derived
  <2> HIDE DEF i
  <2> QED BY <1>2, <2>1 DEF NoHeader
<1> QED BY <1>1, <1>2

LEMMA ListShownKept ==
  ASSUME Typed, Unloaded, ListShown, [BVNext]_bvVars
  PROVE  ListShown'
<1>1. CASE ui'.list = 0
  BY <1>1 DEF ListShown
<1>2. CASE /\ ui'.list = ui.list /\ ui'.by = ui.by /\ activeFileTable' = activeFileTable
           /\ activeHeader' = activeHeader \/ \E u \in DOMAIN unlocks : Derived(u)
  <2> SUFFICES ASSUME ui.list # 0 PROVE ListShown'
    BY <1>2 DEF ListShown
  <2>1. ui.by \in DOMAIN unlocks' /\ unlocks'[ui.by] = unlocks[ui.by] /\ ~ InFlight(ui.by)
    BY FinishedStays DEF ListShown
  <2>2. activeHeader' # NoHeader
    BY <1>2, DerivedHeader DEF ListShown
  <2> QED BY <1>2, <2>1, <2>2 DEF ListShown, InFlight
<1>3. ASSUME NEW u \in DOMAIN unlocks, TableRead(u) PROVE ListShown'
  <2>1. u \in DOMAIN unlocks'
    BY MovedStays
  <2>2. CASE activeHeader # NoHeader
    BY <1>3, <2>1, <2>2, TableReadShows DEF ListShown
  <2>3. CASE activeHeader = NoHeader
    BY <1>3, <2>3, TableReadShows DEF ListShown
  <2> QED BY <2>2, <2>3
<1> QED BY <1>1, <1>2, <1>3, ListSteps

LEMMA ListKept ==
  ASSUME Typed, Unloaded, FileMoved, ListShown, ListIsOfThisFile, [BVNext]_bvVars
  PROVE  ListIsOfThisFile'
<1>1. CASE ui'.list = 0
  BY <1>1 DEF ListIsOfThisFile
<1>2. CASE ui'.list = ui.list /\ ui'.by = ui.by /\ containerFile' = containerFile
  <2> SUFFICES ASSUME ui.list # 0, ui.list # containerFile PROVE ListIsOfThisFile'
    BY <1>2 DEF ListIsOfThisFile
  <2>1. ui.by \in DOMAIN unlocks /\ unlocks[ui.by].moved /\ Company(ui.by)
    BY DEF ListIsOfThisFile, ListShown, Company
  <2>2. unlocks'[ui.by].moved
    BY <2>1, MovedStays
  <2>3. \E v \in DOMAIN unlocks' : v # ui.by /\ (v > ui.by \/ unlocks'[v].moved)
    BY <2>1, MovedStays DEF Company
  <2> QED BY <1>2, <2>2, <2>3 DEF ListIsOfThisFile
<1>3. ASSUME NEW u \in DOMAIN unlocks, TableRead(u) PROVE ListIsOfThisFile'
  <2>1. CASE activeHeader = NoHeader
    BY <1>2, <1>3, <2>1, TableReadShows
  <2>2. CASE activeHeader # NoHeader
    <3>1. ui'.list = unlocks[u].file /\ ui'.by = u /\ containerFile' = containerFile /\ InFlight(u)
      BY <1>3, <2>2, TableReadShows
    <3>2. CASE unlocks[u].file = containerFile
      BY <3>1, <3>2 DEF ListIsOfThisFile
    <3>3. CASE unlocks[u].file # containerFile
      <4>1. unlocks[u].at = "table"
        BY <1>3 DEF TableRead
      <4>2. unlocks[u].moved /\ Company(u)
        BY <2>2, <3>1, <3>3, <4>1 DEF FileMoved
      <4>3. unlocks'[u].moved
        BY <4>2, MovedStays
      <4>4. \E v \in DOMAIN unlocks' : v # u /\ (v > u \/ unlocks'[v].moved)
        BY <4>2, MovedStays DEF Company
      <4> QED BY <3>1, <4>3, <4>4 DEF ListIsOfThisFile
    <3> QED BY <3>2, <3>3
  <2> QED BY <2>1, <2>2
<1> QED BY <1>1, <1>2, <1>3, ListSteps

\* An undisturbed unlock with the right password is not refused on the way.
LEMMA RightPasswordGoesOn ==
  ASSUME Typed, NEW u \in DOMAIN unlocks, Unlocking(u), Undisturbed(u),
         unlocks'[u].at = "refused", unlocks'[u].pw = unlocks'[u].slots
  PROVE  ~ Openable(unlocks'[u].pw)
<1> DEFINE t == unlocks[u]
           c == t.slots
<1>1. unlocks \in Seq(Tasks) /\ t \in Tasks /\ c \in Containers /\ t.pw \in Containers
  <2>1. unlocks \in Seq(Tasks)
    BY DEF Typed
  <2>2. t \in Tasks
    BY <2>1
  <2> QED BY <2>1, <2>2 DEF Tasks, Owners, Undisturbed
<1>2. \A b, sections : Ends(u, b, sections) => unlocks'[u] = [t EXCEPT !.at = b]
  BY <1>1 DEF Ends
<1>3. \A b : /\ [t EXCEPT !.at = b].at = b /\ [t EXCEPT !.at = b].pw = t.pw
             /\ [t EXCEPT !.at = b].slots = c
  BY <1>1 DEF Tasks
<1>4. SUFFICES ASSUME Openable(unlocks'[u].pw) PROVE FALSE
  OBVIOUS
<1>5. ASSUME NEW sections, Ends(u, "refused", sections), Openable(t.pw), t.pw = c
      PROVE  Recovered(c, c) # 0 /\ Damage(c, Recovered(c, c)) = "whole"
  BY <1>1, <1>5, OpenableIsOpened
<1>6. ASSUME NEW sections, Ends(u, "refused", sections) PROVE t.pw = c /\ Openable(t.pw)
  <2>1. unlocks'[u] = [t EXCEPT !.at = "refused"]
    BY <1>2, <1>6
  <2>2. unlocks'[u].pw = t.pw /\ unlocks'[u].slots = c
    BY <1>3, <2>1
  <2>3. t.pw = c
    BY <2>2
  <2>4. Openable(unlocks'[u].pw)
    BY <1>4
  <2> QED BY <2>2, <2>3, <2>4
<1>7. CASE Loop(u)
  <2>1. validSlots # 0
    BY DEF Undisturbed
  <2>2. unlocks'[u].at = "derive"
    BY <1>1, <1>7, <2>1 DEF Loop, Tasks
  <2> QED BY <2>2
<1>8. CASE Derived(u)
  <2>1. CASE Recovered(t.pw, c) = 0
    <3>1. Ends(u, "refused", ui)
      BY <1>8, <2>1 DEF Derived
    <3>2. t.pw = c /\ Openable(t.pw)
      BY <1>6, <3>1
    <3> QED BY <1>5, <2>1, <3>1, <3>2
  <2>2. CASE Recovered(t.pw, c) # 0
    <3>1. unlocks'[u].at = "import"
      BY <1>1, <1>8, <2>2 DEF Derived, Tasks
    <3> QED BY <3>1
  <2> QED BY <2>1, <2>2
<1>9. CASE Imported(u)
  <2>1. activeHeader = [of |-> c, slot |-> Recovered(t.pw, c)]
    BY <1>9 DEF Imported, Undisturbed
  <2>2. activeHeader # NoHeader
    BY <1>1, <2>1, BrowserAssumption DEF NoHeader
  <2>3. unlocks'[u].at = "table"
    BY <1>1, <1>9, <2>2 DEF Imported, Tasks
  <2> QED BY <2>3
<1>10. CASE TableRead(u)
  <2>1. activeHeader = [of |-> c, slot |-> Recovered(t.pw, c)]
    BY <1>10 DEF TableRead, Undisturbed
  <2>2. activeHeader # NoHeader
    BY <1>1, <2>1, BrowserAssumption DEF NoHeader
  <2>3. unlocks'[u].at = "unlocked"
    BY <1>2, <1>3, <1>10, <2>2 DEF TableRead
  <2> QED BY <2>3
<1>11. CASE TableFails(u)
  <2>1. Ends(u, "refused", ui)
    BY <1>11 DEF TableFails
  <2>2. t.pw = c /\ Openable(t.pw)
    BY <1>6, <2>1
  <2>3. /\ t.header = [of |-> c, slot |-> Recovered(c, c)]
        /\ t.key = c /\ t.file = c
    BY <1>11, <2>2 DEF TableFails, Undisturbed
  <2>4. TableReads(u) /\ t.header.of = t.file
    BY <1>5, <2>1, <2>2, <2>3 DEF TableReads
  <2> QED BY <1>11, <2>4 DEF TableFails
<1> QED BY <1>7, <1>8, <1>9, <1>10, <1>11 DEF Unlocking

LEMMA RefusedKept ==
  ASSUME Typed, TasksSound, RightPasswordOpens, [BVNext]_bvVars
  PROVE  RightPasswordOpens'
<1>1. unlocks \in Seq(Tasks)
  BY DEF Typed
<1>2. \A c : Openable(c)' = Openable(c)
  BY FoundStays, RecoveredStays
<1>3. ASSUME NEW u \in DOMAIN unlocks', unlocks'[u].at = "refused", unlocks'[u].steady,
             unlocks'[u].pw = unlocks'[u].slots
      PROVE  ~ Openable(unlocks'[u].pw)
  <2>1. CASE u \in DOMAIN unlocks /\ ~ InFlight(u)
    <3>1. unlocks'[u] = unlocks[u]
      BY <2>1, FinishedStays
    <3> QED BY <1>3, <2>1, <3>1 DEF RightPasswordOpens, Openable
  <2>2. CASE u \in DOMAIN unlocks /\ InFlight(u)
    <3>1. unlocks[u].at # "refused"
      BY <2>2 DEF InFlight
    <3>2. unlocks' # unlocks /\ unlocks' # Disturbed /\ unlocks' # Overtaken
      BY <1>1, <1>3, <2>2, <3>1, DisturbedTasks, OvertakenTasks
    <3>3. ASSUME NEW pw \in Containers, onUnlock(pw) PROVE FALSE
      BY <1>1, <1>3, <2>2, <3>1, <3>3, Started
    <3>4. PICK v \in DOMAIN unlocks : Unlocking(v)
      BY <3>2, <3>3, WhatHappens
    <3>5. Advances(v)
      BY <3>4, UnlockingAdvances
    <3>6. v = u
      BY <1>3, <2>2, <3>1, <3>5 DEF Advances
    <3>7. Undisturbed(u)
      BY <1>3, <2>2, <3>5, <3>6 DEF Advances, TasksSound
    <3> QED BY <1>3, <2>2, <3>4, <3>6, <3>7, RightPasswordGoesOn
  <2>3. CASE u \notin DOMAIN unlocks
    <3>1. ~ \E v \in DOMAIN unlocks : Unlocking(v)
      BY <1>3, <2>3, UnlockingAdvances DEF Advances
    <3>2. unlocks' # unlocks /\ unlocks' # Disturbed /\ unlocks' # Overtaken
      BY <1>1, <1>3, <2>3, DisturbedTasks, OvertakenTasks
    <3>3. PICK pw \in Containers : onUnlock(pw)
      BY <3>1, <3>2, WhatHappens
    <3>4. /\ unlocks'[u].pw = pw /\ unlocks'[u].slots = validSlots
          /\ validSlots = 0 \/ Damage(validSlots, Listed(validSlots)[1]) = "huge"
      BY <1>3, <2>3, <3>3, Started
    <3>5. validSlots = pw /\ validSlots # 0
      BY <1>3, <3>4, BrowserAssumption
    <3> QED BY <3>4, <3>5, OpenableIsOpened
  <2> QED BY <2>1, <2>2, <2>3
<1>4. ASSUME NEW u \in DOMAIN unlocks', unlocks'[u].at = "refused", unlocks'[u].steady,
             unlocks'[u].pw = unlocks'[u].slots
      PROVE  ~ Openable(unlocks[u].pw)'
  <2>1. ~ Openable(unlocks'[u].pw)
    BY <1>3, <1>4
  <2>2. found' = found
    BY FoundStays
  <2> QED BY <2>1, <2>2 DEF Openable, Damage
<1> QED BY <1>4 DEF RightPasswordOpens, Openable

-----------------------------------------------------------------------------
(***************************************************************************)
(* The invariant and what it shows.                                        *)
(***************************************************************************)
LEMMA BVInit == InitBrowser => BVInv
<1> SUFFICES ASSUME InitBrowser PROVE BVInv
  OBVIOUS
<1>1. 0 \in Owners
  BY DEF Owners
<1>2. NoHeader \in Headers /\ NoDownload \in Downloads
  <2>1. <<>> \in Seq(Owners \X Nat)
    OBVIOUS
  <2> QED BY <1>1, <2>1 DEF NoHeader, NoDownload, Headers, Downloads
<1>3. ui \in Sections /\ ui.list = 0 /\ ~ ui.file /\ ~ ui.password /\ ~ ui.lock
  BY <1>1 DEF InitBrowser, Sections
<1>4. Typed
  <2>1. /\ <<>> \in Seq([at : {"reading", "done"}, file : Containers])
        /\ <<>> \in Seq(Tasks)
    OBVIOUS
  <2> QED BY <1>1, <1>2, <1>3, <2>1 DEF InitBrowser, Typed
<1>5. Unloaded
  BY <1>3 DEF InitBrowser, Unloaded
<1>6. DOMAIN unlocks = {}
  BY DEF InitBrowser
<1>7. Locked /\ TasksSound /\ RightPasswordOpens
  BY <1>6 DEF InitBrowser, Locked, LockHolds, TasksSound, RightPasswordOpens
<1>8. FileMoved /\ ListShown /\ ListIsOfThisFile /\ Fetched
  BY <1>3, <1>6 DEF InitBrowser, FileMoved, ListShown, ListIsOfThisFile, Fetched, NoDownload
<1> QED BY <1>4, <1>5, <1>7, <1>8 DEF BVInv

\* In every reachable state the page's globals are typed, nothing is under way before the first
\* file or after a lock that found nothing under way, and an unlock during which no file was chosen
\* and no check of another ended finds header and key as it left them before its awaits, whatever
\* other unlocks and locks of app.js ran meanwhile.
THEOREM BrowserInvariant == BVSpec => []BVInv
<1>1. BVInv /\ [BVNext]_bvVars => BVInv'
  BY TypesKept, UnloadedKept, LockedKept, TasksKept, FileMovedKept, ListShownKept, ListKept,
     FetchedKept, RefusedKept DEF BVInv
<1> QED BY BVInit, <1>1, PTL DEF BVSpec

\* onLock: when nothing was unlocking, neither key nor table stays in the globals, and no list is
\* shown until the next password is entered.
THEOREM LockStaysLocked == BVSpec => []LockHolds
<1>1. BVInv => LockHolds
  BY DEF BVInv, Locked
<1> QED BY <1>1, BrowserInvariant, PTL

\* showFileList of onUnlock: the list is the open file's, unless it was shown by an unlock during
\* which another file was chosen and another unlock then found a header.
THEOREM ListFollowsTheFile == BVSpec => []ListIsOfThisFile
<1>1. BVInv => ListIsOfThisFile
  BY DEF BVInv
<1> QED BY <1>1, BrowserInvariant, PTL

\* downloadFile: what is delivered is, chunk by chunk, the file of the list that was clicked and
\* comes from that list's container, whichever mixture the globals were and whatever the places
\* hold: a chunk decrypts only under its container's key, and the checksum of the entry tells
\* chunks of another file from its own.
THEOREM DownloadsAreWhole == BVSpec => []DeliveredIsTheFile
<1>1. BVInv => DeliveredIsTheFile
  BY FetchedIsTheFile DEF BVInv
<1> QED BY <1>1, BrowserInvariant, PTL

\* onUnlock: whatever the damage, the number of slots and the other handlers that run between its
\* awaits, a steady unlock with the right password is not refused when a whole slot comes
\* after slots without magic, with another salt, or that do not pass.
THEOREM RightPasswordUnlocks == BVSpec => []RightPasswordOpens
<1>1. BVInv => RightPasswordOpens
  BY DEF BVInv
<1> QED BY <1>1, BrowserInvariant, PTL
=============================================================================
