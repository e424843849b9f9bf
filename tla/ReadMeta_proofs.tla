--------------------------- MODULE ReadMeta_proofs ---------------------------
(***************************************************************************)
(* For all options, all sizes and any damage to the four slots: the first  *)
(* whole slot is the one that opens, a refusal under the right password    *)
(* has used up both derivations on two damaged slots, and a container has  *)
(* the parameters asked for unless their memory overflows 32 bits.         *)
(***************************************************************************)
EXTENDS ReadMeta, FiniteSetTheorems, TLAPS

-----------------------------------------------------------------------------
(***************************************************************************)
(* The invariant.                                                          *)
(***************************************************************************)
SlotSteps == {"algorithms", "derive", "verify", "table", "size", "opened", "too_small"}

\* Where the loop is.
Position ==
  /\ own \in [kdf : Written, size : Sizes, hash : WrittenHash]
  /\ found \in [Slots -> Damages(own.kdf)]
  /\ pc \in {"slot", "refused"} \cup SlotSteps
  /\ slot \in Nat
  /\ pc \in SlotSteps => slot \in Slots /\ Here.readable
  /\ pc \in {"derive", "verify"} => Here.cipherKnown
  /\ pc = "refused" => slot >= SLOT_COUNT

\* The key in hand is the one kekKey names, and it is this slot's unless the
\* budget is spent.
KeyInHand ==
  /\ kekDerived \in BOOLEAN
  /\ kekDerivations \in 0 .. MAX_KEK_DERIVATIONS
  /\ kekDerived => kek = [password |-> password, key |-> kekKey]
  /\ ~ kekDerived => kekDerivations < MAX_KEK_DERIVATIONS
  /\ pc = "derive" => ~ kekDerived
  /\ pc \in SlotSteps \ {"algorithms", "derive"} => kekDerived
  /\ pc \in SlotSteps /\ kekDerived =>
       kekKey = KeyOf(Here) \/ kekDerivations = MAX_KEK_DERIVATIONS

\* What passed the HMAC.
Passed ==
  /\ pc \in {"table", "size", "opened", "too_small"} =>
       kek = [password |-> "right", key |-> OwnKey] /\ [Here EXCEPT !.table = TRUE] = Whole(own.kdf)
  /\ Accepted => Here.table

\* A whole slot is behind only when both derivations went to others.
WholeSlotsBehind ==
  password = "right" =>
    \A i \in WholeSlots : i < slot =>
      kekDerived /\ kekDerivations = MAX_KEK_DERIVATIONS /\ kekKey # OwnKey

DamagedSlots == Slots \ WholeSlots
OneBehind == \E i \in DamagedSlots : i < slot
TwoBehind == \E i, j \in DamagedSlots : i < j /\ j < slot

\* Each derivation is spent on a damaged slot, or on the one that opens.
DerivationsSpent ==
  password = "right" =>
    /\ pc \in {"slot", "algorithms", "derive", "refused"} =>
         /\ kekDerivations >= 1 => OneBehind
         /\ kekDerivations = 2 => TwoBehind
    /\ pc \in {"verify", "table"} =>
         /\ kekDerivations = 2 => OneBehind
         /\ kekKey # KeyOf(Here) => TwoBehind

OpenInv == Position /\ KeyInHand /\ Passed /\ WholeSlotsBehind /\ DerivationsSpent

-----------------------------------------------------------------------------
(***************************************************************************)
(* Options.                                                                *)
(***************************************************************************)

\* Clamping brings every number into the range, and leaves those in it alone.
LEMMA ClampInRange ==
  ASSUME NEW x \in Int, NEW max \in Nat \ {0}
  PROVE  Clamp(x, max) \in 1 .. max /\ (x \in 1 .. max => Clamp(x, max) = x)
BY DEF Clamp

LEMMA SetParamsInRange ==
  ASSUME NEW kdf, kdf.m \in Int, kdf.t \in Int, kdf.p \in Int
  PROVE  InRange(setKdfParams(None, kdf))
<1> DEFINE m == Clamp(kdf.m, KDF_M_KIB_MAX)
           t == Clamp(kdf.t, KDF_T_MAX)
           p == Clamp(kdf.p, KDF_P_MAX)
<1>1. m \in 1 .. KDF_M_KIB_MAX /\ t \in 1 .. KDF_T_MAX /\ p \in 1 .. KDF_P_MAX
  BY ClampInRange, OptionsAssumption
<1>2. setKdfParams(None, kdf) = [m |-> m, t |-> t, p |-> p]
  BY DEF setKdfParams
<1> HIDE DEF m, t, p
<1> QED BY <1>1, <1>2 DEF InRange

\* What the command line has let pass is a profile or within the bounds.
LEMMA ResolvedInRange ==
  ASSUME NEW args \in Args, resolveKdfParams(args) # None
  PROVE  LET r == resolveKdfParams(args)
         IN  /\ r.profile = None => r.kdf = ManualParams(args) /\ InRange(r.kdf)
             /\ r.profile # None => r.profile \in DOMAIN Profiles
<1>1. CASE Manual(args)
  BY <1>1 DEF resolveKdfParams
<1>2. CASE ~ Manual(args)
  BY <1>2, OptionsAssumption DEF resolveKdfParams
<1> QED BY <1>1, <1>2

\* Every container was created with parameters within the bounds.
LEMMA WrittenInRange ==
  ASSUME NEW kdf \in Written
  PROVE  InRange(kdf)
<1>1. CASE \E args \in Args : /\ resolveKdfParams(args) # None
                              /\ kdf = setKdfParams(resolveKdfParams(args).profile,
                                                    resolveKdfParams(args).kdf)
  <2>1. PICK args \in Args : /\ resolveKdfParams(args) # None
                             /\ kdf = setKdfParams(resolveKdfParams(args).profile,
                                                   resolveKdfParams(args).kdf)
    BY <1>1
  <2> DEFINE r == resolveKdfParams(args)
  <2>2. CASE r.profile # None
    <3>1. kdf = Profiles[r.profile] /\ r.profile \in DOMAIN Profiles
      BY <2>1, <2>2, ResolvedInRange DEF setKdfParams
    <3> QED BY <3>1, ProfilesAssumption
  <2>3. CASE r.profile = None
    <3>1. InRange(r.kdf)
      BY <2>1, <2>3, ResolvedInRange
    <3>2. r.kdf.m \in Int /\ r.kdf.t \in Int /\ r.kdf.p \in Int
      BY <3>1 DEF InRange
    <3>3. InRange(setKdfParams(None, r.kdf))
      <4> HIDE DEF r
      <4> QED BY <3>2, SetParamsInRange
    <3> QED BY <2>1, <2>3, <3>3
  <2> QED BY <2>2, <2>3
<1>2. CASE \E gui \in GuiParams : kdf = setKdfParams(None, gui)
  BY <1>2, SetParamsInRange, ReadMetaAssumption
<1> QED BY <1>1, <1>2 DEF Written

\* A container's own key can be derived by whoever opens it.
LEMMA WholeCanBeDerived ==
  ASSUME NEW kdf \in Written
  PROVE  InRange(Whole(kdf).kdf) /\ ~ (Whole(kdf).kdf.m > MEMORY)
<1>1. InRange(kdf)
  BY WrittenInRange
<1>2. kdf.m \in Int /\ kdf.m <= MEMORY /\ MEMORY \in Nat
  BY <1>1, ReadMetaAssumption, OptionsAssumption DEF InRange
<1> QED BY <1>1, <1>2 DEF Whole

-----------------------------------------------------------------------------
(***************************************************************************)
(* What the options come to.                                               *)
(***************************************************************************)
\* Manual parameters within the range pass as they are: the product is the one asked
\* for, or what 32 bits leave of it.
LEMMA ManualTaken ==
  ASSUME NEW args \in Args, Manual(args), resolveKdfParams(args) # None
  PROVE  LET k == ManualParams(args)
         IN  /\ InRange(k)
             /\ setKdfParams(resolveKdfParams(args).profile, resolveKdfParams(args).kdf) = k
<1> DEFINE k == ManualParams(args)
<1>1. InRange(k) /\ resolveKdfParams(args) = [profile |-> None, kdf |-> k]
  BY DEF resolveKdfParams
<1>2. setKdfParams(None, k) = [m |-> k.m, t |-> k.t, p |-> k.p]
  <2>1. k.m \in 1 .. KDF_M_KIB_MAX /\ k.t \in 1 .. KDF_T_MAX /\ k.p \in 1 .. KDF_P_MAX
    BY <1>1 DEF InRange
  <2> HIDE DEF k
  <2>2. /\ Clamp(k.m, KDF_M_KIB_MAX) = k.m
        /\ Clamp(k.t, KDF_T_MAX) = k.t
        /\ Clamp(k.p, KDF_P_MAX) = k.p
    <3>1. /\ {KDF_M_KIB_MAX, KDF_T_MAX, KDF_P_MAX} \subseteq Nat \ {0}
          /\ k.m \in Int /\ k.t \in Int /\ k.p \in Int
      BY <2>1, OptionsAssumption
    <3> QED BY <2>1, <3>1, ClampInRange
  <2> QED BY <2>2 DEF setKdfParams
<1>3. [m |-> k.m, t |-> k.t, p |-> k.p] = k
  BY DEF ManualParams
<1> QED BY <1>1, <1>2, <1>3

LEMMA Remainder ==
  ASSUME NEW x \in Nat, NEW n \in Nat \ {0}
  PROVE  x % n \in 0 .. n - 1 /\ (x < n => x % n = x)
OBVIOUS

\* Options that give no parameters ask for a profile, whose memory is within the bounds.
LEMMA AskedKdf ==
  ASSUME NEW args \in Args, NEW kdf, Leads(args, kdf)
  PROVE  /\ kdf = Asked(args) <=> args.m * MIB < UINT32
         /\ kdf.t = Asked(args).t /\ kdf.p = Asked(args).p
         /\ kdf.m <= Asked(args).m
<1>1. resolveKdfParams(args) # None
      /\ kdf = setKdfParams(resolveKdfParams(args).profile, resolveKdfParams(args).kdf)
  BY DEF Leads
<1> DEFINE x == args.m * MIB
<1>2. args.m \in Nat /\ x \in Nat /\ UINT32 \in Nat \ {0} /\ (args.m = 0 => x = 0)
  BY ReadMetaAssumption, OptionsAssumption
<1>3. x % UINT32 \in 0 .. UINT32 - 1 /\ (x < UINT32 => x % UINT32 = x)
  <2> HIDE DEF x
  <2> QED BY <1>2, Remainder
<1>4. CASE Manual(args)
  <2> DEFINE default == Profiles["default"]
             t == Given(args.t, default.t)
             p == Given(args.p, default.p)
  <2>1. kdf = ManualParams(args)
    BY <1>1, <1>4, ManualTaken
  <2>2. CASE args.m = 0
    <3>1. kdf = [m |-> default.m, t |-> t, p |-> p] /\ Asked(args) = kdf
      BY <1>4, <2>1, <2>2 DEF ManualParams, Asked
    <3>2. x < UINT32 /\ kdf.m = default.m /\ default.m \in Nat
      <4>1. InRange(default)
        BY OptionsAssumption, ProfilesAssumption
      <4> QED BY <1>2, <2>2, <3>1, <4>1, OptionsAssumption DEF InRange
    <3> HIDE DEF default, t, p, x
    <3>3. kdf.t = Asked(args).t /\ kdf.p = Asked(args).p
      BY <3>1
    <3> QED BY <3>1, <3>2, <3>3 DEF x
  <2>3. CASE args.m # 0
    <3>1. kdf = [m |-> x % UINT32, t |-> t, p |-> p]
          /\ Asked(args) = [m |-> x, t |-> t, p |-> p]
      BY <1>4, <2>1, <2>3 DEF ManualParams, Asked
    <3> HIDE DEF default, t, p, x
    <3>2. kdf = Asked(args) <=> x % UINT32 = x
      BY <3>1
    <3>3. kdf.t = Asked(args).t /\ kdf.p = Asked(args).p
      BY <3>1
    <3>4. x % UINT32 <= x /\ (x % UINT32 = x <=> x < UINT32)
      BY <1>2, <1>3
    <3>5. kdf.m <= Asked(args).m
      BY <3>1, <3>4
    <3> QED BY <3>2, <3>3, <3>4, <3>5 DEF x
  <2> QED BY <2>2, <2>3
<1>5. CASE ~ Manual(args)
  <2>1. kdf = Asked(args) /\ args.m = 0
    BY <1>1, <1>5, OptionsAssumption DEF resolveKdfParams, setKdfParams, Asked, Manual
  <2>2. InRange(kdf)
    <3> DEFINE name == IF args.profile # None THEN args.profile ELSE "default"
    <3>1. kdf = Profiles[name] /\ name \in DOMAIN Profiles
      BY <1>1, <1>5, OptionsAssumption DEF resolveKdfParams, setKdfParams
    <3> QED BY <3>1, ProfilesAssumption
  <2>3. kdf.m \in Nat
    BY <2>2, OptionsAssumption DEF InRange
  <2>4. x < UINT32
    BY <1>2, <2>1
  <2> QED BY <2>1, <2>3, <2>4
<1> QED BY <1>4, <1>5

LEMMA AskedHash ==
  ASSUME NEW requested \in Requested, NEW cipher \in Ciphers,
         resolveHashWithFallback(requested, cipher) # None
  PROVE  LET asked == IF requested = None THEN defaultHashForCipher(cipher) ELSE requested
             taken == resolveHashWithFallback(requested, cipher)
         IN  \/ taken = asked
             \/ taken = "Streebog_256" /\ asked = "Streebog_512" /\ asked \notin Available
BY DEF resolveHashWithFallback

LEMMA WrittenAsAsked ==
  ASSUME own \in [kdf : Written, size : Sizes, hash : WrittenHash]
  PROVE  OptionsHonoured
<1>1. KdfAsAsked
  BY AskedKdf DEF KdfAsAsked
<1>2. own.hash # None
  BY DEF WrittenHash
<1>3. HashAsAsked
  BY <1>2, AskedHash DEF HashAsAsked
<1> QED BY <1>1, <1>3 DEF OptionsHonoured

-----------------------------------------------------------------------------
(***************************************************************************)
(* The invariant is inductive.                                             *)
(***************************************************************************)
LEMMA InitOpenInv == Init => OpenInv
<1> SUFFICES ASSUME Init PROVE OpenInv
  OBVIOUS
<1>1. Position
  BY DEF Init, Position, SlotSteps
<1>2. KeyInHand
  <2>1. kekDerived = FALSE /\ kekDerivations = 0 /\ pc = "slot"
    BY DEF Init
  <2>2. /\ kekDerivations \in 0 .. MAX_KEK_DERIVATIONS /\ kekDerivations < MAX_KEK_DERIVATIONS
        /\ pc \notin SlotSteps /\ pc # "derive"
    BY <2>1 DEF SlotSteps, MAX_KEK_DERIVATIONS
  <2> QED BY <2>1, <2>2, Zenon DEF KeyInHand
<1>3. Passed
  BY DEF Init, Passed, Accepted
<1>4. WholeSlotsBehind
  BY DEF Init, WholeSlotsBehind, WholeSlots, Slots, SLOT_COUNT
<1>5. DerivationsSpent
  BY DEF Init, DerivationsSpent
<1> QED BY <1>1, <1>2, <1>3, <1>4, <1>5 DEF OpenInv

\* A slot looked at is a record of booleans, a salt and parameters.
LEMMA HereIsSlot ==
  ASSUME Position, slot \in Slots
  PROVE  /\ own.kdf \in Written
         /\ Here \in Damages(own.kdf)
         /\ Here = [readable |-> Here.readable, cipherKnown |-> Here.cipherKnown,
                    salt |-> Here.salt, kdf |-> Here.kdf, body |-> Here.body,
                    table |-> Here.table]
         /\ Here.table \in BOOLEAN
<1>1. own.kdf \in Written /\ Here \in Damages(own.kdf)
  BY DEF Position, Here
<1> QED BY <1>1, ReadMetaAssumption

LEMMA HereWhole ==
  ASSUME slot \in WholeSlots
  PROVE  /\ Here = Whole(own.kdf)
         /\ Here.readable /\ Here.cipherKnown /\ Here.table
         /\ Here.kdf = own.kdf
         /\ KeyOf(Here) = OwnKey
         /\ [Here EXCEPT !.table = TRUE] = Whole(own.kdf)
<1>1. Here = Whole(own.kdf)
  BY DEF WholeSlots, Here
<1>2. /\ Whole(own.kdf).readable = TRUE
      /\ Whole(own.kdf).cipherKnown = TRUE
      /\ Whole(own.kdf).table = TRUE
  BY DEF Whole
<1>3. Whole(own.kdf).kdf = own.kdf
  BY DEF Whole
<1>4. [Whole(own.kdf) EXCEPT !.table = TRUE] = Whole(own.kdf)
  <2> DEFINE w == Whole(own.kdf)
  <2>1. w = [x \in DOMAIN w |-> w[x]]
    BY DEF Whole
  <2>2. w.table = TRUE
    BY <1>2
  <2> HIDE DEF w
  <2>3. [w EXCEPT !.table = TRUE] = w
    BY <2>1, <2>2
  <2> QED BY <2>3 DEF w
<1> QED BY <1>1, <1>2, <1>3, <1>4 DEF OwnKey

\* All but the table as written, and the table too: the slot is whole.
LEMMA PassedIsWhole ==
  ASSUME Position, slot \in Slots, [Here EXCEPT !.table = TRUE] = Whole(own.kdf), Here.table
  PROVE  slot \in WholeSlots
<1>1. [Here EXCEPT !.table = TRUE] = Here
  BY HereIsSlot
<1> QED BY <1>1 DEF WholeSlots, Here

\* On to the next slot: the one left is damaged, or was tried with another's key.
LEMMA NextSlotKeepsInv ==
  ASSUME OpenInv, NextSlot, UNCHANGED <<container, derivation>>, slot \in Slots,
         password = "right" /\ slot \in WholeSlots =>
           kekDerived /\ kekDerivations = MAX_KEK_DERIVATIONS /\ kekKey # OwnKey,
         password = "right" /\ kekDerivations >= 1 => \E i \in DamagedSlots : i <= slot,
         password = "right" /\ kekDerivations = 2 =>
           \E i, j \in DamagedSlots : i < j /\ j <= slot
  PROVE  OpenInv'
<1>1. /\ Position /\ KeyInHand /\ WholeSlotsBehind
      /\ pc' = "slot" /\ slot' = slot + 1 /\ slot \in 0 .. 3 /\ Slots \subseteq Nat
  BY DEF OpenInv, NextSlot, Slots, SLOT_COUNT
<1>2. UNCHANGED <<own, password, found, kekDerived, kekDerivations, kekKey, kek>>
  BY DEF container, derivation
<1>3. WholeSlots' = WholeSlots /\ DamagedSlots' = DamagedSlots /\ OwnKey' = OwnKey
  BY <1>2 DEF WholeSlots, DamagedSlots, OwnKey
<1>4. Position'
  BY <1>1, <1>2 DEF Position, SlotSteps
<1>5. KeyInHand'
  BY <1>1, <1>2 DEF KeyInHand, SlotSteps
<1>6. Passed'
  BY <1>1 DEF Passed, Accepted
<1>7. WholeSlotsBehind'
  <2> SUFFICES ASSUME password = "right", NEW i \in WholeSlots, i < slot + 1
               PROVE  kekDerived /\ kekDerivations = MAX_KEK_DERIVATIONS /\ kekKey # OwnKey
    BY <1>1, <1>2, <1>3 DEF WholeSlotsBehind
  <2>1. i < slot \/ i = slot
    BY <1>1 DEF WholeSlots
  <2> QED BY <1>1, <2>1 DEF WholeSlotsBehind
<1>8. DerivationsSpent'
  <2>1. password = "right" /\ kekDerivations >= 1 => OneBehind'
    BY <1>1, <1>3 DEF OneBehind, DamagedSlots
  <2>2. password = "right" /\ kekDerivations = 2 => TwoBehind'
    <3> SUFFICES ASSUME password = "right", kekDerivations = 2 PROVE TwoBehind'
      OBVIOUS
    <3>1. PICK i, j \in DamagedSlots : i < j /\ j <= slot
      OBVIOUS
    <3>2. i < j /\ j < slot'
      BY <1>1, <3>1 DEF DamagedSlots
    <3> QED BY <1>3, <3>1, <3>2 DEF TwoBehind
  <2> QED BY <1>1, <1>2, <2>1, <2>2 DEF DerivationsSpent
<1> QED BY <1>4, <1>5, <1>6, <1>7, <1>8 DEF OpenInv

\* What DerivationsSpent says between slots and before a derivation is enough.
LEMMA SpentSoFar ==
  ASSUME OpenInv, pc \in {"slot", "algorithms", "derive"}, password = "right"
  PROVE  /\ kekDerivations >= 1 => \E i \in DamagedSlots : i <= slot
         /\ kekDerivations = 2 => \E i, j \in DamagedSlots : i < j /\ j <= slot
<1>1. Slots \subseteq Nat /\ slot \in Nat
  BY DEF OpenInv, Position, Slots, SLOT_COUNT
<1>2. (kekDerivations >= 1 => OneBehind) /\ (kekDerivations = 2 => TwoBehind)
  BY DEF OpenInv, DerivationsSpent
<1> QED BY <1>1, <1>2 DEF OneBehind, TwoBehind, DamagedSlots

LEMMA UnreadableKeepsInv ==
  ASSUME OpenInv, Unreadable
  PROVE  OpenInv'
<1>1. slot \in Slots /\ NextSlot /\ pc = "slot" /\ UNCHANGED <<container, derivation>>
  BY DEF OpenInv, Position, Unreadable, Slots, SLOT_COUNT
<1>2. slot \notin WholeSlots
  BY HereWhole DEF Unreadable
<1> QED BY <1>1, <1>2, SpentSoFar, NextSlotKeepsInv

\* Steps that stay in the slot leave what is behind it as it was.
LEMMA StayingKeepsBehind ==
  ASSUME OpenInv, UNCHANGED <<container, slot>>
  PROVE  /\ UNCHANGED <<own, password, found, slot>>
         /\ Here' = Here
         /\ WholeSlots' = WholeSlots /\ DamagedSlots' = DamagedSlots /\ OwnKey' = OwnKey
         /\ OneBehind' <=> OneBehind
         /\ TwoBehind' <=> TwoBehind
<1>1. UNCHANGED <<own, password, found, slot>>
  BY DEF container
<1>2. WholeSlots' = WholeSlots /\ DamagedSlots' = DamagedSlots /\ OwnKey' = OwnKey
  BY <1>1 DEF WholeSlots, DamagedSlots, OwnKey
<1> QED BY <1>1, <1>2 DEF Here, OneBehind, TwoBehind

LEMMA ReadHeaderKeepsInv ==
  ASSUME OpenInv, ReadHeader
  PROVE  OpenInv'
<1>1. /\ pc = "slot" /\ pc' = "algorithms" /\ slot \in Slots
      /\ UNCHANGED <<container, slot, kekDerivations, kekKey, kek>>
  BY DEF OpenInv, Position, ReadHeader, Slots, SLOT_COUNT
<1>2. /\ Position /\ KeyInHand /\ WholeSlotsBehind /\ DerivationsSpent
      /\ UNCHANGED <<own, password, found, slot>>
      /\ Here' = Here /\ WholeSlots' = WholeSlots /\ OwnKey' = OwnKey
      /\ (OneBehind' <=> OneBehind) /\ (TwoBehind' <=> TwoBehind)
  BY <1>1, StayingKeepsBehind DEF OpenInv
<1>3. /\ kekDerived' \in BOOLEAN
      /\ kekDerived' => kekDerived
      /\ kekDerived' => KeyOf(Here) = kekKey \/ kekDerivations = MAX_KEK_DERIVATIONS
      /\ ~ kekDerived' => kekDerivations < MAX_KEK_DERIVATIONS
      /\ kekDerived /\ kekDerivations = MAX_KEK_DERIVATIONS => kekDerived'
  <2>1. /\ kekDerived \in BOOLEAN
        /\ ~ kekDerived => kekDerivations < MAX_KEK_DERIVATIONS
    BY <1>2 DEF KeyInHand
  <2>2. kekDerived' =
          (kekDerived /\ (KeyOf(Here) = kekKey \/ kekDerivations >= MAX_KEK_DERIVATIONS))
    BY DEF ReadHeader
  <2>3. /\ kekDerivations >= MAX_KEK_DERIVATIONS <=> kekDerivations = MAX_KEK_DERIVATIONS
        /\ ~ (kekDerivations >= MAX_KEK_DERIVATIONS) => kekDerivations < MAX_KEK_DERIVATIONS
    BY <1>2 DEF KeyInHand, MAX_KEK_DERIVATIONS
  <2> QED BY <2>1, <2>2, <2>3, Zenon
<1>4. Position'
  BY <1>1, <1>2 DEF Position, SlotSteps, ReadHeader
<1>5. KeyInHand'
  <2>1. kekDerivations' = kekDerivations /\ kekKey' = kekKey /\ kek' = kek
    BY <1>1
  <2>2. KeyOf(Here)' = KeyOf(Here)
    BY <1>2
  <2>3. pc' # "derive" /\ pc' \notin SlotSteps \ {"algorithms", "derive"}
    BY <1>1
  <2> QED BY <1>2, <1>3, <2>1, <2>2, <2>3 DEF KeyInHand
<1>6. Passed'
  BY <1>1 DEF Passed, Accepted
<1>7. WholeSlotsBehind'
  BY <1>1, <1>2, <1>3 DEF WholeSlotsBehind
<1>8. DerivationsSpent'
  BY <1>1, <1>2 DEF DerivationsSpent
<1> QED BY <1>4, <1>5, <1>6, <1>7, <1>8 DEF OpenInv

LEMMA SetAlgorithmsKeepsInv ==
  ASSUME OpenInv, SetAlgorithms
  PROVE  OpenInv'
<1>1. /\ pc = "algorithms" /\ slot \in Slots /\ Here.readable
      /\ Position /\ KeyInHand /\ WholeSlotsBehind /\ DerivationsSpent
      /\ UNCHANGED <<container, derivation>>
  BY DEF OpenInv, Position, SetAlgorithms, SlotSteps
<1>2. CASE ~ Here.cipherKnown
  <2>1. NextSlot
    BY <1>2 DEF SetAlgorithms
  <2>2. slot \notin WholeSlots
    BY <1>2, HereWhole
  <2> QED BY <1>1, <2>1, <2>2, SpentSoFar, NextSlotKeepsInv
<1>3. CASE Here.cipherKnown
  <2>1. /\ slot' = slot
        /\ pc' = IF kekDerived THEN "verify" ELSE "derive"
    BY <1>3 DEF SetAlgorithms
  <2>2. /\ UNCHANGED <<own, password, found, slot, kekDerived, kekDerivations, kekKey, kek>>
        /\ Here' = Here /\ WholeSlots' = WholeSlots /\ OwnKey' = OwnKey
        /\ (OneBehind' <=> OneBehind) /\ (TwoBehind' <=> TwoBehind)
    BY <1>1, <2>1, StayingKeepsBehind DEF derivation
  <2>3. Position'
    BY <1>1, <1>3, <2>1, <2>2 DEF Position, SlotSteps
  <2>4. KeyInHand'
    BY <1>1, <2>1, <2>2 DEF KeyInHand, SlotSteps
  <2>5. Passed'
    BY <2>1 DEF Passed, Accepted
  <2>6. WholeSlotsBehind'
    BY <1>1, <2>2 DEF WholeSlotsBehind
  <2>7. DerivationsSpent'
    <3>1. kekDerived /\ kekKey # KeyOf(Here) => kekDerivations = 2
      BY <1>1 DEF KeyInHand, SlotSteps, MAX_KEK_DERIVATIONS
    <3> QED BY <1>1, <2>1, <2>2, <3>1 DEF DerivationsSpent
  <2> QED BY <2>3, <2>4, <2>5, <2>6, <2>7 DEF OpenInv
<1> QED BY <1>2, <1>3

LEMMA DeriveFailsKeepsInv ==
  ASSUME OpenInv, DeriveFails
  PROVE  OpenInv'
<1>1. /\ pc = "derive" /\ slot \in Slots /\ own.kdf \in Written
      /\ NextSlot /\ UNCHANGED <<container, derivation>>
  BY HereIsSlot DEF OpenInv, Position, DeriveFails, SlotSteps
<1>2. slot \notin WholeSlots
  <2> SUFFICES ASSUME slot \in WholeSlots PROVE FALSE
    OBVIOUS
  <2>1. Here = Whole(own.kdf)
    BY HereWhole
  <2> QED BY <1>1, <2>1, WholeCanBeDerived DEF DeriveFails
<1> QED BY <1>1, <1>2, SpentSoFar, NextSlotKeepsInv

LEMMA DeriveKekKeepsInv ==
  ASSUME OpenInv, DeriveKek
  PROVE  OpenInv'
<1>1. /\ pc = "derive" /\ pc' = "verify" /\ UNCHANGED <<container, slot>>
      /\ kek' = [password |-> password, key |-> KeyOf(Here)]
      /\ kekKey' = KeyOf(Here) /\ kekDerived' = TRUE /\ kekDerivations' = kekDerivations + 1
      /\ Position /\ KeyInHand /\ WholeSlotsBehind /\ DerivationsSpent
  BY DEF OpenInv, DeriveKek
<1>2. /\ UNCHANGED <<own, password, found, slot>>
      /\ Here' = Here /\ WholeSlots' = WholeSlots /\ OwnKey' = OwnKey
      /\ (OneBehind' <=> OneBehind) /\ (TwoBehind' <=> TwoBehind)
  BY <1>1, StayingKeepsBehind
<1>3. ~ kekDerived
  BY <1>1 DEF KeyInHand
<1>4. kekDerivations \in {0, 1} /\ kekDerivations' \in 0 .. MAX_KEK_DERIVATIONS
  BY <1>1, <1>3 DEF KeyInHand, MAX_KEK_DERIVATIONS
<1>5. Position'
  BY <1>1, <1>2 DEF Position, SlotSteps
<1>6. KeyInHand'
  BY <1>1, <1>2, <1>4, Zenon DEF KeyInHand
<1>7. Passed'
  BY <1>1 DEF Passed, Accepted
<1>8. WholeSlotsBehind'
  BY <1>1, <1>2, <1>3 DEF WholeSlotsBehind
<1>9. DerivationsSpent'
  BY <1>1, <1>2, <1>4 DEF DerivationsSpent
<1> QED BY <1>5, <1>6, <1>7, <1>8, <1>9 DEF OpenInv

LEMMA VerifyKeepsInv ==
  ASSUME OpenInv, Verify
  PROVE  OpenInv'
<1> DEFINE right == [password |-> "right", key |-> OwnKey]
           passes == kek = right /\ [Here EXCEPT !.table = TRUE] = Whole(own.kdf)
<1>1. /\ pc = "verify" /\ slot \in Slots /\ Slots \subseteq Nat
      /\ Position /\ KeyInHand /\ WholeSlotsBehind /\ DerivationsSpent
      /\ UNCHANGED <<container, derivation>>
  BY DEF OpenInv, Position, Verify, SlotSteps, Slots, SLOT_COUNT
<1>2. CASE passes
  <2>1. pc' = "table" /\ slot' = slot
    BY <1>2 DEF Verify
  <2>2. /\ UNCHANGED <<own, password, found, slot, kekDerived, kekDerivations, kekKey, kek>>
        /\ Here' = Here /\ WholeSlots' = WholeSlots /\ OwnKey' = OwnKey
        /\ (OneBehind' <=> OneBehind) /\ (TwoBehind' <=> TwoBehind)
    BY <1>1, <2>1, StayingKeepsBehind DEF derivation
  <2>3. Position'
    BY <1>1, <2>1, <2>2 DEF Position, SlotSteps
  <2>4. KeyInHand'
    BY <1>1, <2>1, <2>2 DEF KeyInHand, SlotSteps
  <2>5. Passed'
    BY <1>2, <2>1, <2>2 DEF Passed, Accepted
  <2>6. WholeSlotsBehind'
    BY <1>1, <2>2 DEF WholeSlotsBehind
  <2>7. DerivationsSpent'
    BY <1>1, <2>1, <2>2 DEF DerivationsSpent
  <2> QED BY <2>3, <2>4, <2>5, <2>6, <2>7 DEF OpenInv
<1>3. CASE ~ passes
  <2>1. NextSlot
    BY <1>3 DEF Verify
  <2>2. /\ kekDerived
        /\ kek = [password |-> password, key |-> kekKey]
        /\ kekKey = KeyOf(Here) \/ kekDerivations = MAX_KEK_DERIVATIONS
    BY <1>1 DEF KeyInHand, SlotSteps
  <2>3. password = "right" /\ slot \in WholeSlots => kekKey # OwnKey
    BY <1>3, <2>2, HereWhole
  <2>4. password = "right" /\ slot \in WholeSlots =>
          kekKey # KeyOf(Here) /\ kekDerivations = MAX_KEK_DERIVATIONS
    BY <2>2, <2>3, HereWhole
  <2>5. password = "right" /\ kekDerivations >= 1 => \E i \in DamagedSlots : i <= slot
    <3> SUFFICES ASSUME password = "right" PROVE \E i \in DamagedSlots : i <= slot
      OBVIOUS
    <3>1. CASE kekDerivations = 2
      BY <1>1, <3>1 DEF DerivationsSpent, OneBehind, DamagedSlots
    <3>2. CASE kekDerivations # 2
      BY <1>1, <2>4, <3>2 DEF DamagedSlots, MAX_KEK_DERIVATIONS
    <3> QED BY <3>1, <3>2
  <2>6. password = "right" /\ kekDerivations = 2 =>
          \E i, j \in DamagedSlots : i < j /\ j <= slot
    <3> SUFFICES ASSUME password = "right", kekDerivations = 2
                 PROVE  \E i, j \in DamagedSlots : i < j /\ j <= slot
      OBVIOUS
    <3>1. CASE kekKey # KeyOf(Here)
      BY <1>1, <3>1 DEF DerivationsSpent, TwoBehind, DamagedSlots
    <3>2. CASE kekKey = KeyOf(Here)
      <4>1. slot \in DamagedSlots /\ slot <= slot
        BY <1>1, <2>4, <3>2 DEF DamagedSlots
      <4>2. OneBehind
        BY <1>1 DEF DerivationsSpent
      <4> QED BY <4>1, <4>2 DEF OneBehind
    <3> QED BY <3>1, <3>2
  <2> QED BY <1>1, <2>1, <2>2, <2>3, <2>4, <2>5, <2>6, NextSlotKeepsInv
<1> QED BY <1>2, <1>3

LEMMA ReadFilesTableKeepsInv ==
  ASSUME OpenInv, ReadFilesTable
  PROVE  OpenInv'
<1>1. /\ pc = "table" /\ slot \in Slots /\ Slots \subseteq Nat
      /\ Position /\ KeyInHand /\ Passed /\ WholeSlotsBehind /\ DerivationsSpent
      /\ UNCHANGED <<container, derivation>>
  BY DEF OpenInv, Position, ReadFilesTable, SlotSteps, Slots, SLOT_COUNT
<1>2. CASE Here.table
  <2>1. pc' = "size" /\ slot' = slot
    BY <1>2 DEF ReadFilesTable
  <2>2. /\ UNCHANGED <<own, password, found, slot, kekDerived, kekDerivations, kekKey, kek>>
        /\ Here' = Here /\ WholeSlots' = WholeSlots /\ OwnKey' = OwnKey
    BY <1>1, <2>1, StayingKeepsBehind DEF derivation
  <2>3. Position'
    BY <1>1, <2>1, <2>2 DEF Position, SlotSteps
  <2>4. KeyInHand'
    BY <1>1, <2>1, <2>2 DEF KeyInHand, SlotSteps
  <2>5. Passed'
    BY <1>1, <1>2, <2>1, <2>2 DEF Passed, Accepted
  <2>6. WholeSlotsBehind'
    BY <1>1, <2>2 DEF WholeSlotsBehind
  <2>7. DerivationsSpent'
    BY <2>1 DEF DerivationsSpent
  <2> QED BY <2>3, <2>4, <2>5, <2>6, <2>7 DEF OpenInv
<1>3. CASE ~ Here.table
  <2>1. NextSlot
    BY <1>3 DEF ReadFilesTable
  <2>2. slot \notin WholeSlots
    BY <1>3, HereWhole
  <2>3. slot \in DamagedSlots /\ slot <= slot
    BY <1>1, <2>2 DEF DamagedSlots
  <2>4. password = "right" /\ kekDerivations = 2 => OneBehind
    BY <1>1 DEF DerivationsSpent
  <2> QED BY <1>1, <2>1, <2>2, <2>3, <2>4, NextSlotKeepsInv DEF OneBehind
<1> QED BY <1>2, <1>3

LEMMA EndKeepsInv ==
  ASSUME OpenInv, CheckSize \/ Refuse
  PROVE  OpenInv'
<1>1. /\ \/ pc = "size" /\ pc' \in {"too_small", "opened"}
         \/ pc = "slot" /\ slot >= SLOT_COUNT /\ pc' = "refused"
      /\ UNCHANGED <<container, slot, derivation>>
      /\ Position /\ KeyInHand /\ Passed /\ WholeSlotsBehind /\ DerivationsSpent
  BY DEF OpenInv, CheckSize, Refuse
<1>2. /\ UNCHANGED <<own, password, found, slot, kekDerived, kekDerivations, kekKey, kek>>
      /\ Here' = Here /\ WholeSlots' = WholeSlots /\ OwnKey' = OwnKey
      /\ (OneBehind' <=> OneBehind) /\ (TwoBehind' <=> TwoBehind)
  BY <1>1, StayingKeepsBehind DEF derivation
<1>3. Position'
  BY <1>1, <1>2 DEF Position, SlotSteps
<1>4. KeyInHand'
  BY <1>1, <1>2 DEF KeyInHand, SlotSteps
<1>5. Passed'
  BY <1>1, <1>2 DEF Passed, Accepted
<1>6. WholeSlotsBehind'
  BY <1>1, <1>2 DEF WholeSlotsBehind
<1>7. DerivationsSpent'
  BY <1>1, <1>2 DEF DerivationsSpent
<1> QED BY <1>3, <1>4, <1>5, <1>6, <1>7 DEF OpenInv

LEMMA NextKeepsInv == OpenInv /\ [Next]_vars => OpenInv'
<1> SUFFICES ASSUME OpenInv, [Next]_vars PROVE OpenInv'
  OBVIOUS
<1>1. CASE Next
  BY <1>1, UnreadableKeepsInv, ReadHeaderKeepsInv, SetAlgorithmsKeepsInv, DeriveFailsKeepsInv,
     DeriveKekKeepsInv, VerifyKeepsInv, ReadFilesTableKeepsInv, EndKeepsInv
     DEF Next, readMeta
<1>2. CASE UNCHANGED vars
  <2>1. UNCHANGED <<own, password, found, pc, slot, kekDerived, kekDerivations, kekKey, kek>>
    BY <1>2 DEF vars
  <2>2. /\ Here' = Here /\ WholeSlots' = WholeSlots /\ OwnKey' = OwnKey
        /\ (OneBehind' <=> OneBehind) /\ (TwoBehind' <=> TwoBehind)
    BY <2>1, StayingKeepsBehind DEF container
  <2>3. Position' /\ KeyInHand' /\ Passed'
    BY <2>1, <2>2 DEF OpenInv, Position, KeyInHand, Passed, Accepted
  <2>4. WholeSlotsBehind' /\ DerivationsSpent'
    BY <2>1, <2>2 DEF OpenInv, WholeSlotsBehind, DerivationsSpent
  <2> QED BY <2>3, <2>4 DEF OpenInv
<1> QED BY <1>1, <1>2

\* Whatever the damage, at every step of an open the key in hand, what has passed and
\* what lies behind are as OpenInv says.
THEOREM OpenInvariant == Spec => []OpenInv
BY InitOpenInv, NextKeepsInv, PTL DEF Spec

-----------------------------------------------------------------------------
(***************************************************************************)
(* What follows from it.                                                   *)
(***************************************************************************)

\* Under any damage of the four slots, nothing opens but the first slot that is as it
\* was written, and that only with the right password.
THEOREM FirstWholeSlotIsTaken == Spec => []FirstWholeSlotOpens
<1>1. OpenInv => FirstWholeSlotOpens
  <2> SUFFICES ASSUME OpenInv, Accepted
               PROVE  /\ password = "right" /\ slot \in WholeSlots
                      /\ \A i \in WholeSlots : slot <= i
    BY DEF FirstWholeSlotOpens
  <2>1. /\ slot \in Slots /\ kekDerived
        /\ kek = [password |-> "right", key |-> OwnKey]
        /\ kek = [password |-> password, key |-> kekKey]
        /\ [Here EXCEPT !.table = TRUE] = Whole(own.kdf) /\ Here.table
    BY DEF OpenInv, Position, KeyInHand, Passed, Accepted, SlotSteps
  <2>2. password = "right" /\ kekKey = OwnKey
    BY <2>1
  <2>3. slot \in WholeSlots
    BY <2>1, PassedIsWhole DEF OpenInv
  <2>4. \A i \in WholeSlots : ~ (i < slot)
    BY <2>2 DEF OpenInv, WholeSlotsBehind
  <2>5. WholeSlots \subseteq Nat /\ slot \in Nat
    BY <2>1 DEF WholeSlots, Slots, SLOT_COUNT
  <2> QED BY <2>2, <2>3, <2>4, <2>5
<1> QED BY <1>1, OpenInvariant, PTL

LEMMA TwoAreTwo ==
  ASSUME TwoBehind
  PROVE  Cardinality(Slots \ WholeSlots) >= 2
<1>1. PICK i, j \in DamagedSlots : i < j
  BY DEF TwoBehind
<1>2. Slots \subseteq Int /\ IsFiniteSet(Slots)
  <2>1. Slots = 0 .. 3
    BY DEF Slots, SLOT_COUNT
  <2>2. IsFiniteSet(0 .. 3)
    <3>1. 0 \in Int /\ 3 \in Int
      OBVIOUS
    <3> QED BY <3>1, FS_Interval, Zenon
  <2> QED BY <2>1, <2>2
<1>3. j \notin {i}
  BY <1>1, <1>2 DEF DamagedSlots
<1>4. IsFiniteSet({i} \cup {j}) /\ Cardinality({i} \cup {j}) = 2
  <2>1. IsFiniteSet({i}) /\ Cardinality({i}) = 1
    BY FS_Singleton
  <2>2. /\ IsFiniteSet({i} \cup {j})
        /\ Cardinality({i} \cup {j}) = Cardinality({i}) + 1
    BY <1>3, <2>1, FS_AddElement
  <2> QED BY <2>1, <2>2
<1>5. {i} \cup {j} \in SUBSET DamagedSlots /\ DamagedSlots \in SUBSET Slots
  BY DEF DamagedSlots
<1>6. IsFiniteSet(DamagedSlots)
  BY <1>2, <1>5, FS_Subset
<1>7. Cardinality({i} \cup {j}) <= Cardinality(DamagedSlots) /\ Cardinality(DamagedSlots) \in Nat
  BY <1>5, <1>6, FS_Subset, FS_CardinalityType
<1> QED BY <1>4, <1>7 DEF DamagedSlots

\* An owner with the right password is refused only if no slot is whole or both
\* derivations went to two damaged ones.
THEOREM RefusalHasItsReason == Spec => []RefusalExplained
<1>1. OpenInv => RefusalExplained
  <2> SUFFICES ASSUME OpenInv, pc = "refused", password = "right", WholeSlots # {}
               PROVE  /\ kekDerivations = MAX_KEK_DERIVATIONS /\ kekKey # OwnKey
                      /\ Cardinality(Slots \ WholeSlots) >= 2
    BY DEF RefusalExplained
  <2>1. PICK i \in WholeSlots : TRUE
    OBVIOUS
  <2>2. i < slot
    BY <2>1 DEF OpenInv, Position, WholeSlots, Slots, SLOT_COUNT
  <2>3. kekDerivations = MAX_KEK_DERIVATIONS /\ kekKey # OwnKey
    BY <2>2 DEF OpenInv, WholeSlotsBehind
  <2>4. TwoBehind
    BY <2>3 DEF OpenInv, DerivationsSpent, MAX_KEK_DERIVATIONS
  <2> QED BY <2>3, <2>4, TwoAreTwo
<1> QED BY <1>1, OpenInvariant, PTL

\* For any options create accepts, any profiles and any bounds: a container has the hash
\* asked for, the passes and lanes asked for, and the memory asked for exactly when that
\* many KiB fit in 32 bits; beyond them it has less.
THEOREM OptionsAreHonoured == Spec => []OptionsHonoured
<1>1. OpenInv => OptionsHonoured
  BY WrittenAsAsked DEF OpenInv, Position
<1> QED BY <1>1, OpenInvariant, PTL
=============================================================================
