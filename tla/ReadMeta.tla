------------------------------ MODULE ReadMeta ------------------------------
(***************************************************************************)
(* FileManager::readMeta: the four slots are tried in order.  A key is     *)
(* derived from the password, the salt and the parameters found in a slot, *)
(* which costs seconds; so it is kept for the next slots, and derived anew *)
(* at most once.  Whatever fails in a slot, the next one is tried.         *)
(*                                                                         *)
(* Any damage may have come to any slot; cryptography is taken as sound: a *)
(* header passes under the key and with the bytes it was written with.     *)
(***************************************************************************)
EXTENDS CreateOptions, FiniteSets

CONSTANTS Args,                    \* what the command line may be asked for
          GuiParams,               \* what the GUI may ask for
          Sizes,                   \* sizes of container create accepts
          MINIMAL_CONTAINER_SIZE,
          MEMORY,                  \* KiB a derivation certainly gets
          Damages(_)               \* slots as they may be found, of one written so

SLOT_COUNT == 4
Slots == 0 .. SLOT_COUNT - 1
MAX_KEK_DERIVATIONS == 2

\* What create may have written: key derivation parameters and hash.
Written ==
  {setKdfParams(r.profile, r.kdf) : r \in {resolveKdfParams(args) : args \in Args} \ {None}}
    \cup {setKdfParams(None, kdf) : kdf \in GuiParams}
Requested == {"SHA_256", "Streebog_256", "Streebog_512", None}
Ciphers == {"AES", "Kuznechik"}
WrittenHash ==
  {resolveHashWithFallback(requested, cipher) : requested \in Requested, cipher \in Ciphers}
    \ {None}

VARIABLES
  own,             \* what create wrote into every header: parameters, size and hash
  password,        \* "right" or "wrong"
  found,           \* the slots as they are found
  pc,
  slot,            \* the slot being tried
  kekDerived,
  kekDerivations,
  kekKey,          \* kekSalt, kekMKib, kekT and kekP
  kek              \* what the key was derived from, None before

vars == <<own, password, found, pc, slot, kekDerived, kekDerivations, kekKey, kek>>
container == <<own, password, found>>
derivation == <<kekDerived, kekDerivations, kekKey, kek>>

\* A slot as it was written.  readable: magic, version and hash id; body: all
\* other bytes of the header that no step before the HMAC looks at.
Whole(kdf) ==
  [readable |-> TRUE, cipherKnown |-> TRUE, salt |-> "own", kdf |-> kdf,
   body |-> TRUE, table |-> TRUE]

\* Options are numbers, slots are records of these fields, and whoever opens a
\* container has the memory its own key takes.
ASSUME ReadMetaAssumption ==
  /\ \A args \in Args \cup GuiParams : args.m \in Nat /\ args.t \in Nat /\ args.p \in Nat
  /\ MEMORY \in Nat
  /\ \A kdf \in Written :
       /\ InRange(kdf) => kdf.m <= MEMORY
       /\ \A s \in Damages(kdf) :
            /\ s = [readable |-> s.readable, cipherKnown |-> s.cipherKnown, salt |-> s.salt,
                    kdf |-> s.kdf, body |-> s.body, table |-> s.table]
            /\ {s.readable, s.cipherKnown, s.body, s.table} \subseteq BOOLEAN

KeyOf(s) == [salt |-> s.salt, kdf |-> s.kdf]
OwnKey == KeyOf(Whole(own.kdf))

Init ==
  /\ own \in [kdf : Written, size : Sizes, hash : WrittenHash]
  /\ password \in {"right", "wrong"}
  /\ found \in [Slots -> Damages(own.kdf)]
  /\ pc = "slot"
  /\ slot = 0
  /\ kekDerived = FALSE
  /\ kekDerivations = 0
  /\ kekKey = None
  /\ kek = None

Here == found[slot]

\* Mutated: the slot after the next one.
SkipSlot == pc' = "slot" /\ slot' = slot + 2

\* Whatever is thrown in a slot leads to the next one.
NextSlot == pc' = "slot" /\ slot' = slot + 1

Unreadable ==
  /\ pc = "slot" /\ slot < SLOT_COUNT
  /\ ~ Here.readable
  /\ NextSlot
  /\ UNCHANGED <<container, derivation>>

\* Mutated: the key is kept whatever the slot says.
ReadHeaderKeepingKey ==
  /\ pc = "slot" /\ slot < SLOT_COUNT
  /\ Here.readable
  /\ pc' = "algorithms"
  /\ UNCHANGED <<container, slot, derivation>>

\* A slot that asks for another key has it derived while the budget lasts.
ReadHeader ==
  /\ pc = "slot" /\ slot < SLOT_COUNT
  /\ Here.readable
  /\ kekDerived' =
       (kekDerived /\ (KeyOf(Here) = kekKey \/ kekDerivations >= MAX_KEK_DERIVATIONS))
  /\ pc' = "algorithms"
  /\ UNCHANGED <<container, slot, kekDerivations, kekKey, kek>>

\* setCipher throws for an id it does not know; the hash id was checked before.
SetAlgorithms ==
  /\ pc = "algorithms"
  /\ \/ /\ ~ Here.cipherKnown
        /\ NextSlot
     \/ /\ Here.cipherKnown
        /\ pc' = IF kekDerived THEN "verify" ELSE "derive"
        /\ slot' = slot
  /\ UNCHANGED <<container, derivation>>

\* Parameters out of range, or more memory than there is: nothing is counted.
DeriveFails ==
  /\ pc = "derive"
  /\ ~ InRange(Here.kdf) \/ Here.kdf.m > MEMORY
  /\ NextSlot
  /\ UNCHANGED <<container, derivation>>

DeriveKek ==
  /\ pc = "derive"
  /\ InRange(Here.kdf)
  /\ kek' = [password |-> password, key |-> KeyOf(Here)]
  /\ kekKey' = KeyOf(Here)
  /\ kekDerived' = TRUE
  /\ kekDerivations' = kekDerivations + 1
  /\ pc' = "verify"
  /\ UNCHANGED <<container, slot>>

\* verifyHeaderHmac and unwrapDekFromHeader.  The latter's fields are among the
\* bytes the HMAC covers.
Verify ==
  /\ pc = "verify"
  /\ IF /\ kek = [password |-> "right", key |-> OwnKey]
        /\ [Here EXCEPT !.table = TRUE] = Whole(own.kdf)
     THEN pc' = "table" /\ slot' = slot
     ELSE NextSlot
  /\ UNCHANGED <<container, derivation>>

ReadFilesTable ==
  /\ pc = "table"
  /\ IF Here.table THEN pc' = "size" /\ slot' = slot ELSE NextSlot
  /\ UNCHANGED <<container, derivation>>

CheckSize ==
  /\ pc = "size"
  /\ pc' = IF own.size < MINIMAL_CONTAINER_SIZE THEN "too_small" ELSE "opened"
  /\ UNCHANGED <<container, slot, derivation>>

Refuse ==
  /\ pc = "slot" /\ slot >= SLOT_COUNT
  /\ pc' = "refused"
  /\ UNCHANGED <<container, slot, derivation>>

readMeta ==
  \/ Unreadable \/ ReadHeader \/ SetAlgorithms \/ DeriveFails \/ DeriveKek
  \/ Verify \/ ReadFilesTable \/ CheckSize \/ Refuse

Next == readMeta

Spec == Init /\ [][Next]_vars

-----------------------------------------------------------------------------
(***************************************************************************)
(* Properties.                                                             *)
(***************************************************************************)
WholeSlots == {i \in Slots : found[i] = Whole(own.kdf)}
Accepted == pc \in {"size", "opened", "too_small"}

\* What is opened is a slot as it was written, under the right password, and no
\* such slot was passed over, though the key in hand may have been derived for
\* another one.
FirstWholeSlotOpens ==
  Accepted =>
    /\ password = "right" /\ slot \in WholeSlots
    /\ \A i \in WholeSlots : slot <= i

\* A container is refused under the right password only when no slot is whole,
\* or when both derivations went to damaged slots in front, the last to one whose
\* salt or parameters had changed: one damaged slot, whatever the damage, never
\* keeps the owner out.
RefusalExplained ==
  pc = "refused" /\ password = "right" /\ WholeSlots # {} =>
    /\ kekDerivations = MAX_KEK_DERIVATIONS
    /\ kekKey # OwnKey
    /\ Cardinality(Slots \ WholeSlots) >= 2

\* Options that lead to these parameters.
Leads(args, kdf) ==
  LET r == resolveKdfParams(args) IN r # None /\ setKdfParams(r.profile, r.kdf) = kdf

\* For whatever options create accepts: the container has the parameters they ask for
\* exactly when the memory asked for, in KiB, is a uint32_t, and less memory when it is
\* not (commands.cpp:88 multiplies before the range is checked).  Clamping changes
\* nothing that resolveKdfParams has let pass, and passes and lanes are as asked always.
KdfAsAsked ==
  \A args \in Args : Leads(args, own.kdf) =>
    /\ own.kdf = Asked(args) <=> args.m * MIB < UINT32
    /\ own.kdf.t = Asked(args).t /\ own.kdf.p = Asked(args).p
    /\ own.kdf.m <= Asked(args).m

\* "An explicit --hash streebog256 that is unavailable is a hard error": the container
\* has the hash it was asked for, or the shorter form of a Streebog-512 there is not.
HashAsAsked ==
  \A requested \in Requested, cipher \in Ciphers :
    LET asked == IF requested = None THEN defaultHashForCipher(cipher) ELSE requested
    IN  resolveHashWithFallback(requested, cipher) = own.hash =>
          \/ own.hash = asked
          \/ own.hash = "Streebog_256" /\ asked = "Streebog_512" /\ asked \notin Available

\* A container has the hash create was asked for, and its parameters unless the memory
\* asked for does not fit in 32 bits.
OptionsHonoured == KdfAsAsked /\ HashAsAsked
=============================================================================
