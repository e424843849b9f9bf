---------------------------- MODULE CreateOptions ----------------------------
(***************************************************************************)
(* How create finds the key derivation parameters and the hash of a new    *)
(* container from what it is asked for: resolveKdfParams of the command    *)
(* line, setKdfParams of FileManager, and the fallback of hashes.          *)
(***************************************************************************)
EXTENDS Integers

CONSTANTS MIB,              \* KiB in a MiB
          UINT32,           \* values of a uint32_t
          KDF_M_KIB_MAX, KDF_T_MAX, KDF_P_MAX,
          Profiles,         \* name of a profile -> its parameters
          Available,        \* hashes the Botan build has
          None

ASSUME OptionsAssumption ==
  /\ {MIB, UINT32, KDF_M_KIB_MAX, KDF_T_MAX, KDF_P_MAX} \subseteq Nat \ {0}
  /\ KDF_M_KIB_MAX < UINT32
  /\ "default" \in DOMAIN Profiles /\ None \notin DOMAIN Profiles

\* KDF_M_KIB_MIN, KDF_T_MIN and KDF_P_MIN are 1.
InRange(kdf) ==
  kdf.m \in 1 .. KDF_M_KIB_MAX /\ kdf.t \in 1 .. KDF_T_MAX /\ kdf.p \in 1 .. KDF_P_MAX

ASSUME ProfilesAssumption == \A name \in DOMAIN Profiles : InRange(Profiles[name])

\* 0 stands for an option that was not given.
Given(option, default) == IF option # 0 THEN option ELSE default

\* --kdf-m is in MiB and multiplied in 32 bits.
Manual(args) == args.m # 0 \/ args.t # 0 \/ args.p # 0
ManualParams(args) ==
  LET default == Profiles["default"]
  IN  [m |-> IF args.m # 0 THEN (args.m * MIB) % UINT32 ELSE default.m,
       t |-> Given(args.t, default.t),
       p |-> Given(args.p, default.p)]

\* What the caller wrote, in numbers of any size.
Asked(args) ==
  LET default == Profiles["default"]
  IN  IF Manual(args)
      THEN [m |-> IF args.m # 0 THEN args.m * MIB ELSE default.m,
            t |-> Given(args.t, default.t),
            p |-> Given(args.p, default.p)]
      ELSE Profiles[IF args.profile # None THEN args.profile ELSE "default"]

\* Mutated: passes and lanes are not held against their range.
resolveUnchecked(args) ==
  IF Manual(args)
  THEN IF args.profile # None \/ ManualParams(args).m \notin 1 .. KDF_M_KIB_MAX
       THEN None
       ELSE [profile |-> None, kdf |-> ManualParams(args)]
  ELSE LET name == IF args.profile # None THEN args.profile ELSE "default"
       IN  IF name \in DOMAIN Profiles
           THEN [profile |-> name, kdf |-> Profiles[name]]
           ELSE None

\* A profile or manual parameters within the bounds, never both; None is an error.
resolveKdfParams(args) ==
  IF Manual(args)
  THEN IF args.profile # None \/ ~ InRange(ManualParams(args))
       THEN None
       ELSE [profile |-> None, kdf |-> ManualParams(args)]
  ELSE LET name == IF args.profile # None THEN args.profile ELSE "default"
       IN  IF name \in DOMAIN Profiles
           THEN [profile |-> name, kdf |-> Profiles[name]]
           ELSE None

Clamp(x, max) == IF x < 1 THEN 1 ELSE IF x > max THEN max ELSE x

\* A profile brings its own parameters, others are clamped.
setKdfParams(profile, kdf) ==
  IF profile # None
  THEN Profiles[profile]
  ELSE [m |-> Clamp(kdf.m, KDF_M_KIB_MAX),
        t |-> Clamp(kdf.t, KDF_T_MAX),
        p |-> Clamp(kdf.p, KDF_P_MAX)]

defaultHashForCipher(cipher) == IF cipher = "Kuznechik" THEN "Streebog_512" ELSE "SHA_256"

\* Only Streebog-512 gives way, to Streebog-256; None is an error.
resolveHashWithFallback(requested, cipher) ==
  LET asked     == IF requested # None THEN requested ELSE defaultHashForCipher(cipher)
      effective == IF asked = "Streebog_512" /\ asked \notin Available
                   THEN "Streebog_256" ELSE asked
  IN  IF effective \in Available THEN effective ELSE None
=============================================================================
