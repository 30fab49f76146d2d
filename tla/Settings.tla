------------------------------- MODULE Settings -------------------------------
(***************************************************************************)
(* What config.Load and postgres.Open make of the environment variables    *)
(* that the service's control depends on: whether a dependency is there,   *)
(* the size of the pool, and whether connecting has a time limit.          *)
(***************************************************************************)
EXTENDS Integers

CONSTANTS
  Int32Max,        \* 2^31 - 1; smaller in the instances
  DriverMaxConns,  \* pgxpool's own maximum, from the DSN or the number of CPUs
  DriverMinConns   \* its minimum: the DSN's pool_min_conns, or 0

\* ParseConfig refuses a maximum below one, and takes any minimum.
ASSUME SettingsAssumption ==
  Int32Max \in Nat /\ DriverMaxConns \in Nat \ {0} /\ DriverMinConns \in Int

\* An environment variable: not set, no number (or duration), or a number.
Setting == [text : {"unset", "malformed", "number"}, number : Int]

Unset == [text |-> "unset", number |-> 0]
Malformed == [text |-> "malformed", number |-> 0]
Written(n) == [text |-> "number", number |-> n]

\* Variant: parsed with 64 bits, and converted.
EnvInt32Wrapping(setting, fallback) ==
  IF setting.text # "number" THEN fallback
  ELSE ((setting.number + Int32Max + 1) % (2 * (Int32Max + 1))) - (Int32Max + 1)

\* ParseInt refuses what does not fit 32 bits, and the fallback is taken without a word.
EnvInt32(setting, fallback) ==
  IF setting.text = "number" /\ setting.number \in -(Int32Max + 1) .. Int32Max
    THEN setting.number ELSE fallback

EnvDuration(setting, fallback) == IF setting.text = "number" THEN setting.number ELSE fallback

\* What the model tells apart of a base URL: none, nothing but slashes and blanks, an address.
BaseURLs == {"", "/", "address"}

Environment ==
  [dsn : BOOLEAN, baseURL : BaseURLs, minConns : Setting, maxConns : Setting,
   connectTimeout : Setting]

\* Load: the settings, with their defaults.
Config(env) ==
  [dsn |-> env.dsn, baseURL |-> env.baseURL,
   minConns |-> EnvInt32(env.minConns, 1), maxConns |-> EnvInt32(env.maxConns, 5),
   connectTimeout |-> EnvDuration(env.connectTimeout, 5)]

\* Open: a setting that is not positive leaves the driver's in force.
PoolMinConns(cfg) == IF cfg.minConns > 0 THEN cfg.minConns ELSE DriverMinConns

\* A maximum below the minimum is raised to it.
PoolMaxConns(cfg) ==
  LET max == IF cfg.maxConns > 0 THEN cfg.maxConns ELSE DriverMaxConns
  IN IF max < PoolMinConns(cfg) THEN PoolMinConns(cfg) ELSE max

\* NewClient trims blanks and slashes; what is left decides.
IsConfigured(cfg) == cfg.baseURL = "address"
=============================================================================
