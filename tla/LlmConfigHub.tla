------------------------------ MODULE LlmConfigHub ------------------------------
(***************************************************************************)
(* The configuration of the language model: the credentials file, the     *)
(* configuration the process serves with, and the administrator's changes. *)
(* HostProcess starts, stops and kills it.                                 *)
(***************************************************************************)
EXTENDS Naturals

CONSTANTS
  Models,      \* what a configuration selects
  Buildable,   \* those a runtime can be built for: the catalog has them
  Keys,        \* api keys
  None,        \* undefined
  Unreadable,  \* a credentials file that is not a configuration
  MaxFailures  \* bound on file operations that fail

Configs == [model : Models, key : Keys \cup {None}]

ASSUME ConfigAssumption ==
  /\ Buildable \subseteq Models
  /\ None \notin Keys
  /\ None \notin Configs /\ Unreadable \notin Configs
  /\ MaxFailures \in Nat

VARIABLES
  file,     \* credentials.json
  active,   \* activeConfig, and the runtime built from it
  pinned,   \* envConfig !== undefined
  halfSaved, \* history: the last save failed after its rename
  hadKey,   \* history: the file has held a key
  unserved, \* history: the file has held what the process did not serve
  failures  \* file operations that failed so far

hubVars == <<file, active, pinned, halfSaved, hadKey, unserved>>

HubTypeOK ==
  /\ file \in Configs \cup {None, Unreadable}
  /\ active \in Configs \cup {None}
  /\ {pinned, halfSaved, hadKey, unserved} \subseteq BOOLEAN
  /\ failures \in 0 .. MaxFailures

HasKey(config) == config \in Configs /\ config.key # None

Usable(config) == config \in Configs /\ config.model \in Buildable

HubInit ==
  /\ file \in Configs \cup {None, Unreadable}
  /\ active = None
  /\ pinned = FALSE
  /\ halfSaved = FALSE
  /\ hadKey = HasKey(file)
  /\ unserved = FALSE
  /\ failures = 0

Fails == failures < MaxFailures /\ failures' = failures + 1
-----------------------------------------------------------------------------
\* The variables of the environment select without a key.
EnvConfigs == [model : Models, key : {None}]

\* Mutant: an unusable file stops the start, as unusable variables do.
HubStarts_FailFast(env) ==
  /\ IF env # None
     THEN /\ Usable(env)
          /\ active' = env
     ELSE /\ file = None \/ Usable(file)
          /\ active' = file
  /\ pinned' = (env # None)
  /\ halfSaved' = FALSE
  /\ UNCHANGED <<file, hadKey, unserved>>

\* createConversationHub: the environment fails fast, the file does not.
HubStarts(env) ==
  /\ IF env # None
     THEN /\ Usable(env)
          /\ active' = env
          /\ UNCHANGED unserved
     ELSE /\ active' = IF Usable(file) THEN file ELSE None
          /\ unserved' = (unserved \/ (file # None /\ ~Usable(file)))
  /\ pinned' = (env # None)
  /\ halfSaved' = FALSE
  /\ UNCHANGED <<file, hadKey>>

HubGone == active' = None /\ pinned' = FALSE /\ halfSaved' = FALSE

\* Mutant: the form is taken as it is.
WithStoredApiKey_AsGiven(candidate) == candidate

\* A candidate without a key keeps the key of the active configuration.
WithStoredApiKey(candidate) ==
  IF candidate.key = None /\ active # None
  THEN [candidate EXCEPT !.key = active.key]
  ELSE candidate

\* Mutant: swap, then save.
PostConfig_SwapFirst(candidate) ==
  LET config == WithStoredApiKey(candidate)
  IN  /\ ~pinned
      /\ Usable(config)
      /\ active' = config
      /\ \/ file' = config /\ UNCHANGED <<halfSaved, failures>>
         \/ Fails /\ UNCHANGED <<file, halfSaved>>
      /\ hadKey' = (hadKey \/ HasKey(file'))
      /\ UNCHANGED <<pinned, unserved>>

\* Build, save (a temporary file, renamed, then chmod), swap; refused while
\* pinned.  A save may fail before or after its rename.
PostConfig(candidate) ==
  LET config == WithStoredApiKey(candidate)
  IN  /\ ~pinned
      /\ Usable(config)
      /\ \/ /\ file' = config /\ active' = config /\ halfSaved' = FALSE
            /\ UNCHANGED <<unserved, failures>>
         \/ Fails /\ UNCHANGED <<file, active, halfSaved, unserved>>
         \/ /\ Fails
            /\ file' = config /\ halfSaved' = TRUE /\ unserved' = TRUE
            /\ UNCHANGED active
      /\ hadKey' = (hadKey \/ HasKey(file'))
      /\ UNCHANGED pinned

\* The process dies in it after the rename; before, the file is as it was.
PostConfigDies(candidate) ==
  /\ ~pinned
  /\ Usable(WithStoredApiKey(candidate))
  /\ file' = WithStoredApiKey(candidate)
  /\ hadKey' = (hadKey \/ HasKey(file'))
  /\ HubGone
  /\ UNCHANGED <<unserved, failures>>
=============================================================================
