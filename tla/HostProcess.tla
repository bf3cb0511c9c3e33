------------------------------- MODULE HostProcess -------------------------------
(***************************************************************************)
(* The host process: what it reads when it starts, and what a crash leaves *)
(* for the next start.  Composes LlmConfigHub and RealmProfiles, in the    *)
(* order of main.ts.  A request of either is one turn of JavaScript.       *)
(***************************************************************************)
EXTENDS LlmConfigHub, RealmProfiles

CONSTANT MaxCrashes  \* bound on crashes

ASSUME HostAssumption == MaxCrashes \in Nat

VARIABLES
  up,      \* the process serves
  crashes  \* crashes so far

vars == <<hubVars, profileVars, failures, up, crashes>>

TypeOK ==
  /\ HubTypeOK
  /\ ProfilesTypeOK
  /\ up \in BOOLEAN
  /\ crashes \in 0 .. MaxCrashes
  /\ ~up => active = None /\ records = NoProfiles /\ users = NoProfiles

Init ==
  /\ HubInit
  /\ ProfilesInit
  /\ up = FALSE
  /\ crashes = 0

HubUnchanged == UNCHANGED hubVars
ProfilesUnchanged == UNCHANGED profileVars

\* Every constructor has to succeed.
Starts(env) ==
  /\ ~up
  /\ HubStarts(env)
  /\ ProfilesStart
  /\ up' = TRUE
  /\ UNCHANGED <<failures, crashes>>

\* profiles.json cannot be written, and the process exits.
StartFails ==
  /\ ~up
  /\ Readable
  /\ Fails
  /\ SpoiledCatalog
  /\ UNCHANGED <<hubVars, records, users, realm, told, up, crashes>>

Dies == crashes < MaxCrashes /\ crashes' = crashes + 1 /\ up' = FALSE

StartDies ==
  /\ ~up
  /\ Readable
  /\ Dies
  /\ SpoiledCatalog
  /\ UNCHANGED <<hubVars, records, users, realm, told, failures>>

Crash ==
  /\ up
  /\ Dies
  /\ HubGone /\ ProfilesGone
  /\ UNCHANGED <<file, hadKey, unserved, catalog, realm, told, failures>>

\* A signal: the server is stopped, no request is cut short.
Shutdown ==
  /\ up
  /\ up' = FALSE
  /\ HubGone /\ ProfilesGone
  /\ UNCHANGED <<file, hadKey, unserved, catalog, realm, told, failures, crashes>>

Configures(candidate) ==
  /\ up
  /\ \/ PostConfig(candidate) /\ UNCHANGED <<up, crashes>> /\ ProfilesUnchanged
     \/ /\ PostConfigDies(candidate) /\ Dies
        /\ ProfilesGone /\ UNCHANGED <<catalog, realm, told>>

AdministersProfile(id, name) ==
  /\ up
  /\ \/ /\ CreateProfile(id, name) \/ UpdateProfile(id, name)
        /\ HubUnchanged /\ UNCHANGED <<failures, up, crashes>>
     \/ /\ CreateProfileFails(id, name) \/ UpdateProfileFails(id, name)
        /\ Fails
        /\ HubUnchanged /\ UNCHANGED <<up, crashes>>
     \/ /\ WriteDies(id, name) /\ Dies
        /\ HubGone /\ UNCHANGED <<file, hadKey, unserved, failures>>

Next ==
  \/ \E env \in {None} \cup EnvConfigs : Starts(env)
  \/ StartFails \/ StartDies \/ Crash \/ Shutdown
  \/ \E candidate \in Configs : Configures(candidate)
  \/ \E id \in ProfileIds, name \in Names : AdministersProfile(id, name)

\* Somebody starts the host again, without the variables of the environment.
Spec == Init /\ [][Next]_vars /\ WF_vars(Starts(None))
-----------------------------------------------------------------------------
(* Properties *)

\* createConversationHub and its "the running service never diverges from what
\* is on disk": unless pinned, the process serves what the credentials file
\* holds, or nothing if that is unusable, through failed saves, crashes and
\* restarts.  A save that failed between its rename and the swap is excepted: the
\* comment does not hold for it.
ServedIsStored ==
  up /\ ~pinned /\ ~halfSaved => active = IF Usable(file) THEN file ELSE None

\* withStoredApiKey, "so the key is not silently dropped": a key once in the file
\* is never lost to a form without one, across restarts and pinned runs.  The
\* comment does not hold once the file has held what the process did not serve (a
\* file that a start had to ignore, or a save that failed after its rename).
KeyKept == hadKey /\ ~unserved => HasKey(file)

\* A profile that was reported as created is listed by every process that comes
\* to serve, whatever failed or died since (persistRecords and loadRecords).
CreatedIsListed == up => told \subseteq DOMAIN records

\* Unless a file operation failed, the admin list, the prompts, profiles.json and
\* realm.json have the same names, wherever the process died (the two files are
\* written one after the other).
OneNameEach ==
  up /\ failures = 0 =>
    records = users /\ catalog = records /\ realm = records[DefaultId]

\* A credentials file never keeps the host down ("must not take the tick service
\* down"); only a profiles.json or realm.json written in part does.
StartsAgain == ~up ~> up \/ ~Readable
=============================================================================
