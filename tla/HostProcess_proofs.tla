-------------------------- MODULE HostProcess_proofs --------------------------
(***************************************************************************)
(* Proofs about HostProcess, and the two modules it composes, for any      *)
(* models, keys, profiles and names and any number of failures, crashes    *)
(* and restarts.                                                           *)
(***************************************************************************)
EXTENDS HostProcess, TLAPS

\* Unless its file has held what it did not serve, a process that is not pinned
\* serves what is in the file.
ServesFile == up /\ ~pinned /\ ~unserved => active = file

\* What KeyKept needs at a save: the key of the file is that of the process.
HubInv == HubTypeOK /\ (~up => active = None) /\ ServedIsStored /\ ServesFile /\ KeyKept

\* The profiles that were reported are on disk, as long as it can be read.
ToldIsStored == catalog # Torn => told \subseteq DOMAIN catalog

ProfilesInv ==
  /\ ProfilesTypeOK
  /\ up => DefaultId \in DOMAIN records
  /\ ~up => records = NoProfiles /\ users = NoProfiles
  /\ ToldIsStored
  /\ CreatedIsListed
  /\ OneNameEach

HostInv == HubInv /\ ProfilesInv /\ up \in BOOLEAN /\ crashes \in 0 .. MaxCrashes
-----------------------------------------------------------------------------
(* The configuration *)

\* A form without a key does not lose the key the process serves with.
LEMMA StoredKeyType ==
  ASSUME HubTypeOK, NEW candidate \in Configs
  PROVE  /\ WithStoredApiKey(candidate) \in Configs
         /\ HasKey(active) => HasKey(WithStoredApiKey(candidate))
BY ConfigAssumption DEF HubTypeOK, WithStoredApiKey, HasKey, Configs

\* What a save does, when it does not fail before its rename.
LEMMA SavedKey ==
  ASSUME HubInv, up, ~pinned, NEW candidate \in Configs,
         file' = WithStoredApiKey(candidate),
         hadKey' = (hadKey \/ HasKey(file'))
  PROVE  hadKey' /\ ~unserved => HasKey(file')
<1>1. SUFFICES ASSUME hadKey, ~unserved PROVE HasKey(file')
  OBVIOUS
<1>2. active = file /\ HasKey(file)
  BY <1>1 DEF HubInv, ServesFile, KeyKept
<1>3. QED
  BY <1>2, StoredKeyType DEF HubInv

LEMMA StartKeepsHub ==
  ASSUME HostInv, NEW env \in {None} \cup EnvConfigs, Starts(env)
  PROVE  HubInv'
<1> USE DEF Starts, HubStarts
<1>1. HubTypeOK'
  <2>1. EnvConfigs \subseteq Configs
    BY DEF EnvConfigs, Configs
  <2>2. QED
    BY <2>1 DEF HostInv, HubInv, HubTypeOK, Usable
<1>2. ServedIsStored' /\ ServesFile'
  BY DEF ServedIsStored, ServesFile, Usable
<1>3. KeyKept'
  BY DEF HostInv, HubInv, HubTypeOK, KeyKept, HasKey
<1>4. QED
  BY <1>1, <1>2, <1>3 DEF HubInv

\* The process is down, or goes down, and the file stays as it was.
LEMMA DownKeepsHub ==
  ASSUME HostInv, UNCHANGED <<file, hadKey, unserved>>, ~up',
         HubGone \/ (~up /\ UNCHANGED hubVars),
         failures' \in 0 .. MaxFailures
  PROVE  HubInv'
<1>1. HubInv /\ HubTypeOK /\ KeyKept
  BY DEF HostInv, HubInv
<1>2. active' = None /\ pinned' \in BOOLEAN /\ halfSaved' \in BOOLEAN
  <2>1. CASE HubGone
    BY <2>1, Zenon DEF HubGone
  <2>2. CASE ~up /\ UNCHANGED hubVars
    BY <1>1, <2>2 DEF HubInv, HubTypeOK, hubVars
  <2>3. QED
    BY <2>1, <2>2
<1>3. HubTypeOK'
  BY <1>1, <1>2 DEF HubTypeOK
<1>4. KeyKept'
  BY <1>1 DEF KeyKept, HasKey
<1>5. QED
  BY <1>2, <1>3, <1>4 DEF HubInv, ServedIsStored, ServesFile

LEMMA UnchangedKeepsHub ==
  ASSUME HostInv, UNCHANGED <<hubVars, up>>, failures' \in 0 .. MaxFailures
  PROVE  HubInv'
BY DEF HostInv, HubInv, HubTypeOK, hubVars, ServedIsStored, ServesFile, KeyKept, HasKey, Usable

LEMMA PostConfigKeepsHub ==
  ASSUME HostInv, NEW candidate \in Configs, up, UNCHANGED up, PostConfig(candidate)
  PROVE  HubInv'
<1> DEFINE config == WithStoredApiKey(candidate)
<1>1. config \in Configs
  BY StoredKeyType DEF HostInv, HubInv
<1>2. /\ ~pinned /\ ~pinned' /\ Usable(config) /\ up'
      /\ hadKey' = (hadKey \/ HasKey(file'))
  BY DEF PostConfig, HostInv, HubInv, HubTypeOK
<1>3. HubInv
  BY DEF HostInv
<1>f. Fails => failures' \in 0 .. MaxFailures
  BY <1>3, ConfigAssumption DEF HubInv, HubTypeOK, Fails
<1>h. hadKey' \in BOOLEAN /\ pinned' \in BOOLEAN
  BY <1>2, <1>3, Zenon DEF HubInv, HubTypeOK, PostConfig
<1>4. CASE /\ file' = config /\ active' = config /\ halfSaved' = FALSE
           /\ UNCHANGED <<unserved, failures>>
  <2>1. KeyKept'
    BY <1>2, <1>3, <1>4, SavedKey DEF KeyKept
  <2> HIDE DEF config
  <2>2. HubTypeOK'
    BY <1>1, <1>3, <1>4, <1>h DEF HubInv, HubTypeOK
  <2>3. ServedIsStored' /\ ServesFile'
    <3>1. Usable(file')
      BY <1>2, <1>4
    <3>2. QED
      BY <1>4, <3>1 DEF ServedIsStored, ServesFile
  <2>4. QED
    BY <1>2, <2>1, <2>2, <2>3 DEF HubInv
<1>5. CASE Fails /\ UNCHANGED <<file, active, halfSaved, unserved>>
  <2>1. HubTypeOK'
    BY <1>3, <1>5, <1>f, <1>h DEF HubInv, HubTypeOK
  <2>2. ServedIsStored' /\ ServesFile'
    BY <1>2, <1>3, <1>5 DEF HubInv, ServedIsStored, ServesFile, Usable
  <2>3. KeyKept'
    BY <1>2, <1>3, <1>5 DEF HubInv, KeyKept, HasKey
  <2>4. QED
    BY <1>2, <2>1, <2>2, <2>3 DEF HubInv
<1>6. CASE /\ Fails
           /\ file' = config /\ halfSaved' = TRUE /\ unserved' = TRUE
           /\ UNCHANGED active
  <2>1. HubTypeOK'
    BY <1>1, <1>3, <1>6, <1>f, <1>h DEF HubInv, HubTypeOK
  <2>2. ServedIsStored' /\ ServesFile' /\ KeyKept'
    BY <1>6 DEF ServedIsStored, ServesFile, KeyKept
  <2>3. QED
    BY <1>2, <2>1, <2>2 DEF HubInv
<1>7. QED
  BY <1>4, <1>5, <1>6, Zenon DEF PostConfig

LEMMA PostConfigDiesKeepsHub ==
  ASSUME HostInv, NEW candidate \in Configs, up, ~up', PostConfigDies(candidate)
  PROVE  HubInv'
<1>1. WithStoredApiKey(candidate) \in Configs
  BY StoredKeyType DEF HostInv, HubInv
<1>2. HubInv
  BY DEF HostInv
<1>3. hadKey' /\ ~unserved => HasKey(file')
  BY <1>2, SavedKey DEF PostConfigDies
<1>4. QED
  BY <1>1, <1>2, <1>3
  DEF PostConfigDies, HubGone, HubInv, HubTypeOK, ServedIsStored, ServesFile, KeyKept, HasKey
-----------------------------------------------------------------------------
(* The profiles *)

LEMMA WithType ==
  ASSUME NEW names \in Catalogs, NEW id \in ProfileIds, NEW name \in Names
  PROVE  /\ With(names, id, name) \in Catalogs
         /\ id \in DOMAIN With(names, id, name)
         /\ DOMAIN names \subseteq DOMAIN With(names, id, name)
         /\ With(names, id, name)[id] = name
         /\ \A i \in DOMAIN names \ {id} : With(names, id, name)[i] = names[i]
<1>1. PICK ids \in SUBSET ProfileIds : names \in [ids -> Names]
  BY DEF Catalogs
<1>2. With(names, id, name) \in [ids \cup {id} -> Names]
  BY <1>1 DEF With
<1>3. ids \cup {id} \in SUBSET ProfileIds
  OBVIOUS
<1>4. With(names, id, name) \in Catalogs
  BY <1>2, <1>3 DEF Catalogs
<1>5. QED
  BY <1>4 DEF With

LEMMA NoProfilesType == NoProfiles \in Catalogs
<1>1. NoProfiles \in [{} -> Names]
  BY DEF NoProfiles
<1>2. QED
  BY <1>1 DEF Catalogs

\* The constructors: what they load is one name for each profile.
LEMMA StartKeepsProfiles ==
  ASSUME HostInv, NEW env \in {None} \cup EnvConfigs, Starts(env)
  PROVE  ProfilesInv'
<1>1. /\ ProfilesInv /\ up' /\ UNCHANGED <<realm, told>>
      /\ records' = LoadedProfiles /\ catalog' = records'
      /\ users' = [records' EXCEPT ![DefaultId] = realm]
      /\ catalog \in Catalogs /\ realm \in Names
  BY DEF HostInv, ProfilesInv, ProfilesTypeOK, Starts, ProfilesStart, Readable
<1>2. PICK ids \in SUBSET ProfileIds : catalog \in [ids -> Names]
  BY <1>1 DEF Catalogs
<1>3. LoadedProfiles \in [{DefaultId} \cup ids -> Names]
  BY <1>1, <1>2 DEF LoadedProfiles
<1>4. {DefaultId} \cup ids \in SUBSET ProfileIds
  BY ProfilesAssumption
<1>5. records' \in Catalogs
  BY <1>1, <1>3, <1>4 DEF Catalogs
<1>6. DOMAIN records' = {DefaultId} \cup DOMAIN catalog /\ records'[DefaultId] = realm
  BY <1>1 DEF LoadedProfiles
<1>7. users' = records'
  <2>1. records' \in [{DefaultId} \cup ids -> Names]
    BY <1>1, <1>3
  <2>2. QED
    BY <1>1, <1>6, <2>1
<1>8. told \subseteq DOMAIN records'
  <2>1. catalog # Torn
    BY DEF Starts, ProfilesStart, Readable
  <2>2. QED
    BY <1>1, <1>6, <2>1 DEF ProfilesInv, ToldIsStored
<1>9. QED
  BY <1>1, <1>5, <1>6, <1>7, <1>8
  DEF ProfilesInv, ProfilesTypeOK, ToldIsStored, CreatedIsListed, OneNameEach

\* The process is down, or goes down, with profiles.json whole or torn.
LEMMA DownKeepsProfiles ==
  ASSUME HostInv, ~up', ProfilesGone, SpoiledCatalog, UNCHANGED told,
         realm' \in Names \cup {Torn}
  PROVE  ProfilesInv'
BY NoProfilesType
DEF HostInv, ProfilesInv, ProfilesTypeOK, ProfilesGone, SpoiledCatalog, ToldIsStored,
    CreatedIsListed, OneNameEach

LEMMA UnchangedKeepsProfiles ==
  ASSUME HostInv, UNCHANGED <<profileVars, up>>, failures = 0 \/ failures' # 0
  PROVE  ProfilesInv'
BY DEF HostInv, ProfilesInv, ProfilesTypeOK, profileVars, ToldIsStored, CreatedIsListed,
       OneNameEach

LEMMA CreateKeepsProfiles ==
  ASSUME HostInv, NEW id \in ProfileIds, NEW name \in Names, up, UNCHANGED <<up, failures>>,
         CreateProfile(id, name)
  PROVE  ProfilesInv'
<1>1. ProfilesInv /\ records \in Catalogs /\ users \in Catalogs /\ realm \in Names \cup {Torn}
  BY DEF HostInv, ProfilesInv, ProfilesTypeOK
<1>2. /\ records' = With(records, id, name) /\ users' = With(users, id, name)
      /\ catalog' = records' /\ realm' = realm /\ told' = told \cup {id}
      /\ id \notin DOMAIN records
  BY DEF CreateProfile
<1>3. /\ records' \in Catalogs /\ users' \in Catalogs
      /\ id \in DOMAIN records' /\ DOMAIN records \subseteq DOMAIN records'
      /\ \A i \in DOMAIN records \ {id} : records'[i] = records[i]
  BY <1>1, <1>2, WithType
<1>4. ProfilesTypeOK' /\ ToldIsStored' /\ CreatedIsListed'
  BY <1>1, <1>2, <1>3 DEF ProfilesInv, ProfilesTypeOK, ToldIsStored, CreatedIsListed
<1>5. OneNameEach'
  <2>1. SUFFICES ASSUME failures = 0
                 PROVE  records' = users' /\ catalog' = records' /\ realm' = records'[DefaultId]
    BY DEF OneNameEach
  <2>2. records = users /\ realm = records[DefaultId] /\ DefaultId \in DOMAIN records \ {id}
    BY <1>1, <1>2, <2>1 DEF ProfilesInv, OneNameEach
  <2>3. QED
    BY <1>2, <1>3, <2>2
<1>6. QED
  BY <1>1, <1>3, <1>4, <1>5 DEF ProfilesInv

LEMMA UpdateKeepsProfiles ==
  ASSUME HostInv, NEW id \in ProfileIds, NEW name \in Names, up, UNCHANGED <<up, failures>>,
         UpdateProfile(id, name)
  PROVE  ProfilesInv'
<1>1. ProfilesInv /\ records \in Catalogs /\ users \in Catalogs /\ realm \in Names \cup {Torn}
  BY DEF HostInv, ProfilesInv, ProfilesTypeOK
<1>2. /\ records' = With(records, id, name) /\ users' = With(users, id, name)
      /\ catalog' = records' /\ told' = told
      /\ realm' = IF id = DefaultId THEN name ELSE realm
      /\ id \in DOMAIN records
  BY DEF UpdateProfile
<1>3. /\ records' \in Catalogs /\ users' \in Catalogs
      /\ id \in DOMAIN records' /\ DOMAIN records \subseteq DOMAIN records'
      /\ records'[id] = name
      /\ \A i \in DOMAIN records \ {id} : records'[i] = records[i]
  BY <1>1, <1>2, WithType
<1>4. ProfilesTypeOK' /\ ToldIsStored' /\ CreatedIsListed'
  BY <1>1, <1>2, <1>3 DEF ProfilesInv, ProfilesTypeOK, ToldIsStored, CreatedIsListed
<1>5. OneNameEach'
  <2>1. SUFFICES ASSUME failures = 0
                 PROVE  records' = users' /\ catalog' = records' /\ realm' = records'[DefaultId]
    BY DEF OneNameEach
  <2>2. records = users /\ realm = records[DefaultId] /\ DefaultId \in DOMAIN records
    BY <1>1, <2>1 DEF ProfilesInv, OneNameEach
  <2>3. QED
    BY <1>2, <1>3, <2>2
<1>6. QED
  BY <1>1, <1>3, <1>4, <1>5 DEF ProfilesInv

\* After a failed operation only the types, and what is on disk, are left to show.
LEMMA FailureKeepsProfiles ==
  ASSUME HostInv, NEW id \in ProfileIds, NEW name \in Names, up, UNCHANGED up, failures' # 0,
         CreateProfileFails(id, name) \/ UpdateProfileFails(id, name)
  PROVE  ProfilesInv'
<1>1. ProfilesInv /\ records \in Catalogs /\ users \in Catalogs
  BY DEF HostInv, ProfilesInv, ProfilesTypeOK
<1>2. /\ users' = With(users, id, name) /\ told' = told
      /\ records' = With(records, id, name) \/ records' = records
      /\ catalog' = catalog \/ catalog' = Torn
      /\ realm' \in {realm, name, Torn}
  BY DEF CreateProfileFails, UpdateProfileFails, SpoiledCatalog, SpoiledRealm
<1>3. /\ records' \in Catalogs /\ users' \in Catalogs
      /\ DOMAIN records \subseteq DOMAIN records'
  BY <1>1, <1>2, WithType
<1>4. QED
  BY <1>1, <1>2, <1>3
  DEF ProfilesInv, ProfilesTypeOK, ToldIsStored, CreatedIsListed, OneNameEach

LEMMA WriteDiesKeepsProfiles ==
  ASSUME HostInv, NEW id \in ProfileIds, NEW name \in Names, up, ~up', WriteDies(id, name)
  PROVE  ProfilesInv'
<1>1. ProfilesInv /\ records \in Catalogs /\ told \subseteq DOMAIN records
  BY DEF HostInv, ProfilesInv, ProfilesTypeOK, CreatedIsListed
<1>2. /\ ProfilesGone /\ told' = told
      /\ catalog' \in {catalog, Torn, With(records, id, name)}
      /\ realm' \in {realm, name, Torn}
  BY DEF WriteDies, SpoiledRealm
<1>3. /\ With(records, id, name) \in Catalogs
      /\ told \subseteq DOMAIN With(records, id, name)
  BY <1>1, WithType
<1>4. QED
  BY <1>1, <1>2, <1>3, NoProfilesType
  DEF ProfilesInv, ProfilesTypeOK, ProfilesGone, ToldIsStored, CreatedIsListed, OneNameEach
-----------------------------------------------------------------------------
(* The invariant *)

LEMMA InitHostInv == Init => HostInv
<1> SUFFICES ASSUME Init PROVE HostInv
  OBVIOUS
<1>1. HubInv
  <2>1. HubTypeOK
    <3>1. hadKey \in BOOLEAN /\ pinned \in BOOLEAN /\ halfSaved \in BOOLEAN
          /\ unserved \in BOOLEAN
      BY Zenon DEF Init, HubInit, HasKey
    <3>2. QED
      BY <3>1, ConfigAssumption DEF Init, HubInit, HubTypeOK
  <2>2. ~up /\ active = None /\ KeyKept
    BY DEF Init, HubInit, KeyKept
  <2>3. QED
    BY <2>1, <2>2 DEF HubInv, ServedIsStored, ServesFile
<1>2. ProfilesInv
  BY ProfilesAssumption, NoProfilesType
  DEF Init, ProfilesInit, ProfilesInv, ProfilesTypeOK, ToldIsStored, CreatedIsListed, OneNameEach
<1>3. up \in BOOLEAN
  BY Zenon DEF Init
<1>4. crashes \in 0 .. MaxCrashes
  BY HostAssumption DEF Init
<1>5. QED
  BY <1>1, <1>2, <1>3, <1>4 DEF HostInv

LEMMA NextHostInv == HostInv /\ [Next]_vars => HostInv'
<1> SUFFICES ASSUME HostInv, [Next]_vars PROVE HostInv'
  OBVIOUS
<1>0. /\ HubInv /\ ProfilesInv /\ up \in BOOLEAN /\ crashes \in 0 .. MaxCrashes
      /\ failures \in 0 .. MaxFailures /\ realm \in Names \cup {Torn}
  BY DEF HostInv, HubInv, HubTypeOK, ProfilesInv, ProfilesTypeOK
<1>1. ASSUME NEW env \in {None} \cup EnvConfigs, Starts(env) PROVE HostInv'
  <2>1. up' /\ crashes' = crashes
    BY <1>1 DEF Starts
  <2>2. QED
    BY <1>0, <1>1, <2>1, StartKeepsHub, StartKeepsProfiles DEF HostInv
<1>d. Dies => ~up' /\ up' \in BOOLEAN /\ crashes' \in 0 .. MaxCrashes
  <2>1. Dies => ~up' /\ up' \in BOOLEAN
    BY Zenon DEF Dies
  <2>2. Dies => crashes' \in 0 .. MaxCrashes
    BY <1>0, HostAssumption DEF Dies
  <2>3. QED
    BY <2>1, <2>2
<1>f. Fails => failures' \in 0 .. MaxFailures
  BY <1>0, ConfigAssumption DEF Fails
<1> DEFINE Down == /\ ~up' /\ up' \in BOOLEAN /\ crashes' \in 0 .. MaxCrashes
                   /\ failures' \in 0 .. MaxFailures
<1>2. CASE StartFails \/ StartDies
  <2>1. Down
    BY <1>0, <1>2, <1>d, <1>f DEF StartFails, StartDies
  <2>2. /\ UNCHANGED <<file, hadKey, unserved, told, realm>> /\ SpoiledCatalog
        /\ ProfilesGone /\ ~up /\ UNCHANGED hubVars
    <3>1. UNCHANGED <<hubVars, records, users, realm, told>> /\ SpoiledCatalog /\ ~up
      BY <1>2 DEF StartFails, StartDies
    <3>2. QED
      BY <1>0, <3>1 DEF ProfilesInv, ProfilesGone, hubVars
  <2>3. QED
    BY <1>0, <2>1, <2>2, DownKeepsHub, DownKeepsProfiles DEF HostInv
<1>3. CASE Crash \/ Shutdown
  <2>1. Down
    BY <1>0, <1>3, <1>d DEF Crash, Shutdown
  <2>2. /\ UNCHANGED <<file, hadKey, unserved, told, realm>> /\ HubGone /\ SpoiledCatalog
        /\ ProfilesGone
    BY <1>3 DEF Crash, Shutdown, SpoiledCatalog
  <2>3. QED
    BY <1>0, <2>1, <2>2, DownKeepsHub, DownKeepsProfiles DEF HostInv
<1>4. ASSUME NEW candidate \in Configs, Configures(candidate) PROVE HostInv'
  <2>1. CASE PostConfig(candidate) /\ UNCHANGED <<up, crashes>> /\ ProfilesUnchanged
    <3>1. up /\ UNCHANGED <<profileVars, up>>
      BY <1>4, <2>1 DEF Configures, ProfilesUnchanged
    <3>2. failures = 0 \/ failures' # 0
      BY <1>0, <2>1 DEF PostConfig, Fails
    <3>3. QED
      BY <1>0, <2>1, <3>1, <3>2, PostConfigKeepsHub, UnchangedKeepsProfiles DEF HostInv
  <2>2. CASE /\ PostConfigDies(candidate) /\ Dies
             /\ ProfilesGone /\ UNCHANGED <<catalog, realm, told>>
    <3>1. up /\ Down
      BY <1>0, <1>4, <2>2, <1>d DEF Configures, PostConfigDies
    <3>2. SpoiledCatalog
      BY <2>2 DEF SpoiledCatalog
    <3>3. QED
      BY <1>0, <2>2, <3>1, <3>2, PostConfigDiesKeepsHub, DownKeepsProfiles DEF HostInv
  <2>3. QED
    BY <1>4, <2>1, <2>2 DEF Configures
<1>5. ASSUME NEW id \in ProfileIds, NEW name \in Names, AdministersProfile(id, name)
      PROVE  HostInv'
  <2>1. CASE /\ CreateProfile(id, name) \/ UpdateProfile(id, name)
             /\ HubUnchanged /\ UNCHANGED <<failures, up, crashes>>
    <3>1. up /\ UNCHANGED <<hubVars, up>>
      BY <1>5, <2>1 DEF AdministersProfile, HubUnchanged
    <3>2. QED
      BY <1>0, <2>1, <3>1, UnchangedKeepsHub, CreateKeepsProfiles, UpdateKeepsProfiles DEF HostInv
  <2>2. CASE /\ CreateProfileFails(id, name) \/ UpdateProfileFails(id, name)
             /\ Fails
             /\ HubUnchanged /\ UNCHANGED <<up, crashes>>
    <3>1. up /\ UNCHANGED <<hubVars, up>>
      BY <1>5, <2>2 DEF AdministersProfile, HubUnchanged
    <3>2. failures' \in 0 .. MaxFailures /\ failures' # 0
      BY <1>0, <2>2, ConfigAssumption DEF Fails
    <3>3. QED
      BY <1>0, <2>2, <3>1, <3>2, UnchangedKeepsHub, FailureKeepsProfiles DEF HostInv
  <2>3. CASE /\ WriteDies(id, name) /\ Dies
             /\ HubGone /\ UNCHANGED <<file, hadKey, unserved, failures>>
    <3>1. up /\ Down
      BY <1>0, <1>5, <2>3, <1>d DEF AdministersProfile
    <3>2. QED
      BY <1>0, <2>3, <3>1, DownKeepsHub, WriteDiesKeepsProfiles DEF HostInv
  <2>4. QED
    BY <1>5, <2>1, <2>2, <2>3, Zenon DEF AdministersProfile
<1>6. CASE UNCHANGED vars
  <2>1. UNCHANGED <<hubVars, up>> /\ UNCHANGED <<profileVars, up>> /\ UNCHANGED <<failures, crashes>>
    BY <1>6 DEF vars
  <2>2. QED
    BY <1>0, <2>1, UnchangedKeepsHub, UnchangedKeepsProfiles DEF HostInv
<1>7. QED
  BY <1>1, <1>2, <1>3, <1>4, <1>5, <1>6 DEF Next

LEMMA SpecHostInv == Spec => []HostInv
BY InitHostInv, NextHostInv, PTL DEF Spec
-----------------------------------------------------------------------------
(* Theorems *)

\* The state of the process and its files keeps its shape, whatever fails, dies
\* or is restarted: a process that is down serves nothing.
THEOREM TypeCorrect == Spec => []TypeOK
<1>1. HostInv => TypeOK
  BY DEF HostInv, HubInv, ProfilesInv, TypeOK
<1>2. QED
  BY <1>1, SpecHostInv, PTL

\* "the running service never diverges from what is on disk": unless pinned, or
\* after a save that failed between its rename and the swap, the process serves
\* the usable content of its file, through failed saves, crashes and restarts.
THEOREM ServedIsStoredHolds == Spec => []ServedIsStored
<1>1. HostInv => ServedIsStored
  BY DEF HostInv, HubInv
<1>2. QED
  BY <1>1, SpecHostInv, PTL

\* withStoredApiKey, "so the key is not silently dropped": unless the file has
\* held what the process did not serve, a key once in it is never lost.
THEOREM KeyKeptHolds == Spec => []KeyKept
<1>1. HostInv => KeyKept
  BY DEF HostInv, HubInv
<1>2. QED
  BY <1>1, SpecHostInv, PTL

\* A profile reported as created is listed by every process that comes to
\* serve, wherever an earlier one failed or died (persistRecords, loadRecords).
THEOREM CreatedIsListedHolds == Spec => []CreatedIsListed
<1>1. HostInv => CreatedIsListed
  BY DEF HostInv, ProfilesInv
<1>2. QED
  BY <1>1, SpecHostInv, PTL

\* Unless a file operation failed, the list, the prompts, profiles.json and
\* realm.json have the same names, wherever the process died between the files.
THEOREM OneNameEachHolds == Spec => []OneNameEach
<1>1. HostInv => OneNameEach
  BY DEF HostInv, ProfilesInv
<1>2. QED
  BY <1>1, SpecHostInv, PTL
=============================================================================
