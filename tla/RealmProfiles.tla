------------------------------ MODULE RealmProfiles ------------------------------
(***************************************************************************)
(* The catalog of profiles: records and stores in memory, and the files    *)
(* profiles.json and realm.json, which are written in place.  The record   *)
(* of the default profile is read from realm.json, the others from         *)
(* profiles.json.  HostProcess starts, stops and kills it.                 *)
(***************************************************************************)
EXTENDS Naturals

CONSTANTS
  ProfileIds,  \* profileIds
  DefaultId,   \* participantId of realm.json
  Names,       \* displayNames
  DefaultName, \* that of DEFAULT_REALM_CONFIG
  Torn         \* a file written in part

ASSUME ProfilesAssumption ==
  /\ DefaultId \in ProfileIds
  /\ DefaultName \in Names

VARIABLES
  records,  \* RealmProfileManager.records: the name of each profile
  users,    \* config.user of each store: the name in the prompts
  catalog,  \* profiles.json, empty when there is none
  realm,    \* the name in realm.json
  told      \* history: the profiles reported as created

profileVars == <<records, users, catalog, realm, told>>

Catalogs == UNION {[ids -> Names] : ids \in SUBSET ProfileIds}
NoProfiles == [id \in {} |-> DefaultName]

ProfilesTypeOK ==
  /\ {records, users} \subseteq Catalogs
  /\ catalog \in Catalogs \cup {Torn}
  /\ realm \in Names \cup {Torn}
  /\ told \subseteq ProfileIds

ProfilesInit ==
  /\ records = NoProfiles
  /\ users = NoProfiles
  /\ catalog = NoProfiles
  /\ realm = DefaultName
  /\ told = {}

\* Mutant: a realm.json that does not parse is taken as it is.
Readable_AnyRealm == catalog # Torn

\* loadConfig and loadRecords throw on anything else.
Readable == catalog # Torn /\ realm # Torn

\* Mutant: the default profile is read from profiles.json when it is there.
LoadedProfiles_CatalogFirst ==
  [id \in {DefaultId} \cup DOMAIN catalog |->
     IF id \in DOMAIN catalog THEN catalog[id] ELSE realm]

LoadedProfiles ==
  [id \in {DefaultId} \cup DOMAIN catalog |-> IF id = DefaultId THEN realm ELSE catalog[id]]

\* Mutant: what cannot be read counts as an empty catalog.
ProfilesStart_TornIsEmpty ==
  /\ realm # Torn
  /\ IF catalog = Torn
     THEN records' = [id \in {DefaultId} |-> realm]
     ELSE records' = LoadedProfiles
  /\ users' = records'
  /\ catalog' = records'
  /\ UNCHANGED <<realm, told>>

\* The constructors: read realm.json, then profiles.json, and write it again.
ProfilesStart ==
  /\ Readable
  /\ records' = LoadedProfiles
  /\ users' = [records' EXCEPT ![DefaultId] = realm]
  /\ catalog' = records'
  /\ UNCHANGED <<realm, told>>

ProfilesGone == records' = NoProfiles /\ users' = NoProfiles

With(names, id, name) ==
  [i \in DOMAIN names \cup {id} |-> IF i = id THEN name ELSE names[i]]

\* A file that is written in place and not to the end.
SpoiledCatalog == catalog' \in {catalog, Torn}
SpoiledRealm == realm' \in {realm, Torn}

\* createProfile with a new id: the store, the record, then profiles.json.
CreateProfile(id, name) ==
  /\ id \notin DOMAIN records
  /\ users' = With(users, id, name)
  /\ records' = With(records, id, name)
  /\ catalog' = records'
  /\ told' = told \cup {id}
  /\ UNCHANGED realm

\* The file cannot be written: memory has the profile already.
CreateProfileFails(id, name) ==
  /\ id \notin DOMAIN records
  /\ users' = With(users, id, name)
  /\ records' = With(records, id, name)
  /\ SpoiledCatalog
  /\ UNCHANGED <<realm, told>>

\* updateProfile: config.user, realm.json (another profile's is never read
\* again), the record, then profiles.json.
UpdateProfile(id, name) ==
  /\ id \in DOMAIN records
  /\ users' = With(users, id, name)
  /\ realm' = IF id = DefaultId THEN name ELSE realm
  /\ records' = With(records, id, name)
  /\ catalog' = records'
  /\ UNCHANGED told

UpdateProfileFails(id, name) ==
  /\ id \in DOMAIN records
  /\ users' = With(users, id, name)
  /\ \/ /\ IF id = DefaultId THEN SpoiledRealm ELSE UNCHANGED realm
        /\ UNCHANGED <<records, catalog>>
     \/ /\ realm' = IF id = DefaultId THEN name ELSE realm
        /\ records' = With(records, id, name)
        /\ SpoiledCatalog
  /\ UNCHANGED told

\* The process dies in one of the two: what is on disk by then.
WriteDies(id, name) ==
  /\ \/ id = DefaultId /\ SpoiledRealm /\ UNCHANGED catalog
     \/ /\ realm' = IF id = DefaultId THEN name ELSE realm
        /\ catalog' \in {catalog, Torn, With(records, id, name)}
  /\ ProfilesGone
  /\ UNCHANGED told
=============================================================================
