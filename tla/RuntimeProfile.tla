--------------------------- MODULE RuntimeProfile ---------------------------
(***************************************************************************)
(* The runtime profile of one user in router/router.py: the core keeps it, *)
(* the controller keeps a copy in app.state.runtime_profiles, without a    *)
(* lock and without an end.                                                *)
(*                                                                         *)
(* Endpoints run on threads of a pool: between a call to the core and the  *)
(* store of its answer any other request may do all of its own.            *)
(***************************************************************************)
EXTENDS UserRequests

CONSTANT NoProfile

ASSUME ProfileAssumption == NoProfile \notin Nat

VARIABLES
  core,      \* the version of the profile that the core has
  profiles,  \* the version in the cache, or NoProfile
  profile,   \* where each request is: "idle", "asking" the core, "storing" its answer, "done"
  got,       \* the version that it has got
  overtaken, \* history: the core's version changed since
  astray     \* history: the cache's last version was overtaken, or an update's answer got lost

profileVars == <<core, profiles, profile, got, overtaken, astray>>

ProfileInit ==
  /\ core = 0 /\ profiles = NoProfile
  /\ profile = [r \in Requests |-> "idle"] /\ got = [r \in Requests |-> NoProfile]
  /\ overtaken = [r \in Requests |-> FALSE] /\ astray = FALSE

-----------------------------------------------------------------------------

\* upsert_client_runtime_profile: the core stores the profile and answers, fails, or answers in vain.
Upsert(r) ==
  /\ profile[r] = "idle"
  /\ \/ /\ core' = core + 1
        /\ overtaken' = [q \in Requests |-> q # r]
        /\ \/ /\ profile' = [profile EXCEPT ![r] = "storing"]
              /\ got' = [got EXCEPT ![r] = core + 1]
              /\ UNCHANGED astray
           \/ /\ profile' = [profile EXCEPT ![r] = "done"]
              /\ astray' = TRUE
              /\ UNCHANGED got
     \/ /\ profile' = [profile EXCEPT ![r] = "done"]
        /\ UNCHANGED <<core, overtaken, got, astray>>
  /\ UNCHANGED profiles

\* get_client_runtime_profile asks the core, whatever the cache holds.
Get(r) ==
  /\ profile[r] = "idle"
  /\ profile' = [profile EXCEPT ![r] = "asking"]
  /\ UNCHANGED <<core, profiles, got, overtaken, astray>>

\* _stored_runtime_profile, for a turn: the cache first.
UseStored(r) ==
  /\ profile[r] = "idle"
  /\ IF profiles = NoProfile
     THEN profile' = [profile EXCEPT ![r] = "asking"] /\ UNCHANGED got
     ELSE profile' = [profile EXCEPT ![r] = "done"] /\ got' = [got EXCEPT ![r] = profiles]
  /\ UNCHANGED <<core, profiles, overtaken, astray>>

\* The core answers, or fails, and what failed is not stored.
Fetch(r) ==
  /\ profile[r] = "asking"
  /\ \/ /\ profile' = [profile EXCEPT ![r] = "storing"]
        /\ got' = [got EXCEPT ![r] = core]
        /\ overtaken' = [overtaken EXCEPT ![r] = FALSE]
     \/ /\ profile' = [profile EXCEPT ![r] = "done"]
        /\ UNCHANGED <<got, overtaken>>
  /\ UNCHANGED <<core, profiles, astray>>

\* The cache keeps what it has.
StoreFirstOnly(r) ==
  /\ profile[r] = "storing"
  /\ profiles' = IF profiles = NoProfile THEN got[r] ELSE profiles
  /\ profile' = [profile EXCEPT ![r] = "done"]
  /\ astray' = IF profiles = NoProfile THEN overtaken[r] ELSE astray
  /\ UNCHANGED <<core, got, overtaken>>

Store(r) ==
  /\ profile[r] = "storing"
  /\ profiles' = got[r]
  /\ profile' = [profile EXCEPT ![r] = "done"]
  /\ astray' = overtaken[r]
  /\ UNCHANGED <<core, got, overtaken>>

-----------------------------------------------------------------------------

ProfileType ==
  /\ core \in Nat /\ profiles \in Nat \cup {NoProfile}
  /\ profile \in [Requests -> {"idle", "asking", "storing", "done"}]
  /\ got \in [Requests -> Nat \cup {NoProfile}]
  /\ overtaken \in [Requests -> BOOLEAN] /\ astray \in BOOLEAN

\* A turn is never given an old profile but by an overlap: while the cache differs from the core,
\* the newest version is on its way to the cache, or the last store came from a request that an
\* update overtook, or an update's answer got lost.  Without a lock no more is promised.
StaleOnlyByOverlap ==
  profiles \notin {NoProfile, core} =>
    astray \/ \E r \in Requests : profile[r] = "storing" /\ got[r] = core
=============================================================================
