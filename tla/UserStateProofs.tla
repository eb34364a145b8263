--------------------------- MODULE UserStateProofs ---------------------------
(***************************************************************************)
(* Theorems about UserState for every set of requests and tokens and every *)
(* time to live: how long a revoked token is served, how a profile in the  *)
(* cache can be an old one, which report of an action stands, and that the *)
(* lists of a user's context stay within their limits.                     *)
(***************************************************************************)
EXTENDS UserState, WellFoundedInduction, TLAPS

Looking(r) == auth[r] \in {"asking", "granted", "refused"}

(* An entry of the cache ends no later than the time to live after its      *)
(* token was last good, because it starts when it was still to be asked     *)
(* for; and the one request that is looked up owns now.                     *)
PrincipalInv ==
  /\ clock \in Nat /\ now \in Nat /\ lapsed \in Nat /\ now =< clock
  /\ revoked \in [Tokens -> Nat] /\ principals \in [Tokens -> Nat]
  /\ auth \in [Requests -> {"new", "asking", "granted", "refused", "passed", "rejected"}]
  /\ \A t \in Tokens : revoked[t] =< clock /\ principals[t] =< clock + Ttl
  /\ \A t \in Tokens \ valid : principals[t] =< revoked[t] + Ttl
  /\ \A r \in Requests : auth[r] = "granted" /\ TokenOf[r] \notin valid => revoked[TokenOf[r]] >= now
  /\ \A q, r \in Requests : Looking(q) /\ Looking(r) => q = r
  /\ RevokedServedBriefly

LEMMA PrincipalInvInit == Init => PrincipalInv
  BY PrincipalAssumption DEF Init, PrincipalInit, PrincipalInv, Looking, RevokedServedBriefly

LEMMA PrincipalInvStep == PrincipalInv /\ PrincipalStep => PrincipalInv'
  <1> SUFFICES ASSUME PrincipalInv, PrincipalStep PROVE PrincipalInv'
    OBVIOUS
  <1> USE PrincipalAssumption
  <1>1. CASE Tick
    BY <1>1 DEF Tick, PrincipalInv, Looking, RevokedServedBriefly
  <1>2. ASSUME NEW t \in Tokens, Revoke(t) PROVE PrincipalInv'
    BY <1>2 DEF Revoke, PrincipalInv, Looking, RevokedServedBriefly
  <1>3. ASSUME NEW r \in Requests, LookUp(r) PROVE PrincipalInv'
    <2>1. TokenOf[r] \in Tokens
      OBVIOUS
    <2>2. /\ clock' = clock /\ valid' = valid /\ revoked' = revoked /\ principals' = principals
          /\ now' = clock
      BY <1>3 DEF LookUp
    <2>3. \A q \in Requests : ~Looking(q)
      BY <1>3 DEF LookUp, LoopIsFree, Looking
    <2>4. CASE principals[TokenOf[r]] > clock
      <3>1. auth' = [auth EXCEPT ![r] = "passed"] /\ lapsed' = Lapsed(TokenOf[r], clock)
        BY <1>3, <2>4 DEF LookUp
      <3>2. lapsed' \in Nat /\ (lapsed' > 0 => lapsed' < Ttl)
        BY <2>1, <2>4, <3>1 DEF Lapsed, PrincipalInv
      <3> QED BY <2>2, <2>3, <3>1, <3>2 DEF PrincipalInv, Looking, RevokedServedBriefly
    <2>5. CASE ~(principals[TokenOf[r]] > clock)
      <3>1. auth' = [auth EXCEPT ![r] = "asking"] /\ lapsed' = lapsed
        BY <1>3, <2>5 DEF LookUp
      <3> QED BY <2>2, <2>3, <3>1 DEF PrincipalInv, Looking, RevokedServedBriefly
    <2> QED BY <2>4, <2>5
  <1>4. ASSUME NEW r \in Requests, Validate(r) PROVE PrincipalInv'
    BY <1>4 DEF Validate, PrincipalInv, Looking, RevokedServedBriefly
  <1>5. ASSUME NEW r \in Requests, Admit(r) PROVE PrincipalInv'
    <2>1. TokenOf[r] \in Tokens
      OBVIOUS
    <2>2. lapsed' = 0
      BY <1>5, <2>1 DEF Admit, Lapsed, PrincipalInv
    <2> QED BY <1>5, <2>1, <2>2 DEF Admit, PrincipalInv, Looking, RevokedServedBriefly
  <1>6. ASSUME NEW r \in Requests, Reject(r) PROVE PrincipalInv'
    BY <1>6 DEF Reject, PrincipalInv, Looking, RevokedServedBriefly
  <1> QED BY <1>1, <1>2, <1>3, <1>4, <1>5, <1>6 DEF PrincipalStep

(* The principal cache outlives a logout by less than its time to live, for *)
(* every time to live and however long the gateway takes (dispatch of       *)
(* GatewayAuthMiddleware).                                                  *)
THEOREM RevocationBounded == Spec => []RevokedServedBriefly
  <1>1. PrincipalInv /\ UNCHANGED principalVars => PrincipalInv'
    BY DEF principalVars, PrincipalInv, Looking, RevokedServedBriefly
  <1>2. PrincipalInv /\ [Next]_vars => PrincipalInv'
    BY <1>1, PrincipalInvStep DEF Next, Authenticate, UseProfile, UseContext, vars
  <1>3. PrincipalInv => RevokedServedBriefly
    BY DEF PrincipalInv
  <1> QED BY PrincipalInvInit, <1>2, <1>3, PTL DEF Spec

-----------------------------------------------------------------------------

(* What a request is about to store is what the core has, unless an update  *)
(* overtook it.                                                             *)
ProfileInv ==
  /\ ProfileType
  /\ \A r \in Requests : profile[r] = "storing" => got[r] # NoProfile
  /\ \A r \in Requests : profile[r] = "storing" => overtaken[r] \/ got[r] = core
  /\ StaleOnlyByOverlap

LEMMA ProfileInvInit == Init => ProfileInv
  <1> SUFFICES ASSUME Init PROVE ProfileInv
    OBVIOUS
  <1> USE DEF Init, ProfileInit
  <1>1. \A r \in Requests : profile[r] = "idle"
    OBVIOUS
  <1>2. ProfileType
    BY DEF ProfileType
  <1> QED BY <1>1, <1>2 DEF ProfileInv, StaleOnlyByOverlap

LEMMA ProfileInvStep ==
    ASSUME ProfileInv, NEW r \in Requests,
           Upsert(r) \/ Get(r) \/ UseStored(r) \/ Fetch(r) \/ Store(r)
    PROVE  ProfileInv'
  <1> USE ProfileAssumption DEF ProfileInv, ProfileType, StaleOnlyByOverlap
  <1>1. CASE Upsert(r)
    <2>1. CASE /\ core' = core + 1 /\ overtaken' = [q \in Requests |-> q # r]
               /\ profile' = [profile EXCEPT ![r] = "storing"]
               /\ got' = [got EXCEPT ![r] = core + 1]
               /\ UNCHANGED <<profiles, astray>>
      <3>1. ProfileType'
        BY <2>1
      <3>2. profile'[r] = "storing" /\ got'[r] = core'
        BY <2>1
      <3>3. \A q \in Requests \ {r} :
              overtaken'[q] /\ profile'[q] = profile[q] /\ got'[q] = got[q]
        BY <2>1
      <3>4. got'[r] # NoProfile
        BY <3>2, <2>1
      <3>5. \A q \in Requests : profile'[q] = "storing" => got'[q] # NoProfile
        BY <3>3, <3>4
      <3>6. \A q \in Requests : profile'[q] = "storing" => overtaken'[q] \/ got'[q] = core'
        BY <3>2, <3>3
      <3>7. StaleOnlyByOverlap'
        BY <3>2
      <3> QED BY <3>1, <3>5, <3>6, <3>7
    <2>2. CASE /\ core' = core + 1 /\ overtaken' = [q \in Requests |-> q # r]
               /\ profile' = [profile EXCEPT ![r] = "done"]
               /\ astray' = TRUE
               /\ UNCHANGED <<profiles, got>>
      <3>1. ProfileType'
        BY <2>2
      <3>2. profile'[r] = "done"
        BY <2>2
      <3>3. \A q \in Requests \ {r} :
              overtaken'[q] /\ profile'[q] = profile[q] /\ got'[q] = got[q]
        BY <2>2
      <3>4. \A q \in Requests : profile'[q] = "storing" => got'[q] # NoProfile
        BY <3>2, <3>3
      <3>5. \A q \in Requests : profile'[q] = "storing" => overtaken'[q] \/ got'[q] = core'
        BY <3>2, <3>3
      <3>6. StaleOnlyByOverlap'
        BY <2>2
      <3> QED BY <3>1, <3>4, <3>5, <3>6
    <2>3. CASE /\ profile' = [profile EXCEPT ![r] = "done"]
               /\ UNCHANGED <<core, profiles, overtaken, got, astray>>
      BY <1>1, <2>3 DEF Upsert
    <2> QED BY <1>1, <2>1, <2>2, <2>3 DEF Upsert
  <1>2. CASE Get(r)
    BY <1>2 DEF Get
  <1>3. CASE UseStored(r)
    BY <1>3 DEF UseStored
  <1>4. CASE Fetch(r)
    BY <1>4 DEF Fetch
  <1>5. CASE Store(r)
    BY <1>5 DEF Store
  <1> QED BY <1>1, <1>2, <1>3, <1>4, <1>5

(* An old profile in the cache has one of two causes, whatever the requests *)
(* and their order: an update overtook the request that stored it, or its   *)
(* own answer was lost (the runtime profile endpoints and                   *)
(* _stored_runtime_profile).                                                *)
THEOREM StaleProfileExplained == Spec => []StaleOnlyByOverlap
  <1>1. ProfileInv /\ UNCHANGED profileVars => ProfileInv'
    BY DEF profileVars, ProfileInv, ProfileType, StaleOnlyByOverlap
  <1>2. ProfileInv /\ [Next]_vars => ProfileInv'
    BY <1>1, ProfileInvStep DEF Next, Authenticate, UseProfile, UseContext, vars
  <1>3. ProfileInv => StaleOnlyByOverlap
    BY DEF ProfileInv
  <1> QED BY ProfileInvInit, <1>2, <1>3, PTL DEF Spec

-----------------------------------------------------------------------------

MarkRecord == [action : Actions, asOf : Nat]

(* The store remembers the actions of the last reports that were taken, and *)
(* a report on its way found its action not among those at its look.        *)
ReportTypes ==
  /\ asks \in [Requests -> [kind : Kinds, action : Actions]]
  /\ seen \in Seq(Actions) /\ marked \in Seq(MarkRecord) /\ asOf \in [Requests -> Nat]
  /\ reporting \in
       [Requests -> {"idle", "marking", "noting", "replacing", "inserting", "done"}]

SeenAreLast ==
  /\ Len(seen) = IF Len(marked) < SeenLimit THEN Len(marked) ELSE SeenLimit
  /\ \A k \in 1 .. Len(seen) : seen[k] = marked[Len(marked) - Len(seen) + k].action

LooksHold ==
  \A r \in Requests : reporting[r] = "marking" =>
    /\ asOf[r] =< Len(marked)
    /\ \A i \in 1 .. asOf[r] :
         marked[i].action = asks[r].action => asOf[r] >= i + SeenLimit

ContextInv == ReportTypes /\ SeenAreLast /\ LooksHold /\ FirstReportStands

LEMMA ContextInvInit == Init => ContextInv
  <1> SUFFICES ASSUME Init PROVE ContextInv
    OBVIOUS
  <1>1. asks \in [Requests -> [kind : Kinds, action : Actions]]
    BY UserStateAssumption DEF Init
  <1>2. seen = <<>> /\ marked = <<>> /\ \A r \in Requests : reporting[r] = "idle"
    BY DEF Init, ContextInit
  <1> QED BY <1>1, <1>2, ContextAssumption
          DEF Init, ContextInit, ContextInv, ReportTypes, SeenAreLast, LooksHold,
              FirstReportStands, MarkRecord

LEMMA LookSeenStep ==
    ASSUME ContextInv, UNCHANGED asks, NEW r \in Requests, LookSeen(r, asks[r].action)
    PROVE  ContextInv'
  <1> DEFINE a == asks[r].action
  <1>1. /\ UNCHANGED <<seen, marked>> /\ asOf' = [asOf EXCEPT ![r] = Len(marked)]
        /\ reporting' = [reporting EXCEPT ![r] = IF Contains(seen, a) THEN "done" ELSE "marking"]
    BY DEF LookSeen
  <1>2. ASSUME reporting'[r] = "marking", NEW i \in 1 .. Len(marked), marked[i].action = a
        PROVE  Len(marked) >= i + SeenLimit
    <2> ~Contains(seen, a)
      BY <1>1, <1>2 DEF ContextInv, ReportTypes
    <2>1. \A k \in 1 .. Len(seen) : seen[k] # a
      BY DEF Contains
    <2>2. CASE i > Len(marked) - Len(seen)
      <3>1. i - (Len(marked) - Len(seen)) \in 1 .. Len(seen)
        BY <2>2 DEF ContextInv, ReportTypes, SeenAreLast
      <3>2. seen[i - (Len(marked) - Len(seen))] = marked[i].action
        BY <3>1 DEF ContextInv, ReportTypes, SeenAreLast
      <3> QED BY <1>2, <2>1, <3>1, <3>2
    <2>3. CASE i =< Len(marked) - Len(seen)
      BY <2>3, ContextAssumption DEF ContextInv, ReportTypes, SeenAreLast
    <2> QED BY <2>2, <2>3 DEF ContextInv, ReportTypes, SeenAreLast
  <1>3. \A q \in Requests \ {r} : reporting'[q] = reporting[q] /\ asOf'[q] = asOf[q]
    BY <1>1 DEF ContextInv, ReportTypes, SeenAreLast
  <1>4. asOf'[r] = Len(marked)
    BY <1>1 DEF ContextInv, ReportTypes, SeenAreLast
  <1>5. LooksHold'
    BY <1>1, <1>2, <1>3, <1>4 DEF ContextInv, ReportTypes, LooksHold
  <1>6. ReportTypes'
    BY <1>1 DEF ContextInv, ReportTypes, MarkRecord
  <1> QED BY <1>1, <1>5, <1>6 DEF ContextInv, SeenAreLast, FirstReportStands

LEMMA MarkStep ==
    ASSUME ContextInv, UNCHANGED asks, NEW r \in Requests, Mark(r, asks[r].action)
    PROVE  ContextInv'
  <1> DEFINE a == asks[r].action
             new == [action |-> a, asOf |-> asOf[r]]
             ids == Append(seen, a)
  <1>1. /\ reporting[r] = "marking" /\ UNCHANGED asOf
        /\ seen' = IF Len(ids) > SeenLimit THEN Tail(ids) ELSE ids
        /\ marked' = Append(marked, new)
        /\ reporting' = [reporting EXCEPT ![r] = "noting"]
    BY DEF Mark, TakenInto
  <1>2. a \in Actions /\ new \in MarkRecord
    BY DEF ContextInv, ReportTypes, SeenAreLast, MarkRecord
  <1>3. /\ marked' \in Seq(MarkRecord) /\ Len(marked') = Len(marked) + 1
        /\ \A i \in 1 .. Len(marked) : marked'[i] = marked[i]
        /\ marked'[Len(marked) + 1] = new
    BY <1>1, <1>2 DEF ContextInv, ReportTypes, SeenAreLast
  <1>4. /\ ids \in Seq(Actions) /\ Len(ids) = Len(seen) + 1
        /\ \A k \in 1 .. Len(ids) : ids[k] = marked'[Len(marked') - Len(ids) + k].action
    <2>1. /\ ids \in Seq(Actions) /\ Len(ids) = Len(seen) + 1 /\ ids[Len(seen) + 1] = a
          /\ \A k \in 1 .. Len(seen) : ids[k] = seen[k]
      BY <1>2 DEF ContextInv, ReportTypes
    <2>2. Len(seen) \in Nat /\ Len(marked) \in Nat /\ Len(seen) =< Len(marked)
      BY ContextAssumption DEF ContextInv, ReportTypes, SeenAreLast
    <2>3. ASSUME NEW k \in 1 .. Len(seen)
          PROVE  ids[k] = marked'[Len(marked') - Len(ids) + k].action
      <3>1. Len(marked) - Len(seen) + k \in 1 .. Len(marked)
        BY <2>2
      <3>2. Len(marked') - Len(ids) + k = Len(marked) - Len(seen) + k
        BY <1>3, <2>1, <2>2
      <3> QED BY <1>3, <2>1, <3>1, <3>2 DEF ContextInv, SeenAreLast
    <2>4. ids[Len(ids)] = marked'[Len(marked') - Len(ids) + Len(ids)].action
      <3>1. Len(marked') - Len(ids) + Len(ids) = Len(marked) + 1
        BY <1>3, <2>1, <2>2
      <3> QED BY <1>3, <2>1, <3>1
    <2> QED BY <2>1, <2>2, <2>3, <2>4
  <1>5. seen' \in Seq(Actions) /\ SeenAreLast'
    <2>1. CASE Len(ids) > SeenLimit
      <3>1. seen' = Tail(ids)
        BY <1>1, <2>1
      <3>2. /\ seen' \in Seq(Actions) /\ Len(seen') = Len(ids) - 1
            /\ \A k \in 1 .. Len(seen') : seen'[k] = ids[k + 1]
        BY <1>4, <3>1
      <3>3. Len(seen) = SeenLimit /\ Len(seen') = SeenLimit /\ ~(Len(marked') < SeenLimit)
        BY <1>3, <1>4, <2>1, <3>2, ContextAssumption DEF ContextInv, ReportTypes, SeenAreLast
      <3>4. ASSUME NEW k \in 1 .. Len(seen')
            PROVE  seen'[k] = marked'[Len(marked') - Len(seen') + k].action
        <4>1. k + 1 \in 1 .. Len(ids) /\ seen'[k] = ids[k + 1]
          BY <1>4, <3>2
        <4>2. ids[k + 1] = marked'[Len(marked') - Len(ids) + (k + 1)].action
          BY <1>4, <4>1
        <4>3. Len(marked') - Len(ids) + (k + 1) = Len(marked') - Len(seen') + k
          BY <1>3, <1>4, <3>2 DEF ContextInv, ReportTypes
        <4> QED BY <4>1, <4>2, <4>3
      <3> QED BY <3>2, <3>3, <3>4 DEF SeenAreLast
    <2>2. CASE ~(Len(ids) > SeenLimit)
      <3>1. seen' = ids
        BY <1>1, <2>2
      <3>2. Len(ids) = IF Len(marked') < SeenLimit THEN Len(marked') ELSE SeenLimit
        BY <1>3, <1>4, <2>2, ContextAssumption DEF ContextInv, ReportTypes, SeenAreLast
      <3> QED BY <1>4, <3>1, <3>2 DEF SeenAreLast
    <2> QED BY <2>1, <2>2
  <1>6. LooksHold'
    <2> SUFFICES ASSUME NEW q \in Requests, reporting'[q] = "marking"
                 PROVE  /\ asOf'[q] =< Len(marked')
                        /\ \A i \in 1 .. asOf'[q] :
                             marked'[i].action = asks'[q].action => asOf'[q] >= i + SeenLimit
      BY DEF LooksHold
    <2>1. reporting[q] = "marking" /\ asOf'[q] = asOf[q] /\ asOf[q] \in Nat
      BY <1>1 DEF ContextInv, ReportTypes
    <2>2. /\ asOf[q] =< Len(marked)
          /\ \A i \in 1 .. asOf[q] :
               marked[i].action = asks[q].action => asOf[q] >= i + SeenLimit
      BY <2>1 DEF ContextInv, LooksHold
    <2>3. asks'[q] = asks[q] /\ Len(marked) \in Nat
      BY DEF ContextInv, ReportTypes
    <2>4. \A i \in 1 .. asOf[q] : marked'[i] = marked[i]
      BY <1>3, <2>1, <2>2, <2>3
    <2> QED BY <1>3, <2>1, <2>2, <2>3, <2>4
  <1>7. FirstReportStands'
    <2> SUFFICES ASSUME NEW i \in 1 .. Len(marked'), NEW j \in 1 .. Len(marked'),
                        i < j, marked'[i].action = marked'[j].action
                 PROVE  marked'[j].asOf < i \/ marked'[j].asOf >= i + SeenLimit
      BY <1>3 DEF FirstReportStands, ContextInv
    <2> Len(marked) \in Nat /\ DOMAIN marked = 1 .. Len(marked)
      BY DEF ContextInv, ReportTypes
    <2>1. CASE j =< Len(marked)
      <3>1. /\ i \in DOMAIN marked /\ j \in DOMAIN marked
            /\ marked'[i] = marked[i] /\ marked'[j] = marked[j]
        BY <1>3, <2>1
      <3> QED BY <3>1 DEF ContextInv, FirstReportStands
    <2>2. CASE j = Len(marked) + 1
      <3>1. marked'[j] = new /\ marked'[i] = marked[i] /\ marked[i].action = a
        BY <1>3, <2>2
      <3>2. asOf[r] \in Nat /\ (i =< asOf[r] => asOf[r] >= i + SeenLimit)
        BY <1>1, <3>1 DEF ContextInv, ReportTypes, LooksHold
      <3> QED BY <3>1, <3>2
    <2> QED BY <1>3, <2>1, <2>2
  <1>8. ReportTypes'
    BY <1>1, <1>3, <1>5 DEF ContextInv, ReportTypes, MarkRecord
  <1> QED BY <1>5, <1>6, <1>7, <1>8 DEF ContextInv

(* The rest of a report, and the end of a context, leave alone what the     *)
(* store remembers.                                                         *)
LEMMA OtherReportStep ==
    ASSUME ContextInv, UNCHANGED <<asks, seen, marked, asOf>>,
           reporting' \in
             [Requests -> {"idle", "marking", "noting", "replacing", "inserting", "done"}],
           \A q \in Requests : reporting'[q] = "marking" => reporting[q] = "marking"
    PROVE  ContextInv'
  BY DEF ContextInv, ReportTypes, MarkRecord, SeenAreLast, LooksHold, FirstReportStands

LEMMA ReportStep ==
    ASSUME ContextInv, UNCHANGED asks, NEW r \in Requests, Report(r, asks[r].action)
    PROVE  ContextInv'
  <1> DEFINE a == asks[r].action
  <1>1. CASE Note(r, a) \/ ReplaceRecent(r) \/ Insert(r, a)
    <2>1. UNCHANGED <<seen, marked, asOf>>
      BY <1>1 DEF Note, ReplaceRecent, Insert
    <2>2. \E s \in {"replacing", "inserting", "done"} : reporting' = [reporting EXCEPT ![r] = s]
      BY <1>1 DEF Note, ReplaceRecent, Insert
    <2> QED BY <2>1, <2>2, OtherReportStep DEF ContextInv, ReportTypes
  <1> QED BY <1>1, LookSeenStep, MarkStep DEF Report

(* An action's first report stands, for every number of ids remembered and  *)
(* every order of reports: a second is taken only of one that overlapped    *)
(* the first or that came after the store forgot it (_mark_seen of          *)
(* ActionContextStore).                                                     *)
THEOREM SecondReportExplained == Spec => []FirstReportStands
  <1>1. ContextInv /\ UNCHANGED <<asks, contextVars>> => ContextInv'
    BY DEF contextVars, ContextInv, ReportTypes, MarkRecord, SeenAreLast, LooksHold, FirstReportStands
  <1>2. ContextInv /\ UNCHANGED asks /\ Expire => ContextInv'
    BY OtherReportStep DEF Expire, ContextInv, ReportTypes
  <1>3. ContextInv /\ [Next]_vars => ContextInv'
    BY <1>1, <1>2, ReportStep DEF Next, Authenticate, UseProfile, UseContext, vars
  <1>4. ContextInv => FirstReportStands
    BY DEF ContextInv
  <1> QED BY ContextInvInit, <1>3, <1>4, PTL DEF Spec

-----------------------------------------------------------------------------
(* Induction over a list is by its least index that goes wrong.             *)
LEMMA LeastNumber ==
    ASSUME NEW S \in SUBSET Nat, S # {}
    PROVE  \E m \in S : \A k \in S : m =< k
  <1> DEFINE less == {pair \in Nat \X Nat : pair[1] < pair[2]}
  <1>1. IsWellFoundedOn(less, Nat)
    BY NatLessThanWellFounded DEF OpToRel
  <1>2. \A k, m \in Nat : k < m => <<k, m>> \in less
    OBVIOUS
  <1> HIDE DEF less
  <1>3. PICK m \in S : \A k \in S : ~(<<k, m>> \in less)
    BY <1>1, WFMin
  <1>4. ASSUME NEW k \in S PROVE m =< k
    <2>1. k \in Nat /\ m \in Nat
      OBVIOUS
    <2>2. ~(k < m)
      BY <1>2, <1>3, <2>1
    <2> QED BY <2>1, <2>2
  <1> QED BY <1>4

(* Without's table up to an index.                                          *)
Table(f, list, a, n) ==
  f = [i \in 0 .. n |->
         IF i = 0 THEN <<>>
         ELSE IF list[i] = a THEN f[i - 1] ELSE Append(f[i - 1], list[i])]

LEMMA TableExists ==
    ASSUME NEW list, NEW a, NEW n \in Nat
    PROVE  \E f : Table(f, list, a, n)
  <1> DEFINE bad == {m \in Nat : ~\E f : Table(f, list, a, m)}
  <1>1. ASSUME bad # {} PROVE FALSE
    <2>1. PICK m \in bad : \A k \in bad : m =< k
      BY <1>1, LeastNumber
    <2>2. m # 0
      <3>1. Table([i \in 0 .. 0 |-> <<>>], list, a, 0)
        BY DEF Table
      <3> QED BY <2>1, <3>1
    <2>3. m - 1 \in Nat /\ m - 1 \notin bad
      BY <2>1, <2>2
    <2>4. PICK f : Table(f, list, a, m - 1)
      BY <2>3
    <2> DEFINE g == [i \in 0 .. m |->
                       IF i < m THEN f[i]
                       ELSE IF list[m] = a THEN f[m - 1] ELSE Append(f[m - 1], list[m])]
    <2>5. ASSUME NEW i \in 0 .. m
          PROVE  g[i] = IF i = 0 THEN <<>>
                        ELSE IF list[i] = a THEN g[i - 1] ELSE Append(g[i - 1], list[i])
      <3>1. CASE i = m
        <4>1. g[m - 1] = f[m - 1]
          BY <2>3
        <4> QED BY <2>2, <3>1, <4>1
      <3>2. CASE i < m
        <4>1. i \in 0 .. m - 1 /\ g[i] = f[i] /\ (i # 0 => g[i - 1] = f[i - 1])
          BY <2>3, <3>2
        <4>2. f[i] = IF i = 0 THEN <<>>
                     ELSE IF list[i] = a THEN f[i - 1] ELSE Append(f[i - 1], list[i])
          BY <2>4, <4>1 DEF Table
        <4> QED BY <4>1, <4>2
      <3> QED BY <3>1, <3>2, <2>1
    <2>6. Table(g, list, a, m)
      BY <2>5 DEF Table
    <2> QED BY <2>1, <2>6
  <1> QED BY <1>1

LEMMA TableTyped ==
    ASSUME NEW S, NEW list \in Seq(S), NEW a, NEW f, Table(f, list, a, Len(list))
    PROVE  \A i \in 0 .. Len(list) : f[i] \in Seq(S) /\ Len(f[i]) =< i
  <1> DEFINE bad == {i \in 0 .. Len(list) : ~(f[i] \in Seq(S) /\ Len(f[i]) =< i)}
  <1>0. bad \subseteq Nat
    OBVIOUS
  <1>1. ASSUME bad # {} PROVE FALSE
    <2>1. PICK m \in bad : \A k \in bad : m =< k
      BY <1>0, <1>1, LeastNumber
    <2>2. m \in 0 .. Len(list) /\ Len(list) \in Nat
      BY <2>1
    <2>3. f[m] = IF m = 0 THEN <<>>
                 ELSE IF list[m] = a THEN f[m - 1] ELSE Append(f[m - 1], list[m])
      BY <2>2 DEF Table
    <2>4. m # 0
      <3>1. <<>> \in Seq(S) /\ Len(<<>>) = 0
        OBVIOUS
      <3> QED BY <2>1, <2>3, <3>1
    <2>5. m - 1 \in 0 .. Len(list) /\ m - 1 \notin bad
      <3>1. m - 1 \in 0 .. Len(list) /\ ~(m =< m - 1)
        BY <2>2, <2>4
      <3> HIDE DEF bad
      <3> QED BY <2>1, <3>1
    <2>6. f[m - 1] \in Seq(S) /\ Len(f[m - 1]) =< m - 1
      BY <2>5
    <2>7. list[m] \in S
      BY <2>2, <2>4
    <2> DEFINE short == f[m - 1]
               long  == Append(short, list[m])
    <2>8. short \in Seq(S) /\ Len(short) =< m
      BY <2>2, <2>6
    <2> HIDE DEF short
    <2>9. long \in Seq(S) /\ Len(long) = Len(short) + 1
      BY <2>7, <2>8
    <2>10. Len(long) =< m
      BY <2>2, <2>6, <2>8, <2>9 DEF short
    <2>11. f[m] = short \/ f[m] = long
      BY <2>3, <2>4 DEF short
    <2>12. f[m] \in Seq(S) /\ Len(f[m]) =< m
      BY <2>8, <2>9, <2>10, <2>11
    <2> QED BY <2>1, <2>2, <2>12
  <1> QED BY <1>1

(* What is left of a list without an action is a list, and no longer.      *)
LEMMA WithoutTyped ==
    ASSUME NEW S, NEW list \in Seq(S), NEW a
    PROVE  Without(list, a) \in Seq(S) /\ Len(Without(list, a)) =< Len(list)
  <1> DEFINE f == CHOOSE f : Table(f, list, a, Len(list))
  <1>1. Table(f, list, a, Len(list))
    BY TableExists
  <1>2. Without(list, a) = f[Len(list)]
    BY DEF Without, Table
  <1> HIDE DEF f
  <1> QED BY <1>1, <1>2, TableTyped

-----------------------------------------------------------------------------
(* The lists that reports carry are as long as the store's at most.         *)
CarriedTyped ==
  \A r \in Requests : kept[r] \in Seq(Actions) /\ Len(kept[r]) =< RecentLimit

Typed == TypeOK /\ kept \in [Requests -> Seq(Actions)] /\ CarriedTyped

LEMMA TypedInit == Init => Typed
  <1> SUFFICES ASSUME Init PROVE Typed
    OBVIOUS
  <1> USE PrincipalAssumption, ProfileAssumption, ContextAssumption, UserStateAssumption
  <1>1. PrincipalType
    BY DEF Init, PrincipalInit, PrincipalType
  <1>2. ProfileType
    BY DEF Init, ProfileInit, ProfileType
  <1>3. <<>> \in Seq(Actions) /\ Len(<<>>) = 0
    OBVIOUS
  <1>4. ContextType
    BY <1>3 DEF Init, ContextInit, ContextType, Nowhere
  <1>5. kept \in [Requests -> Seq(Actions)] /\ CarriedTyped
    BY <1>3 DEF Init, ContextInit, CarriedTyped
  <1> QED BY <1>1, <1>2, <1>4, <1>5 DEF Init, Typed, TypeOK

LEMMA PrincipalTyped ==
    ASSUME PrincipalType, PrincipalStep
    PROVE  PrincipalType'
  <1> USE PrincipalAssumption DEF PrincipalType
  <1>1. ASSUME NEW t \in Tokens, NEW time \in Nat PROVE Lapsed(t, time) \in Nat
    BY DEF Lapsed
  <1>2. CASE Tick
    BY <1>2 DEF Tick
  <1>3. ASSUME NEW t \in Tokens, Revoke(t) PROVE PrincipalType'
    BY <1>3 DEF Revoke
  <1>4. ASSUME NEW r \in Requests, LookUp(r) PROVE PrincipalType'
    <2>1. TokenOf[r] \in Tokens /\ clock \in Nat
      OBVIOUS
    <2>2. Lapsed(TokenOf[r], clock) \in Nat
      BY <1>1, <2>1
    <2> QED BY <1>4, <2>1, <2>2 DEF LookUp
  <1>5. ASSUME NEW r \in Requests, Validate(r) PROVE PrincipalType'
    BY <1>5 DEF Validate
  <1>6. ASSUME NEW r \in Requests, Admit(r) PROVE PrincipalType'
    <2>1. TokenOf[r] \in Tokens
      OBVIOUS
    <2>2. Lapsed(TokenOf[r], now) \in Nat
      BY <1>1, <2>1
    <2> QED BY <1>6, <2>1, <2>2 DEF Admit
  <1>7. ASSUME NEW r \in Requests, Reject(r) PROVE PrincipalType'
    BY <1>7 DEF Reject
  <1> QED BY <1>2, <1>3, <1>4, <1>5, <1>6, <1>7 DEF PrincipalStep

LEMMA ProfileTyped ==
    ASSUME ProfileType, NEW r \in Requests, UseProfile(r)
    PROVE  ProfileType'
  <1> USE DEF ProfileType
  <1>1. CASE Upsert(r)
    <2>1. core' \in Nat
      BY <1>1 DEF Upsert
    <2>2. astray' \in BOOLEAN
      BY <1>1, Zenon DEF Upsert
    <2>3. overtaken' \in [Requests -> BOOLEAN]
      <3> DEFINE others == [q \in Requests |-> q # r]
      <3>1. others \in [Requests -> BOOLEAN]
        OBVIOUS
      <3>2. overtaken' = others \/ overtaken' = overtaken
        BY <1>1, Zenon DEF Upsert
      <3> HIDE DEF others
      <3> QED BY <3>1, <3>2
    <2>4. /\ profiles' = profiles
          /\ \/ profile' = [profile EXCEPT ![r] = "storing"]
             \/ profile' = [profile EXCEPT ![r] = "done"]
          /\ got' = got \/ got' = [got EXCEPT ![r] = core + 1]
      BY <1>1, Zenon DEF Upsert
    <2> QED BY <2>1, <2>2, <2>3, <2>4
  <1>2. CASE Get(r) \/ UseStored(r)
    BY <1>2 DEF Get, UseStored
  <1>3. CASE Fetch(r)
    BY <1>3 DEF Fetch
  <1>4. CASE Store(r)
    BY <1>4 DEF Store
  <1> QED BY <1>1, <1>2, <1>3, <1>4 DEF UseProfile

(* A report puts its action in front of a list and cuts the list.           *)
LEMMA PutInFront ==
    ASSUME NEW S, NEW list \in Seq(S), NEW a \in S, NEW n \in Nat, Len(list) =< n
    PROVE  LET new == SubSeq(<<a>> \o list, 1, IF Len(list) < n THEN Len(list) + 1 ELSE n)
           IN new \in Seq(S) /\ Len(new) =< n
  <1> DEFINE whole == <<a>> \o list
             k == IF Len(list) < n THEN Len(list) + 1 ELSE n
  <1>1. whole \in Seq(S) /\ Len(whole) = Len(list) + 1
    OBVIOUS
  <1>2. k \in Nat /\ k =< n /\ k =< Len(whole)
    BY <1>1
  <1> HIDE DEF whole, k
  <1>3. SubSeq(whole, 1, k) \in Seq(S) /\ Len(SubSeq(whole, 1, k)) = k
    BY <1>1, <1>2
  <1> QED BY <1>2, <1>3 DEF whole, k

LEMMA ContextTyped ==
    ASSUME ContextType, kept \in [Requests -> Seq(Actions)], CarriedTyped,
           NEW r \in Requests, NEW a \in Actions, Report(r, a)
    PROVE  (ContextType /\ kept \in [Requests -> Seq(Actions)] /\ CarriedTyped)'
  <1> USE ContextAssumption
  <1>1. CASE LookSeen(r, a)
    BY <1>1 DEF LookSeen, ContextType, CarriedTyped
  <1>2. CASE Mark(r, a)
    <2> DEFINE ids == Append(seen, a)
    <2>1. ids \in Seq(Actions) /\ Len(ids) = Len(seen) + 1 /\ Len(seen) =< SeenLimit
      BY DEF ContextType
    <2>2. ids # <<>>
      <3>1. Len(seen) \in Nat /\ Len(<<>>) = 0
        BY DEF ContextType
      <3> HIDE DEF ids
      <3> QED BY <2>1, <3>1
    <2> HIDE DEF ids
    <2>3. Tail(ids) \in Seq(Actions) /\ Len(Tail(ids)) = Len(ids) - 1
      BY <2>1, <2>2
    <2>4. seen' = IF Len(ids) > SeenLimit THEN Tail(ids) ELSE ids
      BY <1>2 DEF Mark, TakenInto, ids
    <2>5. Len(seen) \in Nat
      BY DEF ContextType
    <2>6. seen' \in Seq(Actions) /\ Len(seen') =< SeenLimit
      BY <2>1, <2>3, <2>4, <2>5
    <2>7. /\ UNCHANGED <<latest, recent, working, kept>>
          /\ reporting' = [reporting EXCEPT ![r] = "noting"]
      BY <1>2 DEF Mark, TakenInto
    <2> QED BY <2>6, <2>7 DEF ContextType, CarriedTyped
  <1>3. CASE Note(r, a)
    <2>1. Without(recent, a) \in Seq(Actions) /\ Len(Without(recent, a)) =< RecentLimit
      <3>1. recent \in Seq(Actions) /\ Len(recent) =< RecentLimit
        BY DEF ContextType
      <3>2. Without(recent, a) \in Seq(Actions) /\ Len(Without(recent, a)) =< Len(recent)
        BY <3>1, WithoutTyped
      <3>3. Len(recent) \in Nat /\ Len(Without(recent, a)) \in Nat
        BY <3>1, <3>2
      <3> QED BY <3>1, <3>2, <3>3
    <2>2. /\ UNCHANGED <<seen, recent, working>> /\ latest' = a
          /\ reporting' = [reporting EXCEPT ![r] = "replacing"]
          /\ kept' = [kept EXCEPT ![r] = Without(recent, a)]
      BY <1>3 DEF Note
    <2> QED BY <2>1, <2>2 DEF ContextType, CarriedTyped
  <1>4. CASE ReplaceRecent(r)
    BY <1>4 DEF ReplaceRecent, ContextType, CarriedTyped
  <1>5. CASE Insert(r, a)
    <2>1. recent' \in Seq(Actions) /\ Len(recent') =< RecentLimit
      <3>1. recent \in Seq(Actions) /\ Len(recent) =< RecentLimit /\ RecentLimit \in Nat
        BY DEF ContextType
      <3>2. recent' = SubSeq(<<a>> \o recent, 1,
                             IF Len(recent) < RecentLimit THEN Len(recent) + 1 ELSE RecentLimit)
        BY <1>5 DEF Insert
      <3> QED BY <3>1, <3>2, PutInFront
    <2> DEFINE Working == [ surface : {"none", "app", "browser"}, app : Actions \cup {NoAction},
                            browser : Actions \cup {NoAction}, typed : Actions \cup {NoAction} ]
    <2>2. working \in Working
      BY DEF ContextType
    <2>3. Completed(working, a) \in Working
      BY <2>2 DEF Completed
    <2>4. working' \in Working
      BY <1>5, <2>2, <2>3 DEF Insert
    <2>5. UNCHANGED <<seen, latest, kept>> /\ reporting' = [reporting EXCEPT ![r] = "done"]
      BY <1>5 DEF Insert
    <2> QED BY <2>1, <2>4, <2>5 DEF ContextType, CarriedTyped
  <1> QED BY <1>1, <1>2, <1>3, <1>4, <1>5 DEF Report

LEMMA TypedStep == Typed /\ [Next]_vars => Typed'
  <1> SUFFICES ASSUME Typed, [Next]_vars PROVE Typed'
    OBVIOUS
  <1>1. CASE Authenticate
    BY <1>1, PrincipalTyped
       DEF Authenticate, Typed, TypeOK, CarriedTyped, ProfileType, ContextType, profileVars, contextVars
  <1>2. ASSUME NEW r \in Requests, UseProfile(r) PROVE Typed'
    <2>1. ProfileType'
      BY <1>2, ProfileTyped DEF Typed, TypeOK
    <2>2. UNCHANGED <<asks, principalVars, contextVars>>
      BY <1>2 DEF UseProfile
    <2> QED BY <2>1, <2>2
            DEF Typed, TypeOK, CarriedTyped, PrincipalType, ContextType, principalVars, contextVars
  <1>3. CASE UseContext
    <2>1. UNCHANGED <<asks, principalVars, profileVars>>
      BY <1>3 DEF UseContext
    <2>2. (ContextType /\ kept \in [Requests -> Seq(Actions)] /\ CarriedTyped)'
      <3>1. ASSUME NEW r \in Requests, Report(r, asks[r].action)
            PROVE  (ContextType /\ kept \in [Requests -> Seq(Actions)] /\ CarriedTyped)'
        <4>1. asks[r].action \in Actions
          BY UserStateAssumption DEF Typed, TypeOK
        <4> QED BY <3>1, <4>1, ContextTyped DEF Typed, TypeOK
      <3>2. CASE Expire
        <4>1. <<>> \in Seq(Actions) /\ Len(<<>>) = 0
          OBVIOUS
        <4> QED BY <3>2, <4>1, ContextAssumption
                DEF Expire, Typed, TypeOK, ContextType, CarriedTyped, Nowhere
      <3> QED BY <1>3, <3>1, <3>2 DEF UseContext
    <2> QED BY <2>1, <2>2 DEF Typed, TypeOK, PrincipalType, ProfileType, principalVars, profileVars
  <1>4. CASE UNCHANGED vars
    BY <1>4 DEF vars, Typed, TypeOK, CarriedTyped, PrincipalType, ProfileType, ContextType,
                principalVars, profileVars, contextVars
  <1> QED BY <1>1, <1>2, <1>3, <1>4 DEF Next

(* Every variable keeps its type, and the lists of a user's context stay    *)
(* within their limits, however the reports that change them overlap        *)
(* (_mark_seen, _record_recent_action).                                     *)
THEOREM UserStateTypeCorrect == Spec => []TypeOK
  <1>1. Typed => TypeOK
    BY DEF Typed
  <1> QED BY TypedInit, TypedStep, <1>1, PTL DEF Spec
=============================================================================
