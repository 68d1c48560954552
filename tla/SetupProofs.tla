----------------------------- MODULE SetupProofs -----------------------------
(***************************************************************************)
(* The invariants of Setup, for any accounts, chargers, payloads and rows  *)
(* that older versions left.                                               *)
(***************************************************************************)
EXTENDS Setup, TLAPS

(***************************************************************************)
(* Rows.                                                                   *)
(***************************************************************************)
LEMMA UidsKinds ==
    /\ DoubledIds \subseteq Uids
    /\ AccountSensors \subseteq Uids
    /\ AccountRows = AccountSensors \cup DoubledIds
    /\ \A e \in Entries : \A p \in Answers[e], i \in 1..6 :
            Creates(PLATFORMS[i], p) \subseteq Uids
BY DEF Uids, AccountRows

\* The corrected id of a doubled one is an account sensor's, and no two doubled
\* ids have the same one.
LEMMA CorrectedIds ==
    /\ \A u \in DoubledIds : Corrected(u) \in AccountSensors
    /\ \A u \in DoubledIds : Corrected(u) \notin DoubledIds
    /\ \A u, w \in DoubledIds : Corrected(u) = Corrected(w) => u = w
<1>1. ASSUME NEW u \in DoubledIds
      PROVE  /\ u = <<"sensor", Doubled, u[3]>> /\ u[3] \in AccountKeys
             /\ Corrected(u) = <<"sensor", Account, u[3]>>
  BY DEF DoubledIds, Corrected
<1>2. Account # Doubled
  BY DEF Account, Doubled
<1>3. \A u \in DoubledIds : Corrected(u) \notin DoubledIds
  <2> SUFFICES ASSUME NEW u \in DoubledIds, Corrected(u) \in DoubledIds PROVE FALSE
    OBVIOUS
  <2> QED
    BY <1>1, <1>2
<1>4. \A u, w \in DoubledIds : Corrected(u) = Corrected(w) => u = w
  <2> SUFFICES ASSUME NEW u \in DoubledIds, NEW w \in DoubledIds,
                      Corrected(u) = Corrected(w)
               PROVE  u = w
    OBVIOUS
  <2>1. <<"sensor", Account, u[3]>> = <<"sensor", Account, w[3]>>
    BY <1>1
  <2>2. u[3] = w[3]
    BY <2>1
  <2> QED
    BY <1>1, <2>2
<1> QED
  BY <1>1, <1>3, <1>4 DEF AccountSensors

\* No platform creates an entity with a doubled id.
LEMMA CreatesNoDoubled ==
    ASSUME NEW e \in Entries, NEW p \in Answers[e], NEW platform,
           NEW u \in Creates(platform, p)
    PROVE  u \notin DoubledIds
<1>1. Roster(p) \subseteq Chargers
  BY AnswersAssumption DEF IsPayload
<1>2. u[2] \in Chargers \cup {Account}
  <2>1. CASE u \in AccountSensors
    BY <2>1 DEF AccountSensors
  <2>2. CASE u \notin AccountSensors
    <3>1. PICK c \in Roster(p) : u \in {platform} \X {c} \X KeysOn(platform, p.chargers[c])
      BY <2>2 DEF Creates
    <3> QED
      BY <1>1, <3>1
  <2> QED
    BY <2>1, <2>2
<1>3. Doubled \notin Chargers \cup {Account}
  BY ChargersAssumption DEF Account, Doubled
<1>4. \A w \in DoubledIds : w[2] = Doubled
  BY DEF DoubledIds
<1> QED
  BY <1>2, <1>3, <1>4

(***************************************************************************)
(* Types.                                                                  *)
(***************************************************************************)
LEMMA InitTypeOK == Init => TypeOK
<1> SUFFICES ASSUME Init PROVE TypeOK
  OBVIOUS
<1>1. PICK b \in Before :
        /\ owner = [u \in Uids |-> IF u \in DOMAIN b THEN b[u] ELSE None]
        /\ phase = [e \in Entries |-> IF \E u \in DOMAIN b : b[u] = e
                                      THEN "down" ELSE "absent"]
  BY DEF Init
<1>2. \A u \in DOMAIN b : b[u] \in Entries \cup {None}
  BY BeforeAssumption
<1>3. owner \in [Uids -> Entries \cup {None}]
  BY <1>1, <1>2
<1>4. \A e \in Entries : ~Up(e)
  BY <1>1 DEF Up
<1>5. maker = [u \in AccountRows |-> IF owner[u] = None THEN None ELSE Earlier]
  BY DEF Init
<1> QED
  BY <1>1, <1>3, <1>4, <1>5 DEF Init, TypeOK, None, Earlier

\* What the migration does to the registry.
LEMMA Renaming ==
    ASSUME TypeOK, NEW e \in Entries, NEW row,
           row \in {owner, maker}
    PROVE  /\ \A u \in Migrates(e) :
                /\ owner[u] = e /\ u \in DoubledIds /\ owner[Corrected(u)] = None
                /\ Renamed(row, Migrates(e))[u] = None
                /\ Renamed(row, Migrates(e))[Corrected(u)] = row[u]
           /\ \A u \in DOMAIN row \ Migrates(e) :
                \/ Renamed(row, Migrates(e))[u] = row[u]
                \/ \E w \in Migrates(e) : u = Corrected(w)
           /\ DOMAIN Renamed(row, Migrates(e)) = DOMAIN row
<1> DEFINE moved == Migrates(e)
<1>0. AccountRows \subseteq DOMAIN row
  BY UidsKinds DEF TypeOK
<1>1. \A u \in moved : /\ u \in DOMAIN row /\ owner[u] = e /\ u \in DoubledIds
                       /\ owner[Corrected(u)] = None
  BY <1>0, UidsKinds DEF Migrates, Rows
<1>2. \A u \in moved : Corrected(u) \in DOMAIN row /\ Corrected(u) \notin moved
  BY <1>0, <1>1, CorrectedIds, UidsKinds
<1>3. \A u \in moved : (CHOOSE w \in moved : Corrected(w) = Corrected(u)) = u
  BY <1>1, CorrectedIds
<1> HIDE DEF moved
<1>4. \A u \in moved : Renamed(row, moved)[u] = None
  BY <1>1 DEF Renamed
<1>5. \A u \in moved : Renamed(row, moved)[Corrected(u)] = row[u]
  BY <1>2, <1>3 DEF Renamed
<1>6. \A u \in DOMAIN row \ moved : \/ Renamed(row, moved)[u] = row[u]
                                    \/ \E w \in moved : u = Corrected(w)
  BY DEF Renamed
<1>7. DOMAIN Renamed(row, moved) = DOMAIN row
  BY DEF Renamed
<1> QED
  BY <1>1, <1>4, <1>5, <1>6, <1>7 DEF moved

\* The first refresh and the migration.
LEMMA FetchedTypeOK ==
    ASSUME TypeOK, NEW e \in Entries, NEW p \in Answers[e], Fetched(e, p)
    PROVE  TypeOK'
<1> DEFINE moved == Migrates(e)
<1>1. /\ phase[e] = "down"
      /\ phase' = [phase EXCEPT ![e] = "platforms"]
      /\ data' = [data EXCEPT ![e] = p]
      /\ UNCHANGED <<done, lag, live>>
      /\ owner' = Renamed(owner, moved)
      /\ maker' = Renamed(maker, moved)
  BY DEF Fetched, Refreshed
<1>0. DOMAIN owner = Uids /\ DOMAIN maker = AccountRows
  BY DEF TypeOK
<1>2. /\ \A u \in moved : /\ owner[u] = e /\ u \in AccountRows
                          /\ owner[Corrected(u)] = None
                          /\ Corrected(u) \in AccountRows
                          /\ owner'[u] = None /\ owner'[Corrected(u)] = e
                          /\ maker'[u] = None /\ maker'[Corrected(u)] = maker[u]
      /\ \A u \in Uids \ moved : \/ owner'[u] = owner[u]
                                 \/ \E w \in moved : u = Corrected(w)
      /\ \A u \in AccountRows \ moved : \/ maker'[u] = maker[u]
                                        \/ \E w \in moved : u = Corrected(w)
  <2>1. \A u \in moved : /\ owner[u] = e /\ u \in AccountRows /\ u \in DoubledIds
                         /\ owner[Corrected(u)] = None
                         /\ Corrected(u) \in AccountRows
    BY Renaming, CorrectedIds, UidsKinds DEF Migrates, Rows
  <2>2. \A u \in moved : /\ owner'[u] = None /\ owner'[Corrected(u)] = owner[u]
                         /\ maker'[u] = None /\ maker'[Corrected(u)] = maker[u]
    BY <1>1, Renaming
  <2>3. \A u \in Uids \ moved : \/ owner'[u] = owner[u]
                                \/ \E w \in moved : u = Corrected(w)
    BY <1>0, <1>1, Renaming
  <2>4. \A u \in AccountRows \ moved : \/ maker'[u] = maker[u]
                                       \/ \E w \in moved : u = Corrected(w)
    BY <1>0, <1>1, Renaming
  <2> QED
    BY <2>1, <2>2, <2>3, <2>4
<1>3. /\ owner' \in [Uids -> Entries \cup {None}]
      /\ maker' \in [AccountRows -> Entries \cup {None, Earlier}]
  <2>1. DOMAIN owner' = Uids /\ DOMAIN maker' = AccountRows
    BY <1>0, <1>1, Renaming
  <2>2. \A u \in Uids : owner'[u] \in Entries \cup {None}
    BY <1>2 DEF TypeOK
  <2>3. \A u \in AccountRows : maker'[u] \in Entries \cup {None, Earlier}
    BY <1>2 DEF TypeOK
  <2>4. /\ owner' = [u \in Uids |-> owner'[u]]
        /\ maker' = [u \in AccountRows |-> maker'[u]]
    BY <1>0, <1>1 DEF Renamed
  <2> QED
    BY <2>2, <2>3, <2>4
<1> HIDE DEF moved
<1>4. ASSUME NEW u \in Uids
      PROVE  live'[u] # None => live'[u] = owner'[u] /\ Up(live[u])'
  <2>0. live[u] # None => live[u] = owner[u] /\ Up(live[u]) /\ live[u] \in Entries
    BY DEF TypeOK
  <2>1. \A d \in Entries : Up(d) => Up(d)' /\ d # e
    BY <1>1 DEF Up, TypeOK
  <2>2. CASE u \in moved
    <3>1. live[u] = None
      BY <1>1, <1>2, <2>0, <2>1, <2>2
    <3> QED
      BY <1>1, <3>1
  <2>3. CASE \E w \in moved : u = Corrected(w)
    <3>1. live[u] = None
      BY <1>2, <2>0, <2>3
    <3> QED
      BY <1>1, <3>1
  <2>4. CASE owner'[u] = owner[u]
    <3>1. live'[u] = live[u]
      BY <1>1
    <3> QED
      BY <2>0, <2>1, <2>4, <3>1
  <2> QED
    BY <1>2, <2>2, <2>3, <2>4
<1>6. ASSUME NEW u \in AccountRows
      PROVE  owner'[u] = None <=> maker'[u] = None
  <2>0. u \in Uids /\ (owner[u] = None <=> maker[u] = None)
    BY UidsKinds DEF TypeOK
  <2>1. CASE u \in moved
    BY <1>2, <2>1
  <2>2. CASE \E w \in moved : u = Corrected(w)
    <3>1. PICK w \in moved : u = Corrected(w)
      BY <2>2
    <3>2. maker[w] # None
      BY <1>2, <3>1, EntriesAssumption DEF TypeOK
    <3>3. owner'[u] = e /\ maker'[u] = maker[w]
      BY <1>2, <3>1
    <3> QED
      BY <3>2, <3>3, EntriesAssumption
  <2>3. CASE u \notin moved /\ ~\E w \in moved : u = Corrected(w)
    BY <1>2, <2>0, <2>3
  <2> QED
    BY <2>1, <2>2, <2>3
<1>5. \A d \in Entries : data'[d] \in (IF Up(d)' THEN Answers[d] ELSE {NoData})
  BY <1>1 DEF TypeOK, Up
<1> QED
  BY <1>1, <1>3, <1>4, <1>5, <1>6 DEF TypeOK

LEMMA AddPlatformTypeOK ==
    ASSUME TypeOK, NEW e \in Entries, AddPlatform(e)
    PROVE  TypeOK'
<1>1. PICK new : 
        /\ owner' = [u \in Uids |-> IF u \in new THEN e ELSE owner[u]]
        /\ maker' = [u \in AccountRows |-> IF u \in new /\ owner[u] = None
                                           THEN e ELSE maker[u]]
        /\ live' = [u \in Uids |-> IF u \in new /\ u[3] \notin DisabledByDefault
                                   THEN e ELSE live[u]]
        /\ \A u \in new : live[u] = None
  BY DEF AddPlatform
<1>2. /\ phase[e] = "platforms" /\ phase' = phase /\ data' = data /\ lag' = lag
      /\ done[e] \in 0..5 /\ done' = [done EXCEPT ![e] = @ + 1]
  BY DEF AddPlatform, TypeOK
<1>3. done' \in [Entries -> 0..6]
  BY <1>2 DEF TypeOK
<1>4. \A d : Up(d)' <=> Up(d)
  BY <1>2 DEF Up
<1>5. /\ owner' \in [Uids -> Entries \cup {None}]
      /\ maker' \in [AccountRows -> Entries \cup {None, Earlier}]
      /\ live' \in [Uids -> Entries \cup {None}]
  BY <1>1 DEF TypeOK
<1>6. ASSUME NEW u \in Uids
      PROVE  live'[u] # None => live'[u] = owner'[u] /\ Up(live[u])'
  BY <1>1, <1>2, <1>4, EntriesAssumption DEF TypeOK, Up
<1>7. ASSUME NEW u \in AccountRows
      PROVE  owner'[u] = None <=> maker'[u] = None
  BY <1>1, UidsKinds, EntriesAssumption DEF TypeOK
<1> QED
  BY <1>2, <1>3, <1>4, <1>5, <1>6, <1>7 DEF TypeOK

LEMMA RemoveTypeOK ==
    ASSUME TypeOK, NEW e \in Entries, Remove(e)
    PROVE  TypeOK'
<1>1. \A d \in Entries : d # e => (Up(d)' <=> Up(d))
  BY DEF Remove, Up, TypeOK
<1>2. ~Up(e)'
  BY DEF Remove, Up, TypeOK
<1>3. ASSUME NEW u \in Uids
      PROVE  live'[u] # None => live'[u] = owner'[u] /\ Up(live[u])'
  BY <1>1 DEF Remove, TypeOK, registry
<1>5. ASSUME NEW u \in AccountRows
      PROVE  owner'[u] = None <=> maker'[u] = None
  BY UidsKinds DEF Remove, TypeOK
<1>4. \A d \in Entries : data'[d] \in (IF Up(d)' THEN Answers[d] ELSE {NoData})
  BY <1>1, <1>2 DEF Remove, TypeOK
<1> QED
  BY <1>3, <1>4, <1>5 DEF Remove, TypeOK, registry

LEMMA ReloadTypeOK ==
    ASSUME TypeOK, NEW e \in Entries, Reload(e)
    PROVE  TypeOK'
<1> USE DEF Reload, Unloads
<1>1. \A d \in Entries : d # e => (Up(d)' <=> Up(d))
  BY DEF Up, TypeOK
<1>2. ~Up(e)'
  BY DEF Up, TypeOK
<1>3. ASSUME NEW u \in Uids
      PROVE  live'[u] # None => live'[u] = owner'[u] /\ Up(live[u])'
  BY <1>1 DEF TypeOK, registry
<1>4. \A d \in Entries : data'[d] \in (IF Up(d)' THEN Answers[d] ELSE {NoData})
  BY <1>1, <1>2 DEF TypeOK
<1> QED
  BY <1>3, <1>4 DEF TypeOK, registry

\* Every step keeps the types.
LEMMA NextTypeOK == TypeOK /\ [Next]_vars => TypeOK'
<1> SUFFICES ASSUME TypeOK, [Next]_vars PROVE TypeOK'
  OBVIOUS
<1>1. ASSUME NEW e \in Entries, Create(e) PROVE TypeOK'
  BY <1>1 DEF Create, TypeOK, Up, registry
<1>2. ASSUME NEW e \in Entries, Loads(e) PROVE TypeOK'
  BY <1>2 DEF Loads, TypeOK, Up, registry
<1>3. ASSUME NEW e \in Entries, Poll(e) PROVE TypeOK'
  BY <1>3 DEF Poll, TypeOK, Up, registry
<1>4. ASSUME NEW e \in Entries, SaveOptions(e) PROVE TypeOK'
  BY <1>4 DEF SaveOptions, TypeOK, Up, registry
<1>5. CASE Restart
  BY <1>5 DEF Restart, TypeOK, Up, registry
<1>6. CASE UNCHANGED vars
  BY <1>6 DEF vars, TypeOK, Up, registry
<1> QED
  BY <1>1, <1>2, <1>3, <1>4, <1>5, <1>6, FetchedTypeOK, AddPlatformTypeOK,
     ReloadTypeOK, RemoveTypeOK DEF Next, Living, Proceeds

\* Types; and an entity that is live belongs to an entry that is up and owns
\* its row.
THEOREM TypeCorrect == Spec => []TypeOK
BY InitTypeOK, NextTypeOK, PTL DEF Spec

(***************************************************************************)
(* Rows stay.                                                              *)
(***************************************************************************)
LEMMA FetchedRowsStay ==
    ASSUME TypeOK, NEW e \in Entries, NEW p \in Answers[e], Fetched(e, p)
    PROVE  RowsStay
<1>1. owner' = Renamed(owner, Migrates(e)) /\ maker' = Renamed(maker, Migrates(e))
  BY DEF Fetched
<1>2. ASSUME NEW u \in Migrates(e)
      PROVE  /\ u \in DoubledIds /\ owner[Corrected(u)] = None
             /\ owner'[Corrected(u)] = owner[u] /\ maker'[Corrected(u)] = maker[u]
  BY <1>1, <1>2, Renaming
<1>3. ASSUME NEW u \in Uids \ Migrates(e), owner[u] # None
      PROVE  owner'[u] # None /\ (u \in AccountRows => maker'[u] = maker[u])
  <2>1. ~ \E w \in Migrates(e) : u = Corrected(w)
    BY <1>2, <1>3
  <2>2. owner'[u] = owner[u]
    BY <1>1, <2>1, Renaming DEF TypeOK
  <2>3. u \in AccountRows => maker'[u] = maker[u]
    BY <1>1, <2>1, Renaming DEF TypeOK
  <2> QED
    BY <1>3, <2>2, <2>3
<1> QED
  BY <1>2, <1>3 DEF RowsStay

\* A row goes only with its entry, or by being renamed to an id nobody has, and
\* no row takes the place of another.
THEOREM Preserved == Spec => NeverMerged
<1>1. TypeOK /\ [Next]_vars => [RowsStay]_vars
  <2> SUFFICES ASSUME TypeOK, Next PROVE RowsStay
    OBVIOUS
  <2>1. ASSUME NEW e \in Entries, AddPlatform(e) PROVE RowsStay
    <3>1. PICK new :
            /\ owner' = [u \in Uids |-> IF u \in new THEN e ELSE owner[u]]
            /\ maker' = [u \in AccountRows |-> IF u \in new /\ owner[u] = None
                                               THEN e ELSE maker[u]]
      BY <2>1 DEF AddPlatform
    <3> QED
      BY <3>1, EntriesAssumption DEF RowsStay
  <2>2. ASSUME NEW e \in Entries, Remove(e) PROVE RowsStay
    BY <2>2 DEF Remove, RowsStay, TypeOK
  <2>3. ASSUME UNCHANGED registry PROVE RowsStay
    BY <2>3 DEF RowsStay, registry
  <2>4. ASSUME NEW e \in Entries,
               \/ Create(e) \/ Loads(e) \/ Poll(e) \/ Reload(e) \/ SaveOptions(e)
        PROVE  UNCHANGED registry
    BY <2>4 DEF Create, Loads, Poll, Reload, Unloads, SaveOptions
  <2>5. Restart => UNCHANGED registry
    BY DEF Restart
  <2> QED
    BY <2>1, <2>2, <2>3, <2>4, <2>5, FetchedRowsStay DEF Next, Living, Proceeds
<1> QED
  BY <1>1, TypeCorrect, PTL DEF Spec, NeverMerged

(***************************************************************************)
(* History is kept.                                                        *)
(***************************************************************************)
NoneRemoved == \A e \in Entries : phase[e] # "removed"

\* A corrected row beside a doubled one of some entry is not that entry's make,
\* whatever the phase the entry is in: no setup can find it otherwise.
NoTwin == NoneRemoved =>
    \A u \in DoubledIds :
        owner[u] # None /\ owner[Corrected(u)] # None => maker[Corrected(u)] # owner[u]

HInv == TypeOK /\ NoTwin /\ HistoryKept

LEMMA InitHInv == Init => HInv
<1> SUFFICES ASSUME Init PROVE HInv
  OBVIOUS
<1>1. TypeOK
  BY InitTypeOK
<1>2. \A e \in Entries : ~Up(e)
  BY DEF Init, Up
<1>3. HistoryKept
  BY <1>1, <1>2, UidsKinds DEF HistoryKept, TypeOK
<1>4. \A u \in AccountRows : maker[u] \in {None, Earlier}
  BY DEF Init
<1>5. NoTwin
  <2> SUFFICES ASSUME NEW u \in DoubledIds, owner[u] # None
               PROVE  maker[Corrected(u)] # owner[u]
    BY DEF NoTwin
  <2>1. owner[u] \in Entries /\ Corrected(u) \in AccountRows
    BY <1>1, UidsKinds, CorrectedIds DEF TypeOK
  <2> QED
    BY <1>4, <2>1, EntriesAssumption
<1> QED
  BY <1>1, <1>3, <1>5 DEF HInv

LEMMA FetchedHInv ==
    ASSUME HInv, NEW e \in Entries, NEW p \in Answers[e], Fetched(e, p)
    PROVE  NoTwin' /\ HistoryKept'
<1> USE DEF HInv
<1>1. /\ owner' = Renamed(owner, Migrates(e)) /\ maker' = Renamed(maker, Migrates(e))
      /\ phase[e] = "down" /\ phase' = [phase EXCEPT ![e] = "platforms"]
  BY DEF Fetched, Refreshed
<1>2. CASE ~NoneRemoved'
  BY <1>2 DEF NoTwin, HistoryKept, NoneRemoved
<1>3. CASE NoneRemoved'
  <2>1. NoneRemoved
    BY <1>1, <1>3 DEF NoneRemoved, TypeOK
  <2>2. ASSUME NEW u \in DoubledIds, owner'[u] # None
        PROVE  /\ owner'[u] = owner[u]
               /\ u \notin Migrates(e)
               /\ maker'[Corrected(u)] = maker[Corrected(u)]
               /\ owner'[Corrected(u)] = owner[Corrected(u)]
    <3>1. /\ u \in Uids /\ Corrected(u) \in AccountRows
          /\ Corrected(u) \in Uids /\ Corrected(u) \notin DoubledIds
      BY UidsKinds, CorrectedIds
    <3>2. u \notin Migrates(e)
      BY <1>1, <2>2, Renaming
    <3>3. \A w \in Migrates(e) : w \in DoubledIds /\ u # Corrected(w)
      BY Renaming, CorrectedIds
    <3>4. \A w \in Migrates(e) : Corrected(u) # Corrected(w)
      BY <3>2, <3>3, CorrectedIds
    <3>5. Corrected(u) \notin Migrates(e)
      BY <3>1, <3>3
    <3>6. owner'[u] = owner[u]
      BY <1>1, <3>1, <3>2, <3>3, Renaming DEF TypeOK
    <3>7. owner'[Corrected(u)] = owner[Corrected(u)]
      BY <1>1, <3>1, <3>4, <3>5, Renaming DEF TypeOK
    <3>8. maker'[Corrected(u)] = maker[Corrected(u)]
      BY <1>1, <3>1, <3>4, <3>5, Renaming DEF TypeOK
    <3> QED
      BY <3>2, <3>6, <3>7, <3>8
  <2>3. NoTwin'
    BY <2>1, <2>2 DEF NoTwin, NoneRemoved
  <2>4. ASSUME NEW u \in DoubledIds, owner'[u] # None, Up(owner[u])'
        PROVE  owner'[Corrected(u)] # None
    <3>1. CASE owner[u] = e
      <4>1. u \in Rows(e)
        BY <3>1, UidsKinds DEF Rows
      <4>2. owner[Corrected(u)] # None
        BY <2>2, <2>4, <4>1 DEF Migrates
      <4> QED
        BY <2>2, <2>4, <4>2
    <3>2. CASE owner[u] # e
      <4>1. Up(owner[u])
        BY <1>1, <2>2, <2>4, <3>2 DEF Up, TypeOK
      <4> QED
        BY <2>1, <2>2, <2>4, <4>1 DEF HistoryKept, NoneRemoved
    <3> QED
      BY <3>1, <3>2
  <2>5. HistoryKept'
    BY <2>3, <2>4, <1>3 DEF HistoryKept, NoTwin
  <2> QED
    BY <2>3, <2>5
<1> QED
  BY <1>2, <1>3

LEMMA AddPlatformHInv ==
    ASSUME HInv, NEW e \in Entries, AddPlatform(e)
    PROVE  NoTwin' /\ HistoryKept'
<1> USE DEF HInv
<1>1. PICK new \in SUBSET Creates(PLATFORMS[done[e] + 1], data[e]) :
        /\ owner' = [u \in Uids |-> IF u \in new THEN e ELSE owner[u]]
        /\ maker' = [u \in AccountRows |-> IF u \in new /\ owner[u] = None
                                           THEN e ELSE maker[u]]
  BY DEF AddPlatform
<1>2. phase[e] = "platforms" /\ phase' = phase /\ Up(e) /\ data[e] \in Answers[e]
  BY DEF AddPlatform, Up, TypeOK
<1>3. \A u \in DoubledIds : u \notin new
  BY <1>1, <1>2, CreatesNoDoubled
<1>4. \A u \in DoubledIds : /\ u \in Uids /\ Corrected(u) \in Uids
                            /\ Corrected(u) \in AccountRows
  BY UidsKinds, CorrectedIds
<1>5. NoneRemoved' <=> NoneRemoved
  BY <1>2 DEF NoneRemoved
<1>6. \A u \in DoubledIds : Up(owner[u])' <=> Up(owner[u])
  BY <1>1, <1>2, <1>3, <1>4 DEF Up
<1>7. ASSUME NoneRemoved, NEW u \in DoubledIds, owner'[u] # None
      PROVE  /\ owner'[Corrected(u)] # None => maker'[Corrected(u)] # owner'[u]
             /\ owner[Corrected(u)] # None => owner'[Corrected(u)] # None
  <2>1. owner'[u] = owner[u]
    BY <1>1, <1>3, <1>4
  <2>2. CASE owner[Corrected(u)] # None
    <3>1. maker'[Corrected(u)] = maker[Corrected(u)] /\ owner'[Corrected(u)] # None
      BY <1>1, <1>4, <2>2, EntriesAssumption
    <3> QED
      BY <1>7, <2>1, <2>2, <3>1 DEF NoTwin
  <2>3. CASE owner[Corrected(u)] = None
    <3>1. ~Up(owner[u])
      BY <1>7, <2>1, <2>3 DEF HistoryKept, NoneRemoved
    <3>2. owner[u] # e
      BY <1>2, <3>1
    <3>3. Corrected(u) \notin new => owner'[Corrected(u)] = None
      BY <1>1, <1>4, <2>3
    <3>4. Corrected(u) \in new => maker'[Corrected(u)] = e
      BY <1>1, <1>4, <2>3
    <3> QED
      BY <2>1, <2>3, <3>2, <3>3, <3>4
  <2> QED
    BY <2>2, <2>3
<1>8. NoTwin'
  BY <1>5, <1>7 DEF NoTwin
<1>9. ASSUME NoneRemoved, NEW u \in DoubledIds, owner'[u] # None, Up(owner[u])'
      PROVE  owner'[Corrected(u)] # None
  <2>1. owner'[u] = owner[u]
    BY <1>1, <1>3, <1>4
  <2> QED
    BY <1>6, <1>7, <1>9, <2>1 DEF HistoryKept, NoneRemoved
<1>10. HistoryKept'
  BY <1>5, <1>7, <1>9 DEF HistoryKept, NoneRemoved
<1> QED
  BY <1>8, <1>10

LEMMA NextHInv == HInv /\ [Next]_vars => HInv'
<1> SUFFICES ASSUME HInv, [Next]_vars PROVE NoTwin' /\ HistoryKept'
  BY NextTypeOK DEF HInv
<1> USE DEF HInv
<1>1. ASSUME NEW e \in Entries, Remove(e) PROVE NoTwin' /\ HistoryKept'
  <2>1. phase'[e] = "removed"
    BY <1>1 DEF Remove, TypeOK
  <2> QED
    BY <2>1 DEF NoTwin, HistoryKept, NoneRemoved
<1>2. ASSUME UNCHANGED registry, \A e \in Entries : Up(e)' => Up(e),
             NoneRemoved' => NoneRemoved
      PROVE  NoTwin' /\ HistoryKept'
  <2>1. ASSUME NEW u \in DoubledIds, owner[u] # None, Up(owner[u])'
        PROVE  Up(owner[u])
    BY <1>2, <2>1, UidsKinds DEF TypeOK, registry
  <2> QED
    BY <1>2, <2>1 DEF NoTwin, HistoryKept, NoneRemoved, registry
<1>3. ASSUME NEW e \in Entries,
             \/ Create(e) \/ Loads(e) \/ Poll(e) \/ Reload(e) \/ SaveOptions(e)
      PROVE  /\ UNCHANGED registry /\ \A d \in Entries : Up(d)' => Up(d)
             /\ NoneRemoved' => NoneRemoved
  BY <1>3 DEF Create, Loads, Poll, Reload, Unloads, SaveOptions, Up, NoneRemoved, TypeOK
<1>4. Restart => /\ UNCHANGED registry /\ \A d \in Entries : Up(d)' => Up(d)
                 /\ NoneRemoved' => NoneRemoved
  BY DEF Restart, Up, NoneRemoved, TypeOK
<1>5. UNCHANGED vars => /\ UNCHANGED registry /\ \A d \in Entries : Up(d)' => Up(d)
                        /\ NoneRemoved' => NoneRemoved
  BY DEF vars, Up, NoneRemoved
<1> QED
  BY <1>1, <1>2, <1>3, <1>4, <1>5, FetchedHInv, AddPlatformHInv DEF Next, Living, Proceeds

\* As long as no entry is removed, no entry that is up leaves a doubled row of
\* its own behind and starts a new one in its place.
THEOREM History == Spec => []HistoryKept
<1>1. Spec => []HInv
  BY InitHInv, NextHInv, PTL DEF Spec
<1>2. HInv => HistoryKept
  BY DEF HInv
<1> QED
  BY <1>1, <1>2, PTL

(***************************************************************************)
(* Entities of a charger.                                                  *)
(***************************************************************************)
\* A live entity is of a charger of its entry, and of a platform that its entry
\* has set up.
LiveSource ==
    \A u \in Uids : live[u] # None =>
        /\ u[2] \in Chargers => \E p \in Answers[live[u]] : u[2] \in Roster(p)
        /\ \A i \in 1..6 : u[1] = PLATFORMS[i]
                => phase[live[u]] = "loaded" \/ done[live[u]] >= i

EInv == TypeOK /\ LiveSource /\ LegacySensorsStay /\ OneSlider

\* What a platform creates is its own; of a charger, by the charger's keys.
LEMMA CreatesIds ==
    ASSUME NEW platform, NEW p, NEW u \in Creates(platform, p)
    PROVE  /\ u[1] = platform
           /\ u[2] = Account \/ (u[2] \in Roster(p) /\ u[3] \in KeysOn(platform, p.chargers[u[2]]))
<1>1. CASE u \in AccountSensors
  BY <1>1 DEF Creates, AccountSensors
<1>2. CASE u \notin AccountSensors
  <2>1. PICK c \in Roster(p) : u \in {platform} \X {c} \X KeysOn(platform, p.chargers[c])
    BY <1>2 DEF Creates
  <2> QED
    BY <2>1
<1> QED
  BY <1>1, <1>2

LEMMA CreatesKeys ==
    ASSUME NEW platform, NEW p, NEW c \in Roster(p), NEW k \in KeysOn(platform, p.chargers[c])
    PROVE  <<platform, c, k>> \in Creates(platform, p)
BY DEF Creates

\* Entities only go: they are live afterwards only if they were before, of
\* the same entry, which stays where it is or loads, and then all of its
\* entities are still there.
LEMMA EntitiesGo ==
    ASSUME EInv, TypeOK',
           \A u \in Uids : live'[u] # None =>
                /\ live'[u] = live[u]
                /\ \/ phase'[live[u]] = "loaded"
                   \/ phase'[live[u]] = phase[live[u]] /\ done'[live[u]] = done[live[u]],
           \A u, w \in Uids : live'[u] # None /\ live[w] = live[u] => live'[w] = live[w]
    PROVE  EInv'
<1>1. LegacySensorsStay'
  <2> SUFFICES ASSUME NEW e \in Entries, NEW c \in Chargers,
                      NEW k \in DOMAIN SensorCapability, NEW l \in LegacySensorKeys,
                      <<"sensor", c, k>> \in Uids, live'[<<"sensor", c, k>>] = e,
                      OnlyOf(e, c)
               PROVE  <<"sensor", c, l>> \in Uids /\ live'[<<"sensor", c, l>>] = e
    BY DEF LegacySensorsStay
  <2>1. live[<<"sensor", c, k>>] = e
    BY EntriesAssumption
  <2>2. <<"sensor", c, l>> \in Uids /\ live[<<"sensor", c, l>>] = e
    BY <2>1 DEF EInv, LegacySensorsStay
  <2> QED
    BY <2>1, <2>2, EntriesAssumption
<1>2. OneSlider'
  BY EntriesAssumption DEF EInv, OneSlider
<1>3. LiveSource'
  BY DEF EInv, LiveSource
<1> QED
  BY <1>1, <1>2, <1>3 DEF EInv

\* Nothing of the platform that is next is the entry's on its chargers yet, and
\* nobody else's on those that only it names.
LEMMA NextPlatformFree ==
    ASSUME EInv, NEW e \in Entries, AddPlatform(e), NEW u \in Uids,
           u[1] = PLATFORMS[done[e] + 1], u[2] \in Roster(data[e])
    PROVE  live[u] # e /\ (OnlyOf(e, u[2]) => live[u] = None)
<1> USE DEF EInv
<1>1. /\ done[e] + 1 \in 1..6 /\ done[e] \in 0..6
      /\ phase[e] = "platforms" /\ data[e] \in Answers[e]
  BY DEF AddPlatform, TypeOK, Up
<1>2. u[2] \in Chargers
  BY <1>1, AnswersAssumption DEF IsPayload
<1>3. live[u] # e
  <2> SUFFICES ASSUME live[u] = e PROVE FALSE
    OBVIOUS
  <2>1. done[e] >= done[e] + 1
    BY <1>1, EntriesAssumption DEF LiveSource
  <2> QED
    BY <1>1, <2>1
<1>4. ASSUME OnlyOf(e, u[2]), live[u] # None PROVE FALSE
  <2>1. live[u] \in Entries
    BY <1>4 DEF TypeOK
  <2>2. PICK q \in Answers[live[u]] : u[2] \in Roster(q)
    BY <1>2, <1>4 DEF LiveSource
  <2> QED
    BY <1>3, <1>4, <2>1, <2>2 DEF OnlyOf
<1> QED
  BY <1>3, <1>4

LEMMA AddPlatformEInv ==
    ASSUME EInv, NEW e \in Entries, AddPlatform(e)
    PROVE  EInv'
<1> USE DEF EInv
<1> DEFINE p == data[e]
           i == done[e] + 1
<1>1. PICK new :
        /\ new = {u \in Creates(PLATFORMS[i], p) : live[u] = None}
        /\ live' = [u \in Uids |-> IF u \in new /\ u[3] \notin DisabledByDefault
                                   THEN e ELSE live[u]]
  BY DEF AddPlatform
<1>2. /\ i \in 1..6 /\ done' = [done EXCEPT ![e] = i]
      /\ phase[e] = "platforms" /\ phase' = phase /\ p \in Answers[e]
      /\ done \in [Entries -> 0..6]
  BY DEF AddPlatform, TypeOK, Up
<1>3. Creates(PLATFORMS[i], p) \subseteq Uids
  BY <1>2, UidsKinds
<1>4. Roster(p) \subseteq Chargers
  BY <1>2, AnswersAssumption DEF IsPayload
<1>5. \A h, j \in 1..6 : PLATFORMS[h] = PLATFORMS[j] => h = j
  BY DEF PLATFORMS
<1> HIDE DEF p, i
<1>6. ASSUME NEW u \in Uids, u[1] = PLATFORMS[i], u[2] \in Roster(p)
      PROVE  live[u] # e /\ (OnlyOf(e, u[2]) => live[u] = None)
  BY <1>6, NextPlatformFree DEF p, i
<1>7. LiveSource'
  <2> SUFFICES ASSUME NEW u \in Uids, live'[u] # None
               PROVE  /\ u[2] \in Chargers => \E q \in Answers[live'[u]] : u[2] \in Roster(q)
                      /\ \A j \in 1..6 : u[1] = PLATFORMS[j]
                            => phase'[live'[u]] = "loaded" \/ done'[live'[u]] >= j
    BY DEF LiveSource
  <2>1. CASE u \in new /\ u[3] \notin DisabledByDefault
    <3>1. live'[u] = e /\ done'[e] = i
      BY <1>1, <1>2, <2>1
    <3>2. u[1] = PLATFORMS[i] /\ (u[2] = Account \/ u[2] \in Roster(p))
      BY <1>1, <2>1, CreatesIds
    <3>3. u[2] \in Chargers => u[2] \in Roster(p)
      BY <3>2, ChargersAssumption
    <3> QED
      BY <1>2, <1>5, <3>1, <3>2, <3>3
  <2>2. CASE ~(u \in new /\ u[3] \notin DisabledByDefault)
    <3>1. live'[u] = live[u] /\ live[u] \in Entries
      BY <1>1, <2>2 DEF TypeOK
    <3>2. done'[live[u]] >= done[live[u]]
      BY <1>2, <3>1 DEF i
    <3>3. \A j \in 1..6 : u[1] = PLATFORMS[j]
                            => phase'[live[u]] = "loaded" \/ done'[live[u]] >= j
      BY <1>2, <3>1, <3>2 DEF LiveSource
    <3> QED
      BY <3>1, <3>3 DEF LiveSource
  <2> QED
    BY <2>1, <2>2
<1>8. LegacySensorsStay'
  <2> SUFFICES ASSUME NEW d \in Entries, NEW c \in Chargers,
                      NEW k \in DOMAIN SensorCapability, NEW l \in LegacySensorKeys,
                      <<"sensor", c, k>> \in Uids, live'[<<"sensor", c, k>>] = d,
                      OnlyOf(d, c)
               PROVE  <<"sensor", c, l>> \in Uids /\ live'[<<"sensor", c, l>>] = d
    BY DEF LegacySensorsStay
  <2>1. CASE live[<<"sensor", c, k>>] = d
    <3>1. <<"sensor", c, l>> \in Uids /\ live[<<"sensor", c, l>>] = d
      BY <2>1 DEF LegacySensorsStay
    <3>2. live[<<"sensor", c, l>>] # None
      BY <3>1, EntriesAssumption
    <3> QED
      BY <1>1, <3>1, <3>2
  <2>2. CASE live[<<"sensor", c, k>>] # d
    <3>1. d = e /\ <<"sensor", c, k>> \in new
      BY <1>1, <2>2
    <3>2. "sensor" = PLATFORMS[i] /\ c \in Roster(p)
      <4>1. c # Account
        BY ChargersAssumption
      <4> QED
        BY <1>1, <3>1, <4>1, CreatesIds
    <3>3. l \in KeysOn("sensor", p.chargers[c]) /\ l \notin DisabledByDefault
      BY DEF KeysOn, SensorKeys, SensorCapability, LegacySensorKeys, DisabledByDefault
    <3>4. <<"sensor", c, l>> \in Creates("sensor", p)
      BY <3>2, <3>3, CreatesKeys
    <3>5. <<"sensor", c, l>> \in Uids /\ live[<<"sensor", c, l>>] = None
      <4>1. OnlyOf(e, c)
        BY <3>1
      <4>2. <<"sensor", c, l>> \in Uids
        BY <1>3, <3>2, <3>4
      <4> QED
        BY <1>6, <3>2, <4>1, <4>2
    <3> QED
      BY <1>1, <3>1, <3>2, <3>3, <3>4, <3>5
  <2> QED
    BY <2>1, <2>2
<1>9. OneSlider'
  <2> SUFFICES ASSUME NEW d \in Entries, NEW c \in Chargers,
                      \A k \in {"max_current", "evduty_max_current"} :
                        <<"number", c, k>> \in Uids /\ live'[<<"number", c, k>>] = d
               PROVE  FALSE
    BY DEF OneSlider
  <2>1. PICK k \in {"max_current", "evduty_max_current"} :
            d = e /\ <<"number", c, k>> \in new
    BY <1>1 DEF OneSlider
  <2>2. PLATFORMS[i] = "number" /\ c \in Roster(p)
    <3>1. c # Account
      BY ChargersAssumption
    <3> QED
      BY <1>1, <2>1, <3>1, CreatesIds
  <2>3. ASSUME NEW l \in {"max_current", "evduty_max_current"}
        PROVE  l \in NumberKeys(p.chargers[c])
    <3>1. live[<<"number", c, l>>] # e
      BY <1>6, <2>2
    <3>2. <<"number", c, l>> \in new
      BY <1>1, <2>1, <3>1
    <3>3. l \in KeysOn("number", p.chargers[c])
      <4>1. c # Account
        BY ChargersAssumption
      <4> QED
        BY <1>1, <2>2, <3>2, <4>1, CreatesIds
    <3> QED
      BY <3>3 DEF KeysOn
  <2> QED
    BY <2>3 DEF NumberKeys
<1>10. TypeOK'
  BY AddPlatformTypeOK
<1> QED
  BY <1>7, <1>8, <1>9, <1>10

LEMMA InitEInv == Init => EInv
<1> SUFFICES ASSUME Init PROVE EInv
  OBVIOUS
<1>1. \A u \in Uids : live[u] = None
  BY DEF Init
<1>2. LegacySensorsStay
  BY <1>1, EntriesAssumption DEF LegacySensorsStay
<1>3. OneSlider
  BY <1>1, EntriesAssumption DEF OneSlider
<1> QED
  BY <1>1, <1>2, <1>3, InitTypeOK DEF EInv, LiveSource

LEMMA NextEInv == EInv /\ [Next]_vars => EInv'
<1> SUFFICES ASSUME EInv, [Next]_vars PROVE EInv'
  OBVIOUS
<1>0. TypeOK /\ TypeOK'
  BY NextTypeOK DEF EInv
<1>1. \A u \in Uids : live[u] # None =>
        live[u] \in Entries /\ live[u] = owner[u] /\ Up(live[u])
  BY <1>0 DEF TypeOK
<1>2. ASSUME UNCHANGED live,
             \A d \in Entries : Up(d) => \/ phase'[d] = "loaded"
                                         \/ phase'[d] = phase[d] /\ done'[d] = done[d]
      PROVE  EInv'
  BY <1>0, <1>1, <1>2, EntitiesGo
<1>3. ASSUME NEW e \in Entries, NEW p \in Answers[e], Fetched(e, p) PROVE EInv'
  BY <1>0, <1>2, <1>3 DEF Fetched, Refreshed, Up, TypeOK
<1>4. ASSUME NEW e \in Entries, Create(e) \/ Loads(e) \/ Poll(e) \/ SaveOptions(e)
      PROVE  EInv'
  <2>1. UNCHANGED live
    BY <1>4 DEF Create, Loads, Poll, SaveOptions
  <2>2. \A d \in Entries : Up(d) => \/ phase'[d] = "loaded"
                                    \/ phase'[d] = phase[d] /\ done'[d] = done[d]
    <3> SUFFICES ASSUME NEW d \in Entries, Up(d)
                 PROVE  \/ phase'[d] = "loaded"
                        \/ phase'[d] = phase[d] /\ done'[d] = done[d]
      OBVIOUS
    <3> QED
      BY <1>0, <1>4 DEF Create, Loads, Poll, SaveOptions, Up, TypeOK
  <2> QED
    BY <1>2, <2>1, <2>2
<1>5. ASSUME NEW e \in Entries, Reload(e) PROVE EInv'
  <2>1. /\ live' = [u \in Uids |-> IF live[u] = e THEN None ELSE live[u]]
        /\ phase' = [phase EXCEPT ![e] = "down"] /\ done' = done
    BY <1>5 DEF Reload, Unloads
  <2> QED
    BY <1>0, <1>1, <2>1, EntitiesGo DEF TypeOK
<1>6. ASSUME NEW e \in Entries, Remove(e) PROVE EInv'
  <2>1. /\ live' = [u \in Uids |-> IF owner[u] = e THEN None ELSE live[u]]
        /\ phase' = [phase EXCEPT ![e] = "removed"] /\ done' = done
    BY <1>6 DEF Remove
  <2>2. \A u \in Uids : live'[u] # None => live'[u] = live[u] /\ live[u] # e
    BY <1>1, <2>1
  <2>3. \A u, w \in Uids : live'[u] # None /\ live[w] = live[u] => live'[w] = live[w]
    BY <1>1, <2>1, <2>2
  <2> QED
    BY <1>0, <1>1, <2>1, <2>2, <2>3, EntitiesGo DEF TypeOK
<1>7. CASE Restart
  <2>1. \A u \in Uids : live'[u] = None
    BY <1>7 DEF Restart
  <2> QED
    BY <1>0, <2>1, EntitiesGo
<1>8. CASE UNCHANGED vars
  BY <1>2, <1>8 DEF vars
<1> QED
  BY <1>3, <1>4, <1>5, <1>6, <1>7, <1>8, AddPlatformEInv DEF Next, Living, Proceeds

LEMMA EntityInvariant == Spec => []EInv
BY InitEInv, NextEInv, PTL DEF Spec

\* The sensors of the first releases are there for every charger that has any,
\* if no other entry names the charger.
THEOREM LegacySensors == Spec => []LegacySensorsStay
<1>1. EInv => LegacySensorsStay
  BY DEF EInv
<1> QED
  BY <1>1, EntityInvariant, PTL

\* An entry never gives a charger both sliders, whether or not other entries
\* name the charger too.
THEOREM Sliders == Spec => []OneSlider
<1>1. EInv => OneSlider
  BY DEF EInv
<1> QED
  BY <1>1, EntityInvariant, PTL

(***************************************************************************)
(* A setup is whole.                                                       *)
(***************************************************************************)
\* Platforms are counted during a setup only.
CountsSetup == \A e \in Entries : phase[e] # "platforms" => done[e] = 0

XInv == EInv /\ CountsSetup /\ SetUpExactly

\* What SetUpExactly says of one entry.
ExactFor(e) == /\ phase[e] = "platforms" => HasExactly(e, data[e], done[e])
               /\ phase[e] = "loaded" => \E p \in Answers[e] : HasExactly(e, p, 6)

LEMMA MadeMembers ==
    ASSUME NEW p, NEW n \in Nat, NEW u
    PROVE  u \in Made(p, n) <=> /\ u[3] \notin DisabledByDefault
                               /\ \E i \in 1..n : u \in Creates(PLATFORMS[i], p)
BY DEF Made

LEMMA MadeUids ==
    ASSUME NEW e \in Entries, NEW p \in Answers[e], NEW n \in 0..6
    PROVE  Made(p, n) \subseteq Uids
BY UidsKinds, MadeMembers

\* What an entry that stays where it is has does not change with the others.
LEMMA StaysExact ==
    ASSUME TypeOK, SetUpExactly, NEW e \in Entries, phase'[e] = phase[e],
           phase[e] = "platforms" => data'[e] = data[e] /\ done'[e] = done[e],
           \A u \in Uids : live'[u] = e <=> live[u] = e
    PROVE  ExactFor(e)'
<1>1. ASSUME NEW p \in Answers[e], NEW n \in 0..6, HasExactly(e, p, n)
      PROVE  /\ \A u \in Uids : live'[u] = e => u \in Made(p, n)
             /\ \A u \in Made(p, n) :
                    u[2] \in Chargers /\ OnlyOf(e, u[2]) => live'[u] = e
  BY <1>1, MadeUids DEF HasExactly
<1>2. CASE phase[e] = "platforms"
  <2>1. data[e] \in Answers[e] /\ done[e] \in 0..6 /\ HasExactly(e, data[e], done[e])
    BY <1>2 DEF SetUpExactly, TypeOK, Up
  <2> QED
    BY <1>1, <1>2, <2>1 DEF ExactFor, HasExactly
<1>3. CASE phase[e] = "loaded"
  <2>1. PICK p \in Answers[e] : HasExactly(e, p, 6)
    BY <1>3 DEF SetUpExactly
  <2> QED
    BY <1>1, <1>3, <2>1 DEF ExactFor, HasExactly
<1>4. CASE phase[e] \notin {"platforms", "loaded"}
  BY <1>4 DEF ExactFor
<1> QED
  BY <1>2, <1>3, <1>4

\* A setup begins with no platform and no entity.
LEMMA FetchedExact ==
    ASSUME XInv, NEW e \in Entries, NEW p \in Answers[e], Fetched(e, p)
    PROVE  ExactFor(e)'
<1>1. /\ phase'[e] = "platforms" /\ data'[e] = p /\ done'[e] = 0
      /\ live' = live /\ \A u \in Uids : live[u] # e
  BY EntriesAssumption
     DEF Fetched, Refreshed, XInv, EInv, TypeOK, CountsSetup, Up
<1>2. \A u : u \notin Made(p, 0)
  BY MadeMembers
<1> QED
  BY <1>1, <1>2 DEF ExactFor, HasExactly

\* The next platform adds what it makes of the payload, all of it.
LEMMA AddPlatformExact ==
    ASSUME XInv, NEW e \in Entries, AddPlatform(e)
    PROVE  ExactFor(e)'
<1> DEFINE p == data[e]
           n == done[e]
<1>1. PICK new :
        /\ new = {u \in Creates(PLATFORMS[n + 1], p) : live[u] = None}
        /\ live' = [u \in Uids |-> IF u \in new /\ u[3] \notin DisabledByDefault
                                   THEN e ELSE live[u]]
  BY DEF AddPlatform
<1>2. /\ n \in 0..6 /\ n + 1 \in 1..6 /\ p \in Answers[e]
      /\ phase'[e] = "platforms" /\ data'[e] = p /\ done'[e] = n + 1
      /\ HasExactly(e, p, n)
  BY DEF AddPlatform, XInv, EInv, TypeOK, Up, SetUpExactly
<1>3. ASSUME NEW u, u[1] = PLATFORMS[n + 1], u[2] \in Roster(p), u \in Uids,
             OnlyOf(e, u[2])
      PROVE  live[u] = None
  BY <1>3, NextPlatformFree DEF XInv
<1> HIDE DEF p, n
<1>4. \A u : u \in Made(p, n + 1) <=>
                \/ u \in Made(p, n)
                \/ u \in Creates(PLATFORMS[n + 1], p) /\ u[3] \notin DisabledByDefault
  <2>1. \A u : u \in Made(p, n) <=> /\ u[3] \notin DisabledByDefault
                                    /\ \E i \in 1..n : u \in Creates(PLATFORMS[i], p)
    BY <1>2, MadeMembers
  <2>2. \A u : u \in Made(p, n + 1) <=>
                 /\ u[3] \notin DisabledByDefault
                 /\ \E i \in 1..(n + 1) : u \in Creates(PLATFORMS[i], p)
    BY <1>2, MadeMembers
  <2>3. \A i : i \in 1..(n + 1) <=> i \in 1..n \/ i = n + 1
    BY <1>2
  <2> QED
    BY <2>1, <2>2, <2>3
<1>5. \A u \in Uids : live'[u] = e => u \in Made(p, n + 1)
  BY <1>1, <1>2, <1>4 DEF HasExactly
<1>6. ASSUME NEW u \in Made(p, n + 1), u[2] \in Chargers, OnlyOf(e, u[2])
      PROVE  live'[u] = e
  <2>1. u \in Uids
    BY <1>2, MadeUids
  <2>2. CASE u \in Made(p, n)
    <3>1. live[u] = e
      BY <1>2, <1>6, <2>2 DEF HasExactly
    <3> QED
      BY <1>1, <2>1, <3>1
  <2>3. CASE u \notin Made(p, n)
    <3>1. u \in Creates(PLATFORMS[n + 1], p) /\ u[3] \notin DisabledByDefault
      BY <1>4, <2>3
    <3>2. u[1] = PLATFORMS[n + 1] /\ u[2] \in Roster(p)
      BY <1>6, <3>1, CreatesIds, ChargersAssumption
    <3>3. live[u] = None
      BY <1>3, <1>6, <2>1, <3>2
    <3> QED
      BY <1>1, <2>1, <3>1, <3>3
  <2> QED
    BY <2>2, <2>3
<1> QED
  BY <1>2, <1>5, <1>6 DEF ExactFor, HasExactly

\* A loaded entry keeps what the last platform completed.
LEMMA LoadsExact ==
    ASSUME XInv, NEW e \in Entries, Loads(e)
    PROVE  ExactFor(e)'
<1>1. /\ phase'[e] = "loaded" /\ live' = live
      /\ data[e] \in Answers[e]
      /\ HasExactly(e, data[e], 6)
  BY DEF Loads, XInv, EInv, TypeOK, Up, SetUpExactly
<1> QED
  BY <1>1 DEF ExactFor, HasExactly

LEMMA NextExact == XInv /\ [Next]_vars => CountsSetup' /\ SetUpExactly'
<1> SUFFICES ASSUME XInv, [Next]_vars PROVE CountsSetup' /\ SetUpExactly'
  OBVIOUS
<1> USE DEF XInv, EInv
<1>1. TypeOK'
  BY NextTypeOK
<1>2. CountsSetup'
  <2>1. ASSUME NEW e \in Entries, Living(e) PROVE CountsSetup'
    BY <2>1 DEF Living, Proceeds, Create, Fetched, Refreshed, AddPlatform,
                Loads, Poll, Reload, Unloads, SaveOptions, Remove, CountsSetup,
                TypeOK
  <2>2. CASE Restart
    BY <2>2 DEF Restart, CountsSetup
  <2>3. CASE UNCHANGED vars
    BY <2>3 DEF vars, CountsSetup
  <2> QED
    BY <2>1, <2>2, <2>3 DEF Next
<1>3. ASSUME NEW d \in Entries, NEW e \in Entries, Living(e), d # e
      PROVE  ExactFor(d)'
  <2>1. /\ phase'[d] = phase[d] /\ data'[d] = data[d] /\ done'[d] = done[d]
        /\ \A u \in Uids : live'[u] = d <=> live[u] = d
    BY <1>3, EntriesAssumption
       DEF Living, Proceeds, Create, Fetched, Refreshed, AddPlatform, Loads,
           Poll, Reload, Unloads, SaveOptions, Remove, TypeOK
  <2> QED
    BY <2>1, StaysExact
<1>4. ASSUME NEW e \in Entries, Living(e)
      PROVE  ExactFor(e)'
  <2>1. CASE \E p \in Answers[e] : Fetched(e, p)
    BY <2>1, FetchedExact
  <2>2. CASE AddPlatform(e)
    BY <2>2, AddPlatformExact
  <2>3. CASE Loads(e)
    BY <2>3, LoadsExact
  <2>4. CASE Poll(e) \/ SaveOptions(e)
    <3>1. /\ phase'[e] = phase[e] /\ live' = live
          /\ phase[e] = "platforms" => data'[e] = data[e] /\ done'[e] = done[e]
      BY <2>4 DEF Poll, SaveOptions
    <3> QED
      BY <3>1, StaysExact
  <2>5. CASE Create(e) \/ Reload(e) \/ Remove(e)
    <3>1. phase'[e] \in {"down", "removed"}
      BY <2>5 DEF Create, Reload, Unloads, Remove, TypeOK
    <3> QED
      BY <3>1 DEF ExactFor
  <2> QED
    BY <1>4, <2>1, <2>2, <2>3, <2>4, <2>5 DEF Living, Proceeds
<1>5. ASSUME Restart, NEW e \in Entries
      PROVE  ExactFor(e)'
  <2>1. phase'[e] \notin {"platforms", "loaded"}
    BY <1>5 DEF Restart
  <2> QED
    BY <2>1 DEF ExactFor, HasExactly
<1>6. ASSUME UNCHANGED vars, NEW e \in Entries
      PROVE  ExactFor(e)'
  BY <1>6, StaysExact DEF vars
<1>7. ASSUME NEW d \in Entries
      PROVE  ExactFor(d)'
  BY <1>3, <1>4, <1>5, <1>6, <1>7 DEF Next
<1>8. SetUpExactly'
  BY <1>7 DEF SetUpExactly, ExactFor, HasExactly
<1> QED
  BY <1>2, <1>8

LEMMA ExactInvariant == Spec => []XInv
<1>1. Init => XInv
  BY InitEInv DEF Init, XInv, CountsSetup, SetUpExactly
<1>2. XInv /\ [Next]_vars => XInv'
  BY NextEInv, NextExact DEF XInv
<1> QED
  BY <1>1, <1>2, PTL DEF Spec

\* However entries are reloaded, restarted, removed and interleaved in their
\* setups, an entry that is up has exactly the entities of one payload, but for
\* those of a row that another entry names as well.
THEOREM WholeSetups == Spec => []SetUpExactly
<1>1. XInv => SetUpExactly
  BY DEF XInv
<1> QED
  BY <1>1, ExactInvariant, PTL

\* The README's promise of the slider holds for chargers whose limit can be
\* controlled in every answer or in none, and that one entry alone names; it is
\* broken only by a flag that differs between the setup and now, or by another
\* entry that holds the slider.
THEOREM SteadyFlagsHaveSliders ==
    ASSUME \A e \in Entries : \A p \in Answers[e] : \A c \in Roster(p) : OnlyOf(e, c),
           \A e \in Entries : \A p, q \in Answers[e] :
                \A c \in Roster(p) \cap Roster(q) :
                    LimitControllable(p.chargers[c]) <=> LimitControllable(q.chargers[c])
    PROVE  Spec => []SliderExists
<1>1. XInv => SliderExists
  <2> SUFFICES ASSUME XInv, NEW e \in Entries, phase[e] = "loaded",
                      NEW c \in Roster(data[e]),
                      live[<<"button", c, "refresh">>] = e,
                      data[e].chargers[c].current_limit_controllable = "true"
               PROVE  live[<<"number", c, "max_current">>] = e
    BY DEF SliderExists
  <2>1. data[e] \in Answers[e] /\ c \in Chargers
    BY AnswersAssumption DEF XInv, EInv, TypeOK, Up, IsPayload
  <2>2. PICK p \in Answers[e] : HasExactly(e, p, 6)
    BY DEF XInv, SetUpExactly
  <2>3. <<"button", c, "refresh">> \in Uids
    <3>1. "refresh" \in KeysOn("button", data[e].chargers[c])
      BY DEF KeysOn, ButtonKeys
    <3>2. <<"button", c, "refresh">> \in Creates(PLATFORMS[2], data[e])
      BY <3>1, CreatesKeys DEF PLATFORMS
    <3> QED
      BY <2>1, <3>2, UidsKinds
  <2>4. c \in Roster(p)
    <3>1. <<"button", c, "refresh">> \in Made(p, 6)
      BY <2>2, <2>3 DEF HasExactly
    <3>2. PICK i \in 1..6 : <<"button", c, "refresh">> \in Creates(PLATFORMS[i], p)
      BY <3>1, MadeMembers
    <3> QED
      BY <2>1, <3>2, CreatesIds, ChargersAssumption
  <2>5. "max_current" \in NumberKeys(p.chargers[c])
    BY <2>1, <2>4 DEF LimitControllable, NumberKeys
  <2>6. <<"number", c, "max_current">> \in Made(p, 6)
    <3>1. "max_current" \in KeysOn("number", p.chargers[c])
      BY <2>5 DEF KeysOn
    <3>2. <<"number", c, "max_current">> \in Creates(PLATFORMS[3], p)
      BY <2>4, <3>1, CreatesKeys DEF PLATFORMS
    <3> QED
      BY <3>2, MadeMembers DEF DisabledByDefault
  <2>7. OnlyOf(e, c)
    BY <2>1
  <2> QED
    BY <2>1, <2>2, <2>6, <2>7 DEF HasExactly
<1> QED
  BY <1>1, ExactInvariant, PTL

(***************************************************************************)
(* Time zones.                                                             *)
(***************************************************************************)
\* For any list and any value of the charger.
LEMMA OptionsShown ==
    ASSUME NEW S \in SUBSET Zones, NEW list \in [S -> ZoneLabels],
           NEW value \in Zones \cup {Null}
    PROVE  /\ value # Null => CurrentOption(list, value) \in Options(list, value)
           /\ \A o \in Options(list, value) \ {CurrentOption(list, value)} :
                /\ ValueForLabel(list, o) \in DOMAIN list
                /\ CurrentOption(list, ValueForLabel(list, o)) = o
<1>1. \A v \in S : list[v] # Null
  BY ZonesAssumption
<1>2. value # Null => CurrentOption(list, value) \in Options(list, value)
  BY DEF CurrentOption, Options, Labels, LabelForValue
<1>3. ASSUME NEW o \in Options(list, value) \ {CurrentOption(list, value)}
      PROVE  o \in Labels(list)
  BY <1>3 DEF CurrentOption, Options, LabelForValue
<1>4. ASSUME NEW o \in Labels(list)
      PROVE  /\ ValueForLabel(list, o) \in S
             /\ list[ValueForLabel(list, o)] = o
  BY DEF Labels, ValueForLabel
<1>5. ASSUME NEW o \in Labels(list)
      PROVE  CurrentOption(list, ValueForLabel(list, o)) = o
  BY <1>1, <1>4 DEF CurrentOption, LabelForValue
<1> QED
  BY <1>2, <1>3, <1>4, <1>5

\* The charger's time zone is always an option; any other can be written, and
\* is then shown.
THEOREM ZonesShown == Spec => []ZoneOptions
<1>1. TypeOK => ZoneOptions
  <2> SUFFICES ASSUME TypeOK, NEW e \in Entries, Up(e), NEW c \in Roster(data[e])
               PROVE  LET list == data[e].time_zones
                          value == data[e].chargers[c].time_zone_value
                          shown == CurrentOption(list, value)
                      IN  /\ value # Null => shown \in Options(list, value)
                          /\ \A o \in Options(list, value) \ {shown} :
                                /\ ValueForLabel(list, o) \in DOMAIN list
                                /\ CurrentOption(list, ValueForLabel(list, o)) = o
    BY DEF ZoneOptions
  <2>1. IsPayload(data[e])
    BY AnswersAssumption DEF TypeOK
  <2>2. data[e].chargers[c].time_zone_value \in Zones \cup {Null}
    BY <2>1 DEF IsPayload, Charger, Roster
  <2> QED
    BY <2>1, <2>2, OptionsShown DEF IsPayload
<1> QED
  BY <1>1, TypeCorrect, PTL
=============================================================================
