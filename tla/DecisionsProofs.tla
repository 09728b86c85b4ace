--------------------------- MODULE DecisionsProofs ---------------------------
(***************************************************************************)
(* What the guard's verdict means for single addresses, for addresses of   *)
(* any width and guard files of any length (GuardCheck): masking twice is  *)
(* masking once with the shorter length, so prefixes that share an address *)
(* are nested, and Guard::new gives nested entries to one tenant.  What    *)
(* the aggregator's maps and windows hold of the flows, for maps of any    *)
(* size and windows of any length, and whom the classifier takes for the   *)
(* owner of an address (Traffic).  What the detector's snapshots tell of a *)
(* window (Windows).  Which policy governs a scope and what becomes of the *)
(* policies of any document (Policies).  And what the collector's template *)
(* caches hold, for messages of any shape and routers that restart at any  *)
(* time (Collector).                                                       *)
(***************************************************************************)
EXTENDS GuardCheck, Policies, Collector, FiniteSetTheorems, TLAPS

------------------------------------------------------------------------------
(* Arithmetic.  A statement about every number is shown by way of its      *)
(* least counterexample.                                                   *)

LEMMA LeastNumber ==
    ASSUME NEW T, T \subseteq Nat, T # {}
    PROVE  \E x \in T : \A y \in T : x <= y
  <1> DEFINE R == {ss \in Nat \X Nat : ss[1] < ss[2]}
  <1>1. IsWellFoundedOn(R, Nat)
    BY NatLessThanWellFounded DEF OpToRel
  <1>2. \E x \in T : \A y \in T : ~ (<<y, x>> \in R)
    <2> HIDE DEF R
    <2> QED BY <1>1, WFMin
  <1>3. PICK x \in T : \A y \in T : ~ (<<y, x>> \in R)
    BY <1>2
  <1>4. ASSUME NEW y \in T PROVE x <= y
    <2>1. y \in Nat /\ x \in Nat
      OBVIOUS
    <2>2. ~ (y < x)
      BY <2>1, <1>3
    <2> QED BY <2>1, <2>2
  <1> QED BY <1>4

\* A loop over a sequence, as a function from the rounds done to what they left: what the
\* start satisfies and every round keeps holds at the end.
LEMMA LoopKeeps ==
    ASSUME NEW L \in Nat, NEW good \in SUBSET (0 .. L), 0 \in good,
           \A n \in 1 .. L : n - 1 \in good => n \in good
    PROVE  L \in good
  <1> DEFINE T == (0 .. L) \ good
  <1> SUFFICES ASSUME T # {} PROVE FALSE
    OBVIOUS
  <1>0. T \subseteq Nat
    OBVIOUS
  <1>1. PICK n \in T : \A m \in T : n <= m
    <2> HIDE DEF T
    <2> QED BY <1>0, LeastNumber
  <1>2. n \in 1 .. L /\ n - 1 \in 0 .. L /\ n - 1 \notin T
    BY <1>1
  <1> QED BY <1>2

(* The first powers of two, as tables.                                     *)
Tables(n) == {t \in [0 .. n -> Nat] : t[0] = 1 /\ \A i \in 1 .. n : t[i] = 2 * t[i - 1]}

LEMMA TablesExist == \A n \in Nat : Tables(n) # {}
  <1> DEFINE T == {n \in Nat : Tables(n) = {}}
  <1> SUFFICES ASSUME T # {} PROVE FALSE
    OBVIOUS
  <1>1. PICK n \in T : \A m \in T : n <= m
    BY LeastNumber
  <1>2. CASE n = 0
    <2>1. [i \in 0 .. 0 |-> 1] \in Tables(0)
      BY DEF Tables
    <2> QED BY <1>2, <2>1
  <1>3. CASE n # 0
    <2>1. n - 1 \in Nat /\ n - 1 \notin T
      BY <1>1, <1>3
    <2>2. PICK t \in Tables(n - 1) : TRUE
      BY <2>1
    <2>3. t \in [0 .. n - 1 -> Nat] /\ t[0] = 1 /\ \A i \in 1 .. n - 1 : t[i] = 2 * t[i - 1]
      BY <2>2 DEF Tables
    <2> DEFINE u == [i \in 0 .. n |-> IF i = n THEN 2 * t[n - 1] ELSE t[i]]
    <2>4. u \in [0 .. n -> Nat]
      BY <2>1, <2>3
    <2>5. u[0] = 1 /\ \A i \in 1 .. n : u[i] = 2 * u[i - 1]
      BY <2>1, <2>3, <1>3
    <2>6. u \in Tables(n)
      BY <2>4, <2>5 DEF Tables
    <2> QED BY <2>6
  <1> QED BY <1>2, <1>3

LEMMA TablesAgree ==
    ASSUME NEW m \in Nat, NEW n \in Nat, NEW t \in Tables(m), NEW u \in Tables(n)
    PROVE  \A i \in Nat : i <= m /\ i <= n => t[i] = u[i]
  <1> DEFINE T == {i \in Nat : i <= m /\ i <= n /\ t[i] # u[i]}
  <1> SUFFICES ASSUME T # {} PROVE FALSE
    OBVIOUS
  <1>1. PICK i \in T : \A j \in T : i <= j
    BY LeastNumber
  <1>2. t[0] = u[0]
    BY DEF Tables
  <1>3. i \in 1 .. m /\ i \in 1 .. n /\ i - 1 \in Nat /\ i - 1 \notin T
    BY <1>1, <1>2
  <1>4. t[i] = 2 * t[i - 1] /\ u[i] = 2 * u[i - 1]
    BY <1>3 DEF Tables
  <1> QED BY <1>3, <1>4

(* PowerOfTwo is what its definition says.                                 *)
LEMMA PowerOfTwoDef ==
    \A n \in Nat : PowerOfTwo[n] = IF n = 0 THEN 1 ELSE 2 * PowerOfTwo[n - 1]
  <1> DEFINE Table(n) == CHOOSE t \in Tables(n) : TRUE
             G == [n \in Nat |-> Table(n)[n]]
  <1>1. \A n \in Nat : Table(n) \in Tables(n)
    BY TablesExist
  <1>2. ASSUME NEW n \in Nat PROVE G[n] = IF n = 0 THEN 1 ELSE 2 * G[n - 1]
    <2>1. CASE n = 0
      BY <2>1, <1>1 DEF Tables
    <2>2. CASE n # 0
      <3>0. n - 1 \in Nat /\ n \in 1 .. n
        BY <2>2
      <3>1. Table(n)[n] = 2 * Table(n)[n - 1]
        BY <3>0, <1>1 DEF Tables
      <3>2. Table(n)[n - 1] = Table(n - 1)[n - 1]
        <4> HIDE DEF Table
        <4>1. Table(n) \in Tables(n) /\ Table(n - 1) \in Tables(n - 1)
          BY <1>1, <3>0
        <4> QED BY <3>0, <4>1, TablesAgree
      <3> QED BY <2>2, <3>0, <3>1, <3>2
    <2> QED BY <2>1, <2>2
  <1>3. G = [n \in Nat |-> IF n = 0 THEN 1 ELSE 2 * G[n - 1]]
    <2>1. G = [n \in Nat |-> G[n]]
      OBVIOUS
    <2> HIDE DEF G
    <2> QED BY <1>2, <2>1
  <1>4. PowerOfTwo = [n \in Nat |-> IF n = 0 THEN 1 ELSE 2 * PowerOfTwo[n - 1]]
    <2> HIDE DEF G
    <2> QED BY <1>3 DEF PowerOfTwo
  <1> QED BY <1>4

LEMMA PowerOfTwoPositive == \A n \in Nat : PowerOfTwo[n] \in Nat \ {0}
  <1> DEFINE T == {n \in Nat : PowerOfTwo[n] \notin Nat \ {0}}
  <1> SUFFICES ASSUME T # {} PROVE FALSE
    OBVIOUS
  <1>1. PICK n \in T : \A m \in T : n <= m
    BY LeastNumber
  <1>2. n # 0 /\ PowerOfTwo[n] = 2 * PowerOfTwo[n - 1]
    BY PowerOfTwoDef
  <1>3. n - 1 \in Nat /\ n - 1 \notin T
    BY <1>1, <1>2
  <1> QED BY <1>2, <1>3

LEMMA PowerOfTwoAdds ==
    ASSUME NEW m \in Nat
    PROVE  \A n \in Nat : PowerOfTwo[m + n] = PowerOfTwo[m] * PowerOfTwo[n]
  <1> DEFINE T == {n \in Nat : PowerOfTwo[m + n] # PowerOfTwo[m] * PowerOfTwo[n]}
  <1> SUFFICES ASSUME T # {} PROVE FALSE
    OBVIOUS
  <1>1. PICK n \in T : \A k \in T : n <= k
    BY LeastNumber
  <1>0. PowerOfTwo[m] \in Nat
    BY PowerOfTwoPositive
  <1>2. n # 0
    BY <1>0, <1>1, PowerOfTwoDef
  <1>3. n - 1 \in Nat /\ n - 1 \notin T /\ m + n \in Nat /\ m + n # 0 /\ (m + n) - 1 = m + (n - 1)
    BY <1>1, <1>2
  <1>4. PowerOfTwo[n] = 2 * PowerOfTwo[n - 1] /\ PowerOfTwo[m + n] = 2 * PowerOfTwo[m + (n - 1)]
    BY <1>2, <1>3, PowerOfTwoDef
  <1>5. PowerOfTwo[m + (n - 1)] = PowerOfTwo[m] * PowerOfTwo[n - 1]
    BY <1>3
  <1>6. PowerOfTwo[n - 1] \in Nat
    BY <1>3, PowerOfTwoPositive
  <1>7. \A x, y \in Nat : 2 * (x * y) = x * (2 * y)
    OBVIOUS
  <1>8. 2 * (PowerOfTwo[m] * PowerOfTwo[n - 1]) = PowerOfTwo[m] * (2 * PowerOfTwo[n - 1])
    BY <1>0, <1>6, <1>7
  <1> QED BY <1>4, <1>5, <1>8

(* Clearing the low bits below d, then those below its multiple k * d, is  *)
(* clearing the latter.                                                    *)
LEMMA MaskTwice ==
    ASSUME NEW a \in Nat, NEW d \in Nat \ {0}, NEW k \in Nat \ {0}
    PROVE  /\ a - (a % d) \in Nat
           /\ (a - (a % d)) - ((a - (a % d)) % (k * d)) = a - (a % (k * d))
  <1>0. k * d \in Nat \ {0}
    OBVIOUS
  <1>1. PICK e \in Nat \ {0} : e = k * d
    BY <1>0
  <1>2. PICK q \in Nat, r \in 0 .. e - 1 : a = e * q + r /\ a % e = r
    <2>1. a = e * (a \div e) + (a % e) /\ a % e \in 0 .. e - 1 /\ a \div e \in Nat
      OBVIOUS
    <2> QED BY <2>1
  <1>3. PICK s \in Nat, t \in 0 .. d - 1 : r = d * s + t /\ r % d = t
    <2>1. r = d * (r \div d) + (r % d) /\ r % d \in 0 .. d - 1 /\ r \div d \in Nat
      OBVIOUS
    <2> QED BY <2>1
  <1>4. a = d * (k * q + s) + t /\ k * q + s \in Nat
    <2>1. e * q = d * (k * q)
      BY <1>1
    <2>2. d * (k * q + s) = d * (k * q) + d * s
      OBVIOUS
    <2> QED BY <1>2, <1>3, <2>1, <2>2
  <1>5. a % d = t
    <2>1. PICK z \in Nat : z = k * q + s
      BY <1>4
    <2>2. (d * z + t) % d = t
      OBVIOUS
    <2> QED BY <1>4, <2>1, <2>2
  <1>6. PICK w \in 0 .. e - 1 : w = d * s /\ a - t = e * q + w
    <2>1. d * s \in Nat
      OBVIOUS
    <2> QED BY <1>2, <1>3, <2>1
  <1>7. (e * q + w) % e = w
    OBVIOUS
  <1>8. e * q \in Nat
    OBVIOUS
  <1> QED BY <1>1, <1>2, <1>5, <1>6, <1>7, <1>8

------------------------------------------------------------------------------
(* Prefixes.                                                               *)

(* What Prefix::new makes of a family, an address and a length.            *)
LEMMA PrefixTypes ==
    ASSUME NEW p \in Prefixes
    PROVE  p.family \in Families /\ p.address \in Nat /\ p.length \in 0 .. MaxLength[p.family]
  <1>1. PICK f \in Families : p \in [family : {f}, address : 0 .. PowerOfTwo[MaxLength[f]] - 1,
                                     length : 0 .. MaxLength[f]]
    BY DEF Prefixes
  <1> QED BY <1>1

(* Masking to a length and then to a shorter one is masking to the         *)
(* shorter.                                                                *)
LEMMA MaskShorter ==
    ASSUME NEW f \in Families, NEW a \in Nat, NEW long \in 0 .. MaxLength[f], NEW short \in 0 .. long
    PROVE  Mask(f, Mask(f, a, long), short) = Mask(f, a, short)
  <1>0. MaxLength[f] \in Nat
    BY GuardCheckAssumption
  <1>1. PICK m \in Nat, n \in Nat : m = MaxLength[f] - long /\ n = long - short
    BY <1>0
  <1>2. MaxLength[f] - short = m + n
    BY <1>0, <1>1
  <1>3. PICK d \in Nat \ {0}, k \in Nat \ {0} : d = PowerOfTwo[m] /\ k = PowerOfTwo[n]
    BY PowerOfTwoPositive
  <1>4. PowerOfTwo[MaxLength[f] - long] = d /\ PowerOfTwo[MaxLength[f] - short] = k * d
    <2>1. PowerOfTwo[m + n] = d * k
      BY <1>3, PowerOfTwoAdds
    <2>2. d * k = k * d
      OBVIOUS
    <2> QED BY <1>1, <1>2, <1>3, <2>1, <2>2
  <1>5. Mask(f, a, long) = a - (a % d)
    BY <1>4 DEF Mask
  <1>6. \A b : Mask(f, b, short) = b - (b % (k * d))
    BY <1>4 DEF Mask
  <1>7. (a - (a % d)) - ((a - (a % d)) % (k * d)) = a - (a % (k * d))
    BY MaskTwice
  <1>8. Mask(f, a - (a % d), short) = (a - (a % d)) - ((a - (a % d)) % (k * d))
    BY <1>6
  <1>9. Mask(f, a, short) = a - (a % (k * d))
    BY <1>6
  <1> QED BY <1>5, <1>7, <1>8, <1>9

(* A prefix contains what those it contains contain.                       *)
LEMMA ContainsTransitive ==
    ASSUME NEW p, NEW q, NEW r, q.family \in Families, r.address \in Nat,
           q.length \in 0 .. MaxLength[q.family], p.length \in Nat, r.length \in Nat,
           Contains(p, q), Contains(q, r)
    PROVE  Contains(p, r)
  <1>1. /\ p.family = q.family /\ q.family = r.family
        /\ q.length >= p.length /\ r.length >= q.length
        /\ Mask(q.family, q.address, p.length) = p.address
        /\ Mask(q.family, r.address, q.length) = q.address
    BY DEF Contains
  <1>2. p.length \in 0 .. q.length
    BY <1>1, GuardCheckAssumption
  <1>3. Mask(q.family, Mask(q.family, r.address, q.length), p.length) = Mask(q.family, r.address, p.length)
    BY <1>2, MaskShorter
  <1> QED BY <1>1, <1>2, <1>3, GuardCheckAssumption DEF Contains

(* Prefixes that contain one address are nested.                           *)
LEMMA SharedIsNested ==
    ASSUME NEW p \in Prefixes, NEW q \in Prefixes, NEW r, r.address \in Nat,
           Contains(p, r), Contains(q, r), p.length <= q.length
    PROVE  Contains(p, q)
  <1>1. /\ p.family = r.family /\ q.family = r.family
        /\ Mask(r.family, r.address, p.length) = p.address
        /\ Mask(r.family, r.address, q.length) = q.address
    BY DEF Contains
  <1>2. /\ q.family \in Families /\ q.length \in 0 .. MaxLength[q.family]
        /\ p.length \in Nat
    BY PrefixTypes, GuardCheckAssumption
  <1>3. p.length \in 0 .. q.length
    BY <1>2, GuardCheckAssumption
  <1>4. Mask(q.family, Mask(q.family, r.address, q.length), p.length) = Mask(q.family, r.address, p.length)
    BY <1>2, <1>3, MaskShorter
  <1> QED BY <1>1, <1>2, <1>3, <1>4, GuardCheckAssumption DEF Contains

------------------------------------------------------------------------------
(* The verdicts.                                                           *)

(* The guard in force is a file Guard::new accepted, and a verdict is what *)
(* it says.                                                                *)
GuardInv ==
    /\ guard # None => guard \in Files /\ ValidConfig(guard)
    /\ verdict # None =>
          /\ guard # None
          /\ verdict.ask \in Questions
          /\ verdict.permitted => \E kill \in BOOLEAN : Permits(guard, verdict.tenant, verdict.ask, kill)

THEOREM GuardInvHolds == GCSpec => []GuardInv
  <1>1. GCInit => GuardInv
    BY DEF GCInit, GuardInv
  <1>2. ASSUME GuardInv, [GCNext]_gcvars PROVE GuardInv'
    <2>1. ASSUME NEW file \in Files, Load(file) PROVE GuardInv'
      BY <2>1 DEF Load, GuardInv
    <2>2. ASSUME NEW file \in Files, Refuse(file) PROVE GuardInv'
      BY <1>2, <2>2 DEF Refuse, GuardInv, gcvars
    <2>3. ASSUME NEW tenant \in Askers, NEW ask \in Questions, NEW kill \in BOOLEAN,
                 Check(tenant, ask, kill)
          PROVE  GuardInv'
      <3>1. guard # None /\ guard' = guard
        BY <2>3 DEF Check
      <3>2. /\ verdict'.tenant = tenant /\ verdict'.ask = ask
            /\ verdict'.permitted = Permits(guard, tenant, ask, kill)
        BY <2>3 DEF Check
      <3>3. verdict'.permitted => Permits(guard', verdict'.tenant, verdict'.ask, kill)
        BY <3>1, <3>2
      <3> QED BY <1>2, <3>1, <3>2, <3>3 DEF GuardInv
    <2>4. CASE Return
      BY <1>2, <2>4 DEF Return, GuardInv
    <2>5. CASE Restart
      BY <2>5 DEF Restart, GuardInv
    <2>6. CASE UNCHANGED gcvars
      BY <1>2, <2>6 DEF GuardInv, gcvars
    <2> QED BY <1>2, <2>1, <2>2, <2>3, <2>4, <2>5, <2>6 DEF GCNext
  <1> QED BY <1>1, <1>2, PTL DEF GCSpec

(* No permitted route touches an address that the allowlist gives to       *)
(* another tenant, every address it touches is the asker's, and it is      *)
(* never wider than the floor (Guard::check after Guard::new), for         *)
(* addresses of any width and guard files of any length.                   *)
THEOREM OnlyOwnTrafficHolds == GCSpec => []OnlyOwnTraffic
  <1>1. ASSUME GuardInv PROVE OnlyOwnTraffic
    <2> SUFFICES ASSUME verdict # None, verdict.permitted PROVE OnlyOwnTraffic
      BY DEF OnlyOwnTraffic
    <2> DEFINE p == verdict.ask.prefix
               list == guard.allowlist
               Owners(x) == {list[i].tenant : i \in {j \in DOMAIN list :
                               Contains(list[j].prefix, Host(p.family, x))}}
    <2>0. /\ guard \in Files /\ ValidConfig(guard) /\ p \in Prefixes
          /\ DOMAIN list \subseteq Nat
          /\ \A i \in DOMAIN list : list[i].prefix \in Prefixes
      BY <1>1, GuardCheckAssumption DEF GuardInv
    <2>1. PICK i \in DOMAIN list : Contains(list[i].prefix, p) /\ list[i].tenant = verdict.tenant
      BY <1>1 DEF GuardInv, Permits, Decides
    <2>2. /\ p.family \in Families /\ p.address \in Nat /\ p.length \in 0 .. MaxLength[p.family]
          /\ list[i].prefix \in Prefixes /\ list[i].prefix.length \in Nat
          /\ MaxLength[p.family] \in Nat /\ Floor[p.family] \in Nat
      BY <2>0, <2>1, PrefixTypes, GuardCheckAssumption
    <2>3. p.length >= Floor[p.family]
      <3>1. list[i].prefix.length >= Floor[list[i].prefix.family]
        BY <2>0, <2>1 DEF ValidConfig
      <3>2. list[i].prefix.family = p.family /\ p.length >= list[i].prefix.length
        BY <2>1 DEF Contains
      <3> QED BY <2>2, <3>1, <3>2
    <2>4. ASSUME NEW x \in Addresses(p) PROVE Owners(x) = {verdict.tenant}
      <3> DEFINE h == Host(p.family, x)
      <3>1. /\ x \in Nat /\ Contains(p, h)
            /\ h.address = x /\ h.family = p.family /\ h.length \in Nat
        BY <2>2, <2>4, PowerOfTwoPositive DEF Addresses, Host
      <3> HIDE DEF h
      <3>2. Contains(list[i].prefix, h)
        BY <2>1, <2>2, <3>1, ContainsTransitive
      <3>3. ASSUME NEW j \in DOMAIN list, Contains(list[j].prefix, h)
            PROVE  list[j].tenant = verdict.tenant
        <4>1. list[j].prefix \in Prefixes /\ list[j].prefix.length \in Nat
          BY <2>0, PrefixTypes, GuardCheckAssumption
        <4>2. \/ Contains(list[i].prefix, list[j].prefix)
              \/ Contains(list[j].prefix, list[i].prefix)
          BY <2>2, <3>1, <3>2, <3>3, <4>1, SharedIsNested
        <4>3. Overlap(list[i], list[j]) /\ Overlap(list[j], list[i])
          BY <4>2 DEF Overlap
        <4>4. i \in Nat /\ j \in Nat
          BY <2>0
        <4>5. \A m, n \in DOMAIN list : m < n /\ Overlap(list[m], list[n]) => list[m].tenant = list[n].tenant
          BY <2>0 DEF ValidConfig
        <4> QED BY <2>1, <4>3, <4>4, <4>5
      <3> QED BY <2>1, <3>2, <3>3 DEF h
    <2> QED BY <2>3, <2>4 DEF OnlyOwnTraffic
  <1> QED BY <1>1, GuardInvHolds, PTL

(* A path read back from GoBGP is that of the mitigation it was announced  *)
(* for (route.rs, read_back): the key it gives is the one the store keeps  *)
(* a live mitigation unique by, for every ask Action::validate_for lets    *)
(* through.                                                                *)
THEOREM RoutesReadBack ==
    ASSUME NEW ask, ask.kind \in Kinds, ValidAction(ask)
    PROVE  ReadBackKey(Announcement(ask)) = DuplicateKey(ask)
  BY DEF ReadBackKey, Announcement, DuplicateKey, Nlri, IsFlowspec, ValidAction, Kinds

------------------------------------------------------------------------------
(* The aggregator's bounded maps.                                          *)

(* A map that keeps the most recent of the keys seen, as of a moment.      *)
KeepsRecent(map, max, seen, time) ==
    /\ IsFiniteSet(DOMAIN map) /\ DOMAIN map \subseteq DOMAIN seen
    /\ \A k \in DOMAIN seen : seen[k] \in Nat /\ seen[k] <= time
    /\ \A k \in DOMAIN map : map[k].last_updated = seen[k]
    /\ Cardinality(DOMAIN map) <= max
    /\ \A gone \in DOMAIN seen \ DOMAIN map :
          /\ \A k \in DOMAIN map : seen[gone] <= seen[k]
          /\ time - seen[gone] <= Ttl => Cardinality(DOMAIN map) = max

SeenNow(seen, key, time) == [k \in DOMAIN seen \cup {key} |-> IF k = key THEN time ELSE seen[k]]

(* An upsert leaves the most recent keys, the one it is for among them     *)
(* unless the map may hold none (bounded_map.rs, upsert).                  *)
LEMMA UpsertKeepsRecent ==
    ASSUME NEW map, NEW max \in Nat, NEW seen, NEW key, NEW value, now \in Nat,
           KeepsRecent(map, max, seen, now), NEW after \in upsert(map, max, key, value)
    PROVE  KeepsRecent(after, max, SeenNow(seen, key, now), now)
  <1> DEFINE then == SeenNow(seen, key, now)
             entry == [value |-> value, last_updated |-> now]
             D == DOMAIN map
  <1>0. /\ DOMAIN then = DOMAIN seen \cup {key} /\ then[key] = now
        /\ \A k \in DOMAIN seen : k # key => then[k] = seen[k]
        /\ \A k \in DOMAIN then : then[k] \in Nat /\ then[k] <= now
    BY DEF SeenNow, KeepsRecent
  <1>1. /\ IsFiniteSet(D) /\ D \subseteq DOMAIN seen /\ Cardinality(D) <= max /\ Cardinality(D) \in Nat
        /\ \A k \in D : map[k].last_updated = seen[k]
        /\ \A k \in DOMAIN seen : seen[k] \in Nat /\ seen[k] <= now
        /\ \A gone \in DOMAIN seen \ D : \A k \in D : seen[gone] <= seen[k]
        /\ \A gone \in DOMAIN seen \ D : now - seen[gone] <= Ttl => Cardinality(D) = max
    BY FS_CardinalityType DEF KeepsRecent
  <1> HIDE DEF then
  <1>2. CASE max = 0
    <2>1. after = map
      BY <1>2 DEF upsert
    <2>2. D = {} /\ Cardinality(D) = 0
      <3>1. Cardinality(D) = 0
        BY <1>1, <1>2
      <3> QED BY <1>1, <3>1, FS_EmptySet
    <2> QED BY <1>0, <1>1, <1>2, <2>1, <2>2 DEF KeepsRecent, then
  <1>3. CASE max # 0 /\ key \in D
    <2>1. after = [map EXCEPT ![key] = entry]
      BY <1>3 DEF upsert
    <2>2. /\ DOMAIN after = D
          /\ \A k \in D : after[k].last_updated = IF k = key THEN now ELSE seen[k]
      BY <1>1, <1>3, <2>1
    <2>3. \A k \in D : after[k].last_updated = then[k]
      BY <1>0, <1>1, <2>2
    <2>4. \A gone \in DOMAIN then \ D :
             /\ gone \in DOMAIN seen \ D /\ then[gone] = seen[gone]
             /\ \A k \in D : then[gone] <= then[k]
      BY <1>0, <1>1, <1>3
    <2> QED BY <1>0, <1>1, <2>2, <2>3, <2>4 DEF KeepsRecent, then
  <1>4. CASE max # 0 /\ key \notin D /\ Cardinality(D) < max
    <2>1. after = [k \in D \cup {key} |-> IF k = key THEN entry ELSE map[k]]
      BY <1>4 DEF upsert
    <2>2. IsFiniteSet(D \cup {key}) /\ Cardinality(D \cup {key}) = Cardinality(D) + 1
      BY <1>1, <1>4, FS_AddElement
    <2>3. DOMAIN after = D \cup {key} /\ \A k \in D \cup {key} : after[k].last_updated = then[k]
      BY <1>0, <1>1, <1>4, <2>1
    <2>4. Cardinality(DOMAIN after) <= max
      BY <1>1, <1>4, <2>2, <2>3
    <2>5. \A gone \in DOMAIN then \ DOMAIN after :
             /\ gone \in DOMAIN seen \ D /\ then[gone] = seen[gone]
             /\ \A k \in DOMAIN after : then[gone] <= then[k]
      BY <1>0, <1>1, <2>3
    <2>6. \A gone \in DOMAIN then \ DOMAIN after : ~(now - then[gone] <= Ttl)
      BY <1>1, <1>4, <2>5
    <2> QED BY <1>0, <1>1, <2>2, <2>3, <2>4, <2>5, <2>6 DEF KeepsRecent, then
  <1>5. CASE max # 0 /\ key \notin D /\ ~(Cardinality(D) < max)
    <2>1. PICK victim \in least_recently_updated_keys(map) :
             after = [k \in (D \ {victim}) \cup {key} |-> IF k = key THEN entry ELSE map[k]]
      BY <1>5 DEF upsert
    <2> DEFINE E == D \ {victim}
    <2>2. victim \in D /\ \A k \in D : seen[victim] <= seen[k]
      BY <1>1, <2>1 DEF least_recently_updated_keys
    <2>3. IsFiniteSet(E) /\ Cardinality(E) = Cardinality(D) - 1 /\ key \notin E
      BY <1>1, <1>5, <2>2, FS_RemoveElement
    <2>4. IsFiniteSet(E \cup {key}) /\ Cardinality(E \cup {key}) = Cardinality(E) + 1
      BY <2>3, FS_AddElement
    <2>5. Cardinality(E \cup {key}) = max
      BY <1>1, <1>5, <2>3, <2>4
    <2>6. DOMAIN after = E \cup {key} /\ \A k \in E \cup {key} : after[k].last_updated = then[k]
      BY <1>0, <1>1, <1>5, <2>1
    <2>7. \A gone \in DOMAIN then \ DOMAIN after :
             /\ gone \in DOMAIN seen \ E /\ then[gone] = seen[gone]
             /\ \A k \in DOMAIN after : then[gone] <= then[k]
      BY <1>0, <1>1, <1>5, <2>2, <2>6
    <2>8. /\ IsFiniteSet(DOMAIN after) /\ Cardinality(DOMAIN after) = max /\ Cardinality(DOMAIN after) <= max
          /\ DOMAIN after \subseteq DOMAIN then
          /\ \A k \in DOMAIN after : after[k].last_updated = then[k]
      BY <1>0, <1>1, <2>4, <2>5, <2>6
    <2> QED BY <1>0, <2>7, <2>8 DEF KeepsRecent, then
  <1> QED BY <1>2, <1>3, <1>4, <1>5

------------------------------------------------------------------------------
(* The flows so far.                                                       *)
ArrivalsOK ==
    /\ now \in Nat
    /\ DOMAIN arrivals = 1 .. Len(arrivals) /\ Len(arrivals) \in Nat
    /\ \A i \in DOMAIN arrivals : arrivals[i].at \in 0 .. now

MapsOK ==
    /\ maps = [dim \in Dims |-> maps[dim]]
    /\ \A dim \in Dims : KeepsRecent(maps[dim], MaxEntries[dim], LastSeen(dim), now)

(* The largest of some moments up to now.                                  *)
LEMMA Latest ==
    ASSUME NEW n \in Nat, NEW T, T \subseteq 0 .. n, T # {}
    PROVE  Max(T) \in T /\ \A t \in T : t <= Max(T)
  <1> DEFINE Back == {n - t : t \in T}
  <1>1. Back \subseteq Nat /\ Back # {}
    <2>1. \A t \in T : n - t \in Nat
      OBVIOUS
    <2> QED BY <2>1
  <1>2. PICK b \in Back : \A c \in Back : b <= c
    <2> HIDE DEF Back
    <2> QED BY <1>1, LeastNumber
  <1>3. PICK x \in T : b = n - x
    OBVIOUS
  <1>4. ASSUME NEW y \in T PROVE x >= y
    <2>1. b <= n - y
      BY <1>2
    <2> QED BY <1>3, <2>1
  <1>5. x \in T /\ \A y \in T : x >= y
    BY <1>4
  <1>6. Max(T) \in T /\ \A y \in T : Max(T) >= y
    BY <1>5 DEF Max
  <1> QED BY <1>6

(* A flow that arrives makes its keys the latest seen.                     *)
LEMMA ArrivalIsSeen ==
    ASSUME ArrivalsOK, NEW a, a.at = now, arrivals' = Append(arrivals, a), now' = now, NEW dim
    PROVE  /\ ArrivalsOK'
           /\ KeysSeen(dim)' = KeysSeen(dim) \cup KeysOf(dim, a)
           /\ LastSeen(dim)' = [k \in KeysSeen(dim) \cup KeysOf(dim, a) |->
                                  IF k \in KeysOf(dim, a) THEN now ELSE LastSeen(dim)[k]]
  <1>0. now \in Nat /\ Len(arrivals) \in Nat /\ DOMAIN arrivals = 1 .. Len(arrivals)
    BY DEF ArrivalsOK
  <1> DEFINE n == Len(arrivals) + 1
  <1>1. /\ Len(arrivals') = n /\ DOMAIN arrivals' = 1 .. n
        /\ \A i \in DOMAIN arrivals : arrivals'[i] = arrivals[i]
        /\ arrivals'[n] = a
    BY <1>0
  <1>2. DOMAIN arrivals' = DOMAIN arrivals \cup {n} /\ n \notin DOMAIN arrivals
    BY <1>0, <1>1
  <1> HIDE DEF n
  <1>3. ArrivalsOK'
    BY <1>0, <1>1, <1>2 DEF ArrivalsOK, n
  <1>4. KeysSeen(dim)' = KeysSeen(dim) \cup KeysOf(dim, a)
    <2>1. KeysSeen(dim)' = UNION {KeysOf(dim, arrivals'[i]) : i \in DOMAIN arrivals'}
      BY DEF KeysSeen, KeysOf
    <2> QED BY <2>1, <1>1, <1>2 DEF KeysSeen
  <1>5. ASSUME NEW k
        PROVE  TimesSeen(dim, k)' = TimesSeen(dim, k) \cup IF k \in KeysOf(dim, a) THEN {now} ELSE {}
    <2>1. TimesSeen(dim, k)' = {arrivals'[i].at : i \in {j \in DOMAIN arrivals' : k \in KeysOf(dim, arrivals'[j])}}
      BY DEF TimesSeen, KeysOf
    <2> QED BY <2>1, <1>1, <1>2 DEF TimesSeen
  <1>6. ASSUME NEW k \in KeysOf(dim, a) PROVE Max(TimesSeen(dim, k)') = now
    <2> DEFINE T == TimesSeen(dim, k)'
    <2>1. T = TimesSeen(dim, k) \cup {now}
      BY <1>5
    <2>2. TimesSeen(dim, k) \subseteq 0 .. now
      BY DEF ArrivalsOK, TimesSeen
    <2>3. T \subseteq 0 .. now /\ now \in T
      BY <2>1, <2>2, <1>0
    <2> HIDE DEF T
    <2>4. Max(T) \in T /\ \A t \in T : t <= Max(T)
      BY <2>3, <1>0, Latest
    <2>5. Max(T) = now
      <3>1. Max(T) \in 0 .. now /\ now <= Max(T)
        BY <2>3, <2>4
      <3> QED BY <3>1, <1>0
    <2> QED BY <2>5 DEF T
  <1>7. ASSUME NEW k, k \notin KeysOf(dim, a) PROVE TimesSeen(dim, k)' = TimesSeen(dim, k)
    BY <1>5, <1>7
  <1>8. LastSeen(dim)' = [k \in KeysSeen(dim)' |-> Max(TimesSeen(dim, k)')]
    BY DEF LastSeen
  <1>9. \A k \in KeysSeen(dim) \ KeysOf(dim, a) : Max(TimesSeen(dim, k)') = LastSeen(dim)[k]
    BY <1>7 DEF LastSeen
  <1> QED BY <1>3, <1>4, <1>6, <1>8, <1>9

(* The keys seen, with those of one end or both seen now.                  *)
SeenAt(seen, key) == IF key = Nobody THEN seen ELSE SeenNow(seen, key, now)

LEMMA TrackKeepsRecent ==
    ASSUME NEW dim \in Dims, NEW map, NEW seen, NEW key, now \in Nat,
           KeepsRecent(map, MaxEntries[dim], seen, now), NEW after \in track(dim, map, key)
    PROVE  KeepsRecent(after, MaxEntries[dim], SeenAt(seen, key), now)
  <1>1. MaxEntries[dim] \in Nat
    BY TrafficAssumption DEF Dims
  <1>2. CASE key = Nobody
    BY <1>2 DEF track, SeenAt
  <1>3. CASE key # Nobody
    <2>1. after \in upsert(map, MaxEntries[dim], key, Held(map, key, 0) + 1)
      BY <1>3 DEF track
    <2> QED BY <1>1, <1>3, <2>1, UpsertKeepsRecent DEF SeenAt
  <1> QED BY <1>2, <1>3

Refreshed(seen, new) == [k \in DOMAIN seen \cup new |-> IF k \in new THEN now ELSE seen[k]]

LEMMA SeenTwice ==
    ASSUME NEW K, NEW seen, seen = [k \in K |-> seen[k]], NEW k1, NEW k2
    PROVE  SeenAt(SeenAt(seen, k1), k2) = Refreshed(seen, {k1, k2} \ {Nobody})
  <1> DEFINE new == {k1, k2} \ {Nobody}
  <1>0. DOMAIN seen = K
    OBVIOUS
  <1> USE DEF Refreshed
  <1>1. CASE k1 = Nobody /\ k2 = Nobody
    <2>1. new = {} /\ SeenAt(SeenAt(seen, k1), k2) = seen
      BY <1>1 DEF SeenAt
    <2> QED BY <2>1
  <1>2. CASE k1 # Nobody /\ k2 = Nobody
    <2>1. new = {k1} /\ SeenAt(SeenAt(seen, k1), k2) = SeenNow(seen, k1, now)
      BY <1>2 DEF SeenAt
    <2> QED BY <1>0, <2>1 DEF SeenNow
  <1>3. CASE k1 = Nobody /\ k2 # Nobody
    <2>1. new = {k2} /\ SeenAt(SeenAt(seen, k1), k2) = SeenNow(seen, k2, now)
      BY <1>3 DEF SeenAt
    <2> QED BY <1>0, <2>1 DEF SeenNow
  <1>4. CASE k1 # Nobody /\ k2 # Nobody
    <2>1. new = {k1, k2} /\ SeenAt(SeenAt(seen, k1), k2) = SeenNow(SeenNow(seen, k1, now), k2, now)
      BY <1>4 DEF SeenAt
    <2>2. PICK once : once = SeenNow(seen, k1, now)
      OBVIOUS
    <2>3. DOMAIN once = K \cup {k1} /\ \A k \in K \cup {k1} : once[k] = IF k = k1 THEN now ELSE seen[k]
      BY <1>0, <2>2 DEF SeenNow
    <2>4. SeenNow(once, k2, now) = [k \in K \cup {k1, k2} |-> IF k \in {k1, k2} THEN now ELSE seen[k]]
      BY <2>3 DEF SeenNow
    <2> QED BY <2>1, <2>2, <2>4
  <1> QED BY <1>1, <1>2, <1>3, <1>4

LEMMA IngestKeepsRecent ==
    ASSUME ArrivalsOK, MapsOK, NEW source, NEW destination, ingest(source, destination)
    PROVE  ArrivalsOK' /\ MapsOK'
  <1>1. PICK class : class = classify(registry, source, destination)
    OBVIOUS
  <1>2. PICK a : a = [at |-> now, source |-> source, destination |-> destination, class |-> class]
    OBVIOUS
  <1> DEFINE after(dim) == UNION {track(dim, map, EndKey(dim, destination, class.destination)) :
                                map \in track(dim, maps[dim], EndKey(dim, source, class.source))}
  <1>3. /\ arrivals' = Append(arrivals, a) /\ now' = now
        /\ a.at = now /\ a.source = source /\ a.destination = destination /\ a.class = class
    BY <1>1, <1>2 DEF ingest
  <1>4. PICK hosts \in after("hosts"), networks \in after("networks"), groups \in after("hostgroups") :
          maps' = [hosts |-> hosts, networks |-> networks, hostgroups |-> groups]
    BY <1>1 DEF ingest
  <1>5. \A dim \in Dims : maps'[dim] \in after(dim)
    BY <1>4 DEF Dims
  <1>6. maps' = [dim \in Dims |-> maps'[dim]]
    BY <1>4 DEF Dims
  <1>7. ASSUME NEW dim \in Dims
        PROVE  KeepsRecent(maps'[dim], MaxEntries[dim], LastSeen(dim)', now)
    <2>1. PICK map \in track(dim, maps[dim], EndKey(dim, source, class.source)) :
             maps'[dim] \in track(dim, map, EndKey(dim, destination, class.destination))
      BY <1>5
    <2>2. now \in Nat /\ KeepsRecent(maps[dim], MaxEntries[dim], LastSeen(dim), now)
      BY DEF ArrivalsOK, MapsOK
    <2>3. PICK s1, s2 : /\ s1 = SeenAt(LastSeen(dim), EndKey(dim, source, class.source))
                        /\ s2 = SeenAt(s1, EndKey(dim, destination, class.destination))
      OBVIOUS
    <2>4. KeepsRecent(map, MaxEntries[dim], s1, now)
      BY <2>1, <2>2, <2>3, TrackKeepsRecent
    <2>5. KeepsRecent(maps'[dim], MaxEntries[dim], s2, now)
      <3>1. PICK m : m = maps'[dim]
        OBVIOUS
      <3>2. KeepsRecent(m, MaxEntries[dim], s2, now)
        BY <2>1, <2>2, <2>3, <2>4, <3>1, TrackKeepsRecent
      <3> QED BY <3>1, <3>2
    <2>6. s2 = LastSeen(dim)'
      <3>1. s2 = [k \in KeysSeen(dim) \cup KeysOf(dim, a) |->
                    IF k \in KeysOf(dim, a) THEN now ELSE LastSeen(dim)[k]]
        <4>1. PICK seen, k1, k2, fresh :
                /\ seen = LastSeen(dim) /\ fresh = KeysOf(dim, a)
                /\ k1 = EndKey(dim, source, class.source)
                /\ k2 = EndKey(dim, destination, class.destination)
          OBVIOUS
        <4>2. seen = [k \in KeysSeen(dim) |-> seen[k]] /\ fresh = {k1, k2} \ {Nobody}
          BY <1>3, <4>1 DEF LastSeen, KeysOf
        <4>3. SeenAt(SeenAt(seen, k1), k2) = Refreshed(seen, {k1, k2} \ {Nobody})
          <5>1. PICK K : K = KeysSeen(dim)
            OBVIOUS
          <5>2. seen = [k \in K |-> seen[k]]
            BY <4>2, <5>1
          <5> QED BY <5>2, SeenTwice
        <4>4. DOMAIN seen = KeysSeen(dim)
          BY <4>2
        <4> QED BY <2>3, <4>1, <4>2, <4>3, <4>4 DEF Refreshed
      <3> QED BY <1>3, <3>1, ArrivalIsSeen
    <2> QED BY <2>5, <2>6
  <1>8. MapsOK'
    BY <1>3, <1>6, <1>7 DEF MapsOK
  <1>9. ArrivalsOK'
    BY <1>3, ArrivalIsSeen
  <1> QED BY <1>8, <1>9

LEMMA ExpiryKeepsRecent ==
    ASSUME ArrivalsOK, MapsOK, expire_inactive
    PROVE  ArrivalsOK' /\ MapsOK'
  <1>0. UNCHANGED <<now, arrivals>> /\ now \in Nat
    BY DEF expire_inactive, ArrivalsOK
  <1>1. ArrivalsOK'
    BY <1>0 DEF ArrivalsOK
  <1>2. maps' = [dim \in Dims |->
                  [k \in {k \in DOMAIN maps[dim] : now - maps[dim][k].last_updated <= Ttl} |-> maps[dim][k]]]
    BY DEF expire_inactive
  <1>3. ASSUME NEW dim \in Dims
        PROVE  KeepsRecent(maps'[dim], MaxEntries[dim], LastSeen(dim)', now')
    <2> DEFINE D == DOMAIN maps[dim]
               F == {k \in D : now - maps[dim][k].last_updated <= Ttl}
               seen == LastSeen(dim)
    <2>1. LastSeen(dim)' = LastSeen(dim)
      BY <1>0 DEF LastSeen, KeysSeen, TimesSeen, KeysOf
    <2>2. DOMAIN maps'[dim] = F /\ \A k \in F : maps'[dim][k] = maps[dim][k]
      BY <1>2
    <2>3. KeepsRecent(maps[dim], MaxEntries[dim], seen, now) /\ MaxEntries[dim] \in Nat /\ Ttl \in Nat
      BY TrafficAssumption DEF MapsOK, Dims
    <2>4. /\ IsFiniteSet(D) /\ D \subseteq DOMAIN seen /\ Cardinality(D) <= MaxEntries[dim]
          /\ \A k \in D : maps[dim][k].last_updated = seen[k]
          /\ \A k \in DOMAIN seen : seen[k] \in Nat /\ seen[k] <= now
          /\ \A gone \in DOMAIN seen \ D : \A k \in D : seen[gone] <= seen[k]
          /\ \A gone \in DOMAIN seen \ D : now - seen[gone] <= Ttl => Cardinality(D) = MaxEntries[dim]
      BY <2>3 DEF KeepsRecent
    <2> HIDE DEF seen
    <2>5. F \subseteq D /\ \A k \in D : k \in F <=> now - seen[k] <= Ttl
      BY <2>4
    <2> HIDE DEF F, D
    <2>6. /\ IsFiniteSet(F) /\ Cardinality(F) <= Cardinality(D)
          /\ Cardinality(F) \in Nat /\ Cardinality(D) \in Nat
      BY <2>4, <2>5, FS_Subset, FS_CardinalityType
    <2>7. ASSUME NEW gone \in DOMAIN seen \ F
          PROVE  /\ \A k \in F : seen[gone] <= seen[k]
                 /\ now - seen[gone] <= Ttl => Cardinality(F) = MaxEntries[dim]
      <3>1. CASE gone \in D
        <4>1. ~(now - seen[gone] <= Ttl)
          BY <2>5, <3>1
        <4>2. \A k \in F : seen[gone] <= seen[k]
          BY <4>1, <2>3, <2>4, <2>5, <1>0
        <4> QED BY <4>1, <4>2
      <3>2. CASE gone \notin D
        <4>1. \A k \in F : seen[gone] <= seen[k]
          BY <2>4, <2>5, <3>2
        <4>2. ASSUME now - seen[gone] <= Ttl PROVE Cardinality(F) = MaxEntries[dim]
          <5>1. \A k \in D : now - seen[k] <= Ttl
            BY <2>3, <2>4, <3>2, <4>2, <1>0
          <5>2. F = D
            BY <2>5, <5>1
          <5> QED BY <2>4, <3>2, <4>2, <5>2
        <4> QED BY <4>1, <4>2
      <3> QED BY <3>1, <3>2
    <2>8. Cardinality(F) <= MaxEntries[dim]
      BY <2>3, <2>4, <2>6
    <2>9. F \subseteq DOMAIN seen /\ \A k \in F : maps'[dim][k].last_updated = seen[k]
      BY <2>2, <2>4, <2>5
    <2> QED BY <1>0, <2>1, <2>2, <2>4, <2>6, <2>7, <2>8, <2>9 DEF KeepsRecent, seen
  <1>4. maps' = [dim \in Dims |-> maps'[dim]]
    BY <1>2
  <1> QED BY <1>1, <1>3, <1>4 DEF MapsOK

LEMMA ElapseKeepsRecent ==
    ASSUME ArrivalsOK, MapsOK, Elapse
    PROVE  ArrivalsOK' /\ MapsOK'
  <1>0. UNCHANGED <<maps, arrivals>> /\ now' = now + 1 /\ now \in Nat
    BY DEF Elapse, ArrivalsOK
  <1>1. ArrivalsOK'
    BY <1>0 DEF ArrivalsOK
  <1>2. ASSUME NEW dim \in Dims
        PROVE  KeepsRecent(maps[dim], MaxEntries[dim], LastSeen(dim)', now')
    <2>1. LastSeen(dim)' = LastSeen(dim)
      BY <1>0 DEF LastSeen, KeysSeen, TimesSeen, KeysOf
    <2>2. PICK seen : seen = LastSeen(dim)
      OBVIOUS
    <2>3. KeepsRecent(maps[dim], MaxEntries[dim], seen, now) /\ Ttl \in Nat
      BY <2>2, TrafficAssumption DEF MapsOK
    <2>4. \A k \in DOMAIN seen : seen[k] \in Nat /\ seen[k] <= now + 1
      BY <1>0, <2>3 DEF KeepsRecent
    <2>5. \A k \in DOMAIN seen : (now + 1) - seen[k] <= Ttl => now - seen[k] <= Ttl
      BY <1>0, <2>3, <2>4
    <2>6. KeepsRecent(maps[dim], MaxEntries[dim], seen, now + 1)
      BY <2>3, <2>4, <2>5 DEF KeepsRecent
    <2> QED BY <1>0, <2>1, <2>2, <2>6
  <1> QED BY <1>0, <1>1, <1>2 DEF MapsOK

(* The flows so far and the maps agree, whatever happens.                  *)
LEMMA FlowsRecorded == TrafficSpec => [](ArrivalsOK /\ MapsOK)
  <1>1. TrafficInit => ArrivalsOK /\ MapsOK
    <2> SUFFICES ASSUME TrafficInit PROVE ArrivalsOK /\ MapsOK
      OBVIOUS
    <2>1. now = 0 /\ arrivals = << >> /\ maps = [dim \in Dims |-> << >>]
      BY DEF TrafficInit
    <2>2. ArrivalsOK
      BY <2>1 DEF ArrivalsOK
    <2>3. \A dim \in Dims : LastSeen(dim) = << >> /\ DOMAIN LastSeen(dim) = {}
      BY <2>1 DEF LastSeen, KeysSeen
    <2>4. \A dim \in Dims : MaxEntries[dim] \in Nat
      BY TrafficAssumption DEF Dims
    <2>5. ASSUME NEW dim \in Dims PROVE KeepsRecent(maps[dim], MaxEntries[dim], LastSeen(dim), now)
      <3>1. DOMAIN maps[dim] = {} /\ IsFiniteSet({}) /\ Cardinality({}) = 0
        BY <2>1, FS_EmptySet
      <3> QED BY <2>3, <2>4, <3>1 DEF KeepsRecent
    <2> QED BY <2>1, <2>2, <2>5 DEF MapsOK
  <1>2. ArrivalsOK /\ MapsOK /\ [TrafficNext]_tvars => ArrivalsOK' /\ MapsOK'
    <2> SUFFICES ASSUME ArrivalsOK, MapsOK, [TrafficNext]_tvars PROVE ArrivalsOK' /\ MapsOK'
      OBVIOUS
    <2>1. CASE UNCHANGED tvars
      BY ZenonT(30), <2>1 DEF tvars, ArrivalsOK, MapsOK, LastSeen, KeysSeen, TimesSeen, KeysOf
    <2> QED BY <2>1, IngestKeepsRecent, ExpiryKeepsRecent, ElapseKeepsRecent DEF TrafficNext
  <1> QED BY <1>1, <1>2, PTL DEF TrafficSpec

(* A bounded map of the aggregator holds the keys with the most recent     *)
(* flows: one that is gone is no fresher than any that is kept, and within *)
(* the time to live only a full map has dropped it (bounded_map.rs, upsert *)
(* and expire_inactive), for maps of any size and any flows.               *)
THEOREM MostRecentAreKeptHolds == TrafficSpec => []MostRecentAreKept
  <1>1. ArrivalsOK /\ MapsOK => MostRecentAreKept
    BY DEF MapsOK, KeepsRecent, MostRecentAreKept
  <1> QED BY <1>1, FlowsRecorded, PTL

----------------------------------------------------------------------------
(* The tumbling windows (rate_window.rs).                                  *)

From(s) == {i \in DOMAIN arrivals : arrivals[i].at >= s}
Between(s, t) == {i \in DOMAIN arrivals : arrivals[i].at \in s .. (t - 1)}

(* A window has counted what arrived since its start, nothing arrived after *)
(* its end, and it shows what arrived in the window before.                *)
WindowOK(w, d) ==
    /\ w = [start |-> w.start, bytes |-> w.bytes, last_finalized |-> w.last_finalized]
    /\ w.start \in Nat /\ w.start % d = 0 /\ w.start <= now
    /\ w.bytes = Cardinality(From(w.start))
    /\ \A i \in DOMAIN arrivals : arrivals[i].at < w.start + d
    /\ w.last_finalized = IF w.start = 0 THEN Nobody ELSE Cardinality(Between(w.start - d, w.start))

WindowsOK == \A d \in WINDOW_DURATIONS : WindowOK(windows[d], d)

LEMMA WholeTurns ==
    ASSUME NEW n \in Nat, NEW d \in Nat \ {0}
    PROVE  n \div d \in Nat /\ (n \div d) * d \in Nat /\ (n \div d) * d <= n /\ n < (n \div d) * d + d
OBVIOUS

LEMMA StillAligned ==
    ASSUME NEW s \in Nat, NEW turns \in Nat, NEW d \in Nat \ {0}, s % d = 0
    PROVE  (s + turns * d) % d = 0
  <1>1. PICK k \in Nat : s = k * d
    <2>1. s = (s \div d) * d + (s % d) /\ s \div d \in Nat
      OBVIOUS
    <2>2. s = (s \div d) * d
      BY <2>1
    <2> QED BY <2>1, <2>2
  <1>2. s + turns * d = (k + turns) * d
    BY <1>1
  <1>3. k + turns \in Nat
    OBVIOUS
  <1>4. \A j \in Nat : (j * d) % d = 0
    OBVIOUS
  <1> QED BY <1>2, <1>3, <1>4

LEMMA RollOK ==
    ASSUME ArrivalsOK, NEW d \in WINDOW_DURATIONS, NEW w, WindowOK(w, d)
    PROVE  WindowOK(roll_if_elapsed(w, d), d) /\ now < roll_if_elapsed(w, d).start + d
  <1>0. d \in Nat \ {0} /\ now \in Nat /\ w.start \in Nat /\ w.start <= now /\ w.start % d = 0
    BY TrafficAssumption DEF ArrivalsOK, WindowOK
  <1>1. PICK turns : turns = (now - w.start) \div d
    OBVIOUS
  <1>2. PICK on : on = turns * d
    OBVIOUS
  <1>3. turns \in Nat /\ on \in Nat /\ on <= now - w.start /\ now - w.start < on + d
    <2>1. PICK n \in Nat : n = now - w.start
      BY <1>0
    <2> QED BY <1>0, <1>1, <1>2, <2>1, WholeTurns
  <1>4. CASE turns = 0
    <2>1. on = 0 /\ roll_if_elapsed(w, d) = w
      BY <1>0, <1>1, <1>2, <1>4 DEF roll_if_elapsed
    <2> QED BY <1>0, <1>3, <2>1
  <1>5. CASE turns # 0
    <2>1. PICK v : v = [start |-> w.start + on, bytes |-> 0, last_finalized |-> IF turns = 1 THEN w.bytes ELSE 0]
      OBVIOUS
    <2>2. roll_if_elapsed(w, d) = v
      BY <1>1, <1>2, <1>5, <2>1 DEF roll_if_elapsed
    <2>3. v.start = w.start + on /\ v.start \in Nat /\ v.start <= now /\ now < v.start + d /\ v.bytes = 0
          /\ v.last_finalized = IF turns = 1 THEN w.bytes ELSE 0
      BY <1>0, <1>3, <2>1
    <2>4. v.start % d = 0
      BY <1>0, <1>2, <1>3, <2>3, StillAligned
    <2>5. on >= d /\ (turns = 1 => on = d) /\ (turns # 1 => on >= 2 * d)
      <3>1. \A m \in Nat : m >= 2 => m * d >= 2 * d
        BY <1>0
      <3> QED BY <1>0, <1>2, <1>3, <1>5, <3>1
    <2>6. \A i \in DOMAIN arrivals : arrivals[i].at \in Nat /\ arrivals[i].at <= now /\ arrivals[i].at < w.start + d
      BY DEF ArrivalsOK, WindowOK
    <2>7. From(v.start) = {} /\ Cardinality({}) = 0
      BY <1>0, <1>3, <2>3, <2>5, <2>6, FS_EmptySet DEF From
    <2>8. v.start # 0
      BY <1>0, <1>3, <2>3, <2>5
    <2>9. v.last_finalized = Cardinality(Between(v.start - d, v.start))
      <3>1. CASE turns = 1
        <4>1. v.start - d = w.start /\ v.start = w.start + d
          BY <1>0, <2>3, <2>5, <3>1
        <4>2. Between(w.start, w.start + d) = From(w.start)
          BY <1>0, <2>6 DEF Between, From
        <4> QED BY <2>3, <3>1, <4>1, <4>2 DEF WindowOK
      <3>2. CASE turns # 1
        <4>1. Between(v.start - d, v.start) = {}
          BY <1>0, <1>3, <2>3, <2>5, <2>6, <3>2 DEF Between
        <4> QED BY <2>3, <2>7, <3>2, <4>1
      <3> QED BY <3>1, <3>2
    <2>10. \A i \in DOMAIN arrivals : arrivals[i].at < v.start + d
      BY <1>0, <1>3, <2>3, <2>6
    <2>11. v = [start |-> v.start, bytes |-> v.bytes, last_finalized |-> v.last_finalized]
      BY <2>1
    <2>12. WindowOK(v, d)
      BY <2>3, <2>4, <2>7, <2>8, <2>9, <2>10, <2>11 DEF WindowOK
    <2> QED BY <2>2, <2>3, <2>12
  <1> QED BY <1>4, <1>5

(* A flow that arrives falls into the window in progress, not into the one *)
(* before.                                                                 *)
LEMMA RecordOK ==
    ASSUME ArrivalsOK, NEW d \in WINDOW_DURATIONS, NEW w, WindowOK(w, d),
           NEW a, a.at = now, arrivals' = Append(arrivals, a), now' = now
    PROVE  WindowOK(record(w, d), d)'
  <1>1. PICK v : v = roll_if_elapsed(w, d)
    OBVIOUS
  <1>2. WindowOK(v, d) /\ now < v.start + d
    BY <1>1, RollOK
  <1>3. PICK u : u = [start |-> v.start, bytes |-> v.bytes + 1, last_finalized |-> v.last_finalized]
    OBVIOUS
  <1>4. record(w, d)' = u
    <2>1. roll_if_elapsed(w, d)' = v
      BY <1>1 DEF roll_if_elapsed
    <2>2. v = [start |-> v.start, bytes |-> v.bytes, last_finalized |-> v.last_finalized]
      BY <1>2 DEF WindowOK
    <2>3. record(w, d)' = [v EXCEPT !.bytes = v.bytes + 1]
      BY <2>1 DEF record
    <2> QED BY <1>3, <2>2, <2>3
  <1>5. now \in Nat /\ Len(arrivals) \in Nat /\ DOMAIN arrivals = 1 .. Len(arrivals) /\ d \in Nat \ {0}
    BY TrafficAssumption DEF ArrivalsOK
  <1>6. PICK n : n = Len(arrivals) + 1
    OBVIOUS
  <1>7. /\ DOMAIN arrivals' = DOMAIN arrivals \cup {n} /\ n \notin DOMAIN arrivals
        /\ arrivals'[n] = a /\ \A i \in DOMAIN arrivals : arrivals'[i] = arrivals[i]
    BY <1>5, <1>6
  <1>8. v.start \in Nat /\ v.start <= now /\ v.start % d = 0
    BY <1>2 DEF WindowOK
  <1>9. From(v.start)' = From(v.start) \cup {n} /\ n \notin From(v.start)
    <2>1. From(v.start)' = {i \in DOMAIN arrivals' : arrivals'[i].at >= v.start}
      BY DEF From
    <2> QED BY <1>5, <1>7, <1>8, <2>1 DEF From
  <1>10. Cardinality(From(v.start)') = Cardinality(From(v.start)) + 1
    <2>1. IsFiniteSet(DOMAIN arrivals) /\ From(v.start) \subseteq DOMAIN arrivals
      BY <1>5, FS_Interval DEF From
    <2>2. IsFiniteSet(From(v.start))
      BY <2>1, FS_Subset
    <2> QED BY <1>9, <2>2, FS_AddElement
  <1>11. Between(v.start - d, v.start)' = Between(v.start - d, v.start)
    <2>1. Between(v.start - d, v.start)' =
             {i \in DOMAIN arrivals' : arrivals'[i].at \in (v.start - d) .. (v.start - 1)}
      BY DEF Between
    <2> QED BY <1>5, <1>7, <1>8, <2>1 DEF Between
  <1>12. \A i \in DOMAIN arrivals' : arrivals'[i].at < v.start + d
    BY <1>2, <1>7 DEF WindowOK
  <1>13. u.start = v.start /\ u.bytes = v.bytes + 1 /\ u.last_finalized = v.last_finalized
    BY <1>3
  <1>14. v.bytes = Cardinality(From(v.start))
         /\ v.last_finalized = IF v.start = 0 THEN Nobody ELSE Cardinality(Between(v.start - d, v.start))
    BY <1>2 DEF WindowOK
  <1>15. WindowOK(u, d)'
    <2>1. u.bytes = Cardinality(From(u.start)')
      BY <1>10, <1>13, <1>14
    <2>2. u.last_finalized = IF u.start = 0 THEN Nobody ELSE Cardinality(Between(u.start - d, u.start)')
      BY <1>11, <1>13, <1>14
    <2>3. u = [start |-> u.start, bytes |-> u.bytes, last_finalized |-> u.last_finalized]
      BY <1>3
    <2> QED BY <1>8, <1>12, <1>13, <2>1, <2>2, <2>3 DEF WindowOK
  <1> QED BY <1>4, <1>15

(* Time alone changes nothing a window says.                               *)
LEMMA WindowStays ==
    ASSUME NEW w, NEW d, WindowOK(w, d), arrivals' = arrivals, now \in Nat, now' \in Nat, now <= now'
    PROVE  WindowOK(w, d)'
  <1>1. From(w.start)' = From(w.start)
    BY DEF From
  <1>2. Between(w.start - d, w.start)' = Between(w.start - d, w.start)
    BY DEF Between
  <1>3. w.start \in Nat /\ w.start <= now
    BY DEF WindowOK
  <1>4. w.start <= now'
    BY <1>3
  <1> QED BY <1>1, <1>2, <1>3, <1>4 DEF WindowOK

(* What a window shows is the traffic of the last whole window before the  *)
(* one in progress, also after a silence that spans several (rate_window.rs,*)
(* roll_if_elapsed): the aggregator's half of RatesAreOfTheirWindow, for   *)
(* windows of any length and any flows.                                    *)
THEOREM RateIsOfTheLastWindowHolds == TrafficSpec => []RateIsOfTheLastWindow
  <1>1. TrafficInit => WindowsOK
    <2> SUFFICES ASSUME TrafficInit, NEW d \in WINDOW_DURATIONS PROVE WindowOK(windows[d], d)
      BY DEF WindowsOK
    <2>1. windows[d] = [start |-> 0, bytes |-> 0, last_finalized |-> Nobody] /\ now = 0 /\ arrivals = << >>
      BY DEF TrafficInit
    <2>2. From(0) = {} /\ Cardinality({}) = 0 /\ 0 % d = 0
      BY <2>1, FS_EmptySet, TrafficAssumption DEF From
    <2>3. PICK w : w = windows[d]
      OBVIOUS
    <2>4. w.start = 0 /\ w.bytes = 0 /\ w.last_finalized = Nobody
          /\ w = [start |-> w.start, bytes |-> w.bytes, last_finalized |-> w.last_finalized]
      BY <2>1, <2>3
    <2>5. WindowOK(w, d)
      BY <2>1, <2>2, <2>4 DEF WindowOK
    <2> QED BY <2>3, <2>5
  <1>2. ArrivalsOK /\ WindowsOK /\ [TrafficNext]_tvars => WindowsOK'
    <2> SUFFICES ASSUME ArrivalsOK, WindowsOK, [TrafficNext]_tvars, NEW d \in WINDOW_DURATIONS
                 PROVE  WindowOK(windows[d], d)'
      BY DEF WindowsOK
    <2>1. PICK w, u : w = windows[d] /\ u = windows'[d]
      OBVIOUS
    <2>2. WindowOK(w, d)
      BY <2>1 DEF WindowsOK
    <2>now. now \in Nat
      BY DEF ArrivalsOK
    <2>3. ASSUME NEW f \in SeenFlows, ingest(f.source, f.destination) PROVE WindowOK(u, d)'
      <3>1. now' = now /\ windows'[d] = record(windows[d], d)
        BY <2>3 DEF ingest
      <3>2. PICK a : a.at = now /\ arrivals' = Append(arrivals, a)
        BY <2>3 DEF ingest
      <3>3. record(w, d)' = record(w, d)
        BY <3>1 DEF record, roll_if_elapsed
      <3> QED BY <2>1, <2>2, <3>1, <3>2, <3>3, RecordOK
    <2>4. ASSUME expire_inactive PROVE WindowOK(u, d)'
      <3>1. UNCHANGED <<now, arrivals>> /\ windows'[d] = roll_if_elapsed(windows[d], d)
        BY <2>4 DEF expire_inactive
      <3>2. WindowOK(u, d)
        BY <2>1, <2>2, <3>1, RollOK
      <3> QED BY <2>now, <3>1, <3>2, WindowStays
    <2>5. ASSUME Elapse PROVE WindowOK(u, d)'
      <3>1. now' = now + 1 /\ UNCHANGED <<windows, arrivals>> /\ u = w /\ now \in Nat
        BY <2>1, <2>5 DEF Elapse, ArrivalsOK
      <3> QED BY <2>2, <2>now, <3>1, WindowStays
    <2>6. ASSUME UNCHANGED tvars PROVE WindowOK(u, d)'
      <3>1. UNCHANGED <<now, windows, arrivals>> /\ u = w
        BY <2>1, <2>6 DEF tvars
      <3> QED BY <2>2, <2>now, <3>1, WindowStays
    <2>7. WindowOK(u, d)'
      BY <2>3, <2>4, <2>5, <2>6 DEF TrafficNext
    <2> QED BY <2>1, <2>7
  <1>3. WindowsOK => RateIsOfTheLastWindow
    BY DEF WindowsOK, WindowOK, Between, RateIsOfTheLastWindow
  <1> QED BY <1>1, <1>2, <1>3, FlowsRecorded, PTL DEF TrafficSpec

------------------------------------------------------------------------------
(* The classifier.                                                         *)

\* What build_registry has after each entry of a list.
Insertions(after, list, L) ==
    /\ after[0] = [ok |-> TRUE, reg |-> PrefixRegistry_new]
    /\ \A n \in 1 .. L : after[n] = TryInsert(after[n - 1], list[n])
    /\ build_registry(list) = after[L]

\* The loop of build_registry does what its definition says.
LEMMA BuildLoop ==
    ASSUME NEW list, NEW L \in Nat, L = Len(list)
    PROVE  \E after : Insertions(after, list, L)
  <1> DEFINE Round(f, n) == IF n = 0 THEN [ok |-> TRUE, reg |-> PrefixRegistry_new]
                            ELSE TryInsert(f[n - 1], list[n])
             Runs(m) == \E f : f = [n \in 0 .. m |-> Round(f, n)]
             after == CHOOSE f : f = [n \in 0 .. L |-> Round(f, n)]
  <1>1. Runs(L)
    <2> DEFINE T == {m \in Nat : ~Runs(m)}
    <2> SUFFICES ASSUME T # {} PROVE FALSE
      OBVIOUS
    <2>0. T \subseteq Nat
      OBVIOUS
    <2>1. PICK m \in T : \A k \in T : m <= k
      <3> HIDE DEF T
      <3> QED BY <2>0, LeastNumber
    <2>2. CASE m = 0
      <3>1. PICK f : f = [n \in 0 .. 0 |-> [ok |-> TRUE, reg |-> PrefixRegistry_new]]
        OBVIOUS
      <3>2. f = [n \in 0 .. 0 |-> Round(f, n)]
        BY <3>1
      <3> QED BY <2>2, <3>2
    <2>3. CASE m # 0
      <3>1. m - 1 \in Nat /\ m - 1 \notin T
        <4> HIDE DEF T
        <4> QED BY <2>0, <2>1, <2>3
      <3>2. PICK f : f = [n \in 0 .. m - 1 |-> Round(f, n)]
        BY <3>1
      <3>3. PICK g : g = [n \in 0 .. m |-> IF n = m THEN TryInsert(f[m - 1], list[m]) ELSE f[n]]
        OBVIOUS
      <3>4. ASSUME NEW n \in 0 .. m PROVE g[n] = Round(g, n)
        <4>1. CASE n = m
          <5>1. g[m - 1] = f[m - 1]
            BY <3>1, <3>3
          <5> QED BY <2>3, <3>3, <4>1, <5>1
        <4>2. CASE n # m
          <5>1. n \in 0 .. m - 1 /\ g[n] = f[n] /\ f[n] = Round(f, n)
            <6>1. n \in 0 .. m - 1
              BY <2>0, <4>2
            <6> HIDE DEF Round
            <6>2. g[n] = f[n]
              BY <3>3, <4>2
            <6>3. f[n] = Round(f, n)
              BY <3>2, <6>1
            <6> QED BY <6>1, <6>2, <6>3
          <5>2. n # 0 => g[n - 1] = f[n - 1]
            BY <3>3, <4>2
          <5> QED BY <5>1, <5>2
        <4> QED BY <4>1, <4>2
      <3>5. g = [n \in 0 .. m |-> Round(g, n)]
        <4> HIDE DEF Round
        <4> QED BY <3>3, <3>4
      <3> HIDE DEF Round
      <3> QED BY <2>1, <3>5
    <2> QED BY <2>2, <2>3
  <1>2. after = [n \in 0 .. L |-> Round(after, n)]
    <2> HIDE DEF Round
    <2> QED BY <1>1
  <1>3. \A n \in 0 .. L : after[n] = Round(after, n)
    <2> HIDE DEF Round, after
    <2> QED BY <1>2
  <1>4. build_registry(list) = after[L]
    BY DEF build_registry
  <1> HIDE DEF after
  <1>5. after[0] = Round(after, 0) /\ \A n \in 1 .. L : after[n] = Round(after, n) /\ n # 0
    <2> HIDE DEF Round
    <2> QED BY <1>3
  <1>6. Insertions(after, list, L)
    BY <1>4, <1>5 DEF Insertions
  <1> QED BY <1>6

\* What lookup has after each bit of an address.
Descent(after, reg, a, L) ==
    /\ after[0] = EntryAt(reg[a.family], SubSeq(a.bits, 1, 0), Nobody)
    /\ \A n \in 1 .. L : after[n] = EntryAt(reg[a.family], SubSeq(a.bits, 1, n), after[n - 1])
    /\ lookup(reg, a) = after[L]

\* The loop of lookup does what its definition says.
LEMMA WalkLoop ==
    ASSUME NEW reg, NEW a, NEW L \in Nat, L = MaxBits[a.family]
    PROVE  \E after : Descent(after, reg, a, L)
  <1> DEFINE Round(f, n) == IF n = 0 THEN EntryAt(reg[a.family], SubSeq(a.bits, 1, 0), Nobody)
                            ELSE EntryAt(reg[a.family], SubSeq(a.bits, 1, n), f[n - 1])
             Runs(m) == \E f : f = [n \in 0 .. m |-> Round(f, n)]
             after == CHOOSE f : f = [n \in 0 .. L |-> Round(f, n)]
  <1>1. Runs(L)
    <2> DEFINE T == {m \in Nat : ~Runs(m)}
    <2> SUFFICES ASSUME T # {} PROVE FALSE
      OBVIOUS
    <2>0. T \subseteq Nat
      OBVIOUS
    <2>1. PICK m \in T : \A k \in T : m <= k
      <3> HIDE DEF T
      <3> QED BY <2>0, LeastNumber
    <2>2. CASE m = 0
      <3>1. PICK f : f = [n \in 0 .. 0 |-> EntryAt(reg[a.family], SubSeq(a.bits, 1, 0), Nobody)]
        OBVIOUS
      <3>2. f = [n \in 0 .. 0 |-> Round(f, n)]
        BY <3>1
      <3> QED BY <2>2, <3>2
    <2>3. CASE m # 0
      <3>1. m - 1 \in Nat /\ m - 1 \notin T
        <4> HIDE DEF T
        <4> QED BY <2>0, <2>1, <2>3
      <3>2. PICK f : f = [n \in 0 .. m - 1 |-> Round(f, n)]
        BY <3>1
      <3>3. PICK g : g = [n \in 0 .. m |-> IF n = m THEN EntryAt(reg[a.family], SubSeq(a.bits, 1, m), f[m - 1]) ELSE f[n]]
        OBVIOUS
      <3>4. ASSUME NEW n \in 0 .. m PROVE g[n] = Round(g, n)
        <4>1. CASE n = m
          <5>1. g[m - 1] = f[m - 1]
            BY <3>1, <3>3
          <5> QED BY <2>3, <3>3, <4>1, <5>1
        <4>2. CASE n # m
          <5>1. n \in 0 .. m - 1 /\ g[n] = f[n] /\ f[n] = Round(f, n)
            <6>1. n \in 0 .. m - 1
              BY <2>0, <4>2
            <6> HIDE DEF Round
            <6>2. g[n] = f[n]
              BY <3>3, <4>2
            <6>3. f[n] = Round(f, n)
              BY <3>2, <6>1
            <6> QED BY <6>1, <6>2, <6>3
          <5>2. n # 0 => g[n - 1] = f[n - 1]
            BY <3>3, <4>2
          <5> QED BY <5>1, <5>2
        <4> QED BY <4>1, <4>2
      <3>5. g = [n \in 0 .. m |-> Round(g, n)]
        <4> HIDE DEF Round
        <4> QED BY <3>3, <3>4
      <3> HIDE DEF Round
      <3> QED BY <2>1, <3>5
    <2> QED BY <2>2, <2>3
  <1>2. after = [n \in 0 .. L |-> Round(after, n)]
    <2> HIDE DEF Round
    <2> QED BY <1>1
  <1>3. \A n \in 0 .. L : after[n] = Round(after, n)
    <2> HIDE DEF Round, after
    <2> QED BY <1>2
  <1>4. lookup(reg, a) = after[L]
    BY DEF lookup
  <1> HIDE DEF after
  <1>5. after[0] = Round(after, 0) /\ \A n \in 1 .. L : after[n] = Round(after, n) /\ n # 0
    <2> HIDE DEF Round
    <2> QED BY <1>3
  <1>6. Descent(after, reg, a, L)
    BY <1>4, <1>5 DEF Descent
  <1> QED BY <1>6

LEMMA Widths == \A f \in DOMAIN MaxBits : MaxBits[f] \in Nat
  BY WidthsAssumption

EntryOf(p) == [tenant |-> p.tenant, hostgroup |-> p.hostgroup]

\* An entry of a configured list.
ListEntry(p) ==
    p.family \in DOMAIN MaxBits /\ p.bits \in Seq({0, 1}) /\ Nobody # EntryOf(p)

Marked(reg, f, node) == node \in DOMAIN reg[f] /\ reg[f][node] # Nobody

\* The first entries of a list are in the tries, and nothing else is.
Entered(acc, list, n) ==
    /\ acc.reg = [f \in DOMAIN MaxBits |-> acc.reg[f]]
    /\ acc.ok => \A i \in 1 .. n : /\ Len(list[i].bits) <= MaxBits[list[i].family]
                                   /\ Marked(acc.reg, list[i].family, list[i].bits)
                                   /\ acc.reg[list[i].family][list[i].bits] = EntryOf(list[i])
    /\ \A f \in DOMAIN MaxBits : \A node : Marked(acc.reg, f, node) =>
          \E i \in 1 .. n : list[i].family = f /\ list[i].bits = node

LEMMA TryInsertEnters ==
    ASSUME NEW list, NEW n \in Nat \ {0}, NEW acc, NEW next, \A i \in 1 .. n : ListEntry(list[i]),
           Entered(acc, list, n - 1), next = TryInsert(acc, list[n])
    PROVE  Entered(next, list, n)
  <1> DEFINE p == list[n]
  <1>0. ListEntry(p)
    OBVIOUS
  <1>1. CASE InsertError(acc.reg, p)
    <2>1. next.ok = FALSE /\ next.reg = acc.reg
      BY <1>1 DEF TryInsert
    <2> QED BY <2>1 DEF Entered
  <1>2. CASE ~InsertError(acc.reg, p)
    <2>1. next.ok = acc.ok /\ next.reg = insert_prefix(acc.reg, p)
      BY <1>2 DEF TryInsert
    <2>2. Len(p.bits) <= MaxBits[p.family] /\ ~Marked(acc.reg, p.family, p.bits)
      <3>1. MaxBits[p.family] \in Nat /\ Len(p.bits) \in Nat
        BY <1>0, Widths DEF ListEntry
      <3> QED BY <1>2, <3>1 DEF InsertError, Marked
    <2>3. p.bits \in PathTo(p.bits)
      <3>1. Len(p.bits) \in 0 .. Len(p.bits) /\ SubSeq(p.bits, 1, Len(p.bits)) = p.bits
        BY <1>0 DEF ListEntry
      <3> QED BY <3>1 DEF PathTo
    <2>4. PICK grown : grown = [node \in DOMAIN acc.reg[p.family] \cup PathTo(p.bits) |->
                                  IF node \in DOMAIN acc.reg[p.family] THEN acc.reg[p.family][node] ELSE Nobody]
      OBVIOUS
    <2>5. PICK trie : trie = [grown EXCEPT ![p.bits] = EntryOf(p)]
      OBVIOUS
    <2>6. next.reg = [acc.reg EXCEPT ![p.family] = trie]
      BY <2>1, <2>4, <2>5 DEF insert_prefix, EntryOf
    <2>7. /\ next.reg = [f \in DOMAIN MaxBits |-> next.reg[f]]
          /\ next.reg[p.family] = trie
          /\ \A f \in DOMAIN MaxBits \ {p.family} : next.reg[f] = acc.reg[f]
      BY <1>0, <2>6 DEF Entered, ListEntry
    <2>8. /\ Marked(next.reg, p.family, p.bits) /\ next.reg[p.family][p.bits] = EntryOf(p)
          /\ \A node : node # p.bits =>
                /\ Marked(next.reg, p.family, node) <=> Marked(acc.reg, p.family, node)
                /\ Marked(acc.reg, p.family, node) => next.reg[p.family][node] = acc.reg[p.family][node]
      <3>1. p.family \in DOMAIN MaxBits /\ EntryOf(p) # Nobody
        BY <1>0 DEF ListEntry
      <3>2. Marked(next.reg, p.family, p.bits) /\ next.reg[p.family][p.bits] = EntryOf(p)
        BY <2>3, <2>4, <2>5, <2>7, <3>1 DEF Marked
      <3>3. ASSUME NEW node, node # p.bits
            PROVE  /\ Marked(next.reg, p.family, node) <=> Marked(acc.reg, p.family, node)
                   /\ Marked(acc.reg, p.family, node) => next.reg[p.family][node] = acc.reg[p.family][node]
        BY <2>3, <2>4, <2>5, <2>7, <3>3 DEF Marked
      <3> QED BY <3>2, <3>3
    <2>9. \A f \in DOMAIN MaxBits : \A node : <<f, node>> # <<p.family, p.bits>> =>
                /\ Marked(next.reg, f, node) <=> Marked(acc.reg, f, node)
                /\ Marked(acc.reg, f, node) => next.reg[f][node] = acc.reg[f][node]
      BY <2>7, <2>8 DEF Marked
    <2>10. ASSUME next.ok, NEW i \in 1 .. n
           PROVE  /\ Len(list[i].bits) <= MaxBits[list[i].family]
                  /\ Marked(next.reg, list[i].family, list[i].bits)
                  /\ next.reg[list[i].family][list[i].bits] = EntryOf(list[i])
      <3>1. CASE i = n
        BY <2>2, <2>8, <3>1
      <3>2. CASE i # n
        <4>1. i \in 1 .. n - 1 /\ acc.ok
          BY <2>1, <2>10, <3>2
        <4>2. /\ Len(list[i].bits) <= MaxBits[list[i].family]
              /\ Marked(acc.reg, list[i].family, list[i].bits)
              /\ acc.reg[list[i].family][list[i].bits] = EntryOf(list[i])
          BY <4>1 DEF Entered
        <4>3. list[i].family \in DOMAIN MaxBits
          BY DEF ListEntry
        <4> QED BY <2>2, <2>9, <4>2, <4>3
      <3> QED BY <3>1, <3>2
    <2>11. ASSUME NEW f \in DOMAIN MaxBits, NEW node, Marked(next.reg, f, node)
           PROVE  \E i \in 1 .. n : list[i].family = f /\ list[i].bits = node
      <3>1. CASE <<f, node>> = <<p.family, p.bits>>
        BY <3>1
      <3>2. CASE <<f, node>> # <<p.family, p.bits>>
        <4>1. PICK i \in 1 .. n - 1 : list[i].family = f /\ list[i].bits = node
          <5>1. Marked(acc.reg, f, node)
            BY <2>9, <2>11, <3>2
          <5> QED BY <5>1 DEF Entered
        <4> QED BY <4>1
      <3> QED BY <3>1, <3>2
    <2> QED BY <2>7, <2>10, <2>11 DEF Entered
  <1> QED BY <1>1, <1>2

\* A registry has the entries of its list.
LEMMA RegistryEntered ==
    ASSUME NEW list, NEW L \in Nat, L = Len(list), \A i \in 1 .. L : ListEntry(list[i])
    PROVE  Entered(build_registry(list), list, L)
  <1>1. PICK after : Insertions(after, list, L)
    BY BuildLoop
  <1> DEFINE good == {n \in 0 .. L : Entered(after[n], list, n)}
  <1>2. 0 \in good
    <2>1. after[0].ok = TRUE /\ after[0].reg = PrefixRegistry_new
      BY <1>1 DEF Insertions
    <2>2. \A f \in DOMAIN MaxBits : \A node : ~Marked(after[0].reg, f, node)
      BY <2>1 DEF Marked, PrefixRegistry_new, PrefixTrie_new
    <2>3. after[0].reg = [f \in DOMAIN MaxBits |-> after[0].reg[f]]
      BY <2>1 DEF PrefixRegistry_new
    <2> QED BY <2>2, <2>3 DEF Entered
  <1>3. ASSUME NEW n \in 1 .. L, n - 1 \in good PROVE n \in good
    <2>1. n \in Nat \ {0} /\ after[n] = TryInsert(after[n - 1], list[n]) /\ \A i \in 1 .. n : ListEntry(list[i])
      BY <1>1 DEF Insertions
    <2>2. Entered(after[n - 1], list, n - 1)
      BY <1>3
    <2>3. PICK acc, next : acc = after[n - 1] /\ next = after[n]
      OBVIOUS
    <2>4. Entered(next, list, n)
      BY <2>1, <2>2, <2>3, TryInsertEnters
    <2> QED BY <2>3, <2>4
  <1>4. L \in good
    <2>1. good \in SUBSET (0 .. L)
      OBVIOUS
    <2> HIDE DEF good
    <2> QED BY <1>2, <1>3, <2>1, LoopKeeps
  <1> QED BY <1>1, <1>4 DEF Insertions

\* The entry met last on the way down.
Deepest(reg, a, d, v) ==
    \/ v = Nobody /\ \A j \in 0 .. d : ~Marked(reg, a.family, SubSeq(a.bits, 1, j))
    \/ \E j \in 0 .. d :
          /\ Marked(reg, a.family, SubSeq(a.bits, 1, j)) /\ v = reg[a.family][SubSeq(a.bits, 1, j)]
          /\ \A k \in j + 1 .. d : ~Marked(reg, a.family, SubSeq(a.bits, 1, k))

LEMMA LookupDeepest ==
    ASSUME NEW reg, NEW a, NEW L \in Nat, L = MaxBits[a.family]
    PROVE  Deepest(reg, a, L, lookup(reg, a))
  <1>1. PICK after : Descent(after, reg, a, L)
    BY WalkLoop
  <1> DEFINE good == {n \in 0 .. L : Deepest(reg, a, n, after[n])}
  <1>2. 0 \in good
    <2>1. after[0] = EntryAt(reg[a.family], SubSeq(a.bits, 1, 0), Nobody)
      BY <1>1 DEF Descent
    <2> QED BY <2>1 DEF EntryAt, Deepest, Marked
  <1>3. ASSUME NEW n \in 1 .. L, n - 1 \in good PROVE n \in good
    <2>1. after[n] = EntryAt(reg[a.family], SubSeq(a.bits, 1, n), after[n - 1])
      BY <1>1 DEF Descent
    <2>2. Deepest(reg, a, n - 1, after[n - 1])
      BY <1>3
    <2>3. CASE Marked(reg, a.family, SubSeq(a.bits, 1, n))
      <3>1. after[n] = reg[a.family][SubSeq(a.bits, 1, n)]
        BY <2>1, <2>3 DEF EntryAt, Marked
      <3> QED BY <2>3, <3>1 DEF Deepest
    <2>4. CASE ~Marked(reg, a.family, SubSeq(a.bits, 1, n))
      <3>1. after[n] = after[n - 1]
        BY <2>1, <2>4 DEF EntryAt, Marked
      <3>2. CASE after[n - 1] = Nobody /\ \A j \in 0 .. n - 1 : ~Marked(reg, a.family, SubSeq(a.bits, 1, j))
        BY <2>4, <3>1, <3>2 DEF Deepest
      <3>3. ASSUME NEW j \in 0 .. n - 1,
                   /\ Marked(reg, a.family, SubSeq(a.bits, 1, j))
                   /\ after[n - 1] = reg[a.family][SubSeq(a.bits, 1, j)]
                   /\ \A k \in j + 1 .. n - 1 : ~Marked(reg, a.family, SubSeq(a.bits, 1, k))
            PROVE  Deepest(reg, a, n, after[n])
        <4>1. j \in 0 .. n /\ \A k \in j + 1 .. n : ~Marked(reg, a.family, SubSeq(a.bits, 1, k))
          BY <2>4, <3>3
        <4> QED BY <3>1, <3>3, <4>1 DEF Deepest
      <3>4. Deepest(reg, a, n, after[n])
        BY <2>2, <3>2, <3>3 DEF Deepest
      <3> QED BY <3>4
    <2> QED BY <2>3, <2>4
  <1>4. L \in good
    <2>1. good \in SUBSET (0 .. L)
      OBVIOUS
    <2> HIDE DEF good
    <2> QED BY <1>2, <1>3, <2>1, LoopKeeps
  <1> QED BY <1>1, <1>4 DEF Descent

\* The deepest entry over an address is that of the longest prefix over it.
LEMMA DeepestIsLongest ==
    ASSUME NEW reg, NEW L \in Nat, L = Len(prefixes), DOMAIN prefixes = 1 .. L,
           \A i \in 1 .. L : ListEntry(prefixes[i]),
           Entered([ok |-> TRUE, reg |-> reg], prefixes, L),
           NEW a \in Address, NEW v, Deepest(reg, a, MaxBits[a.family], v)
    PROVE  v = Owner(a)
  <1> DEFINE W == MaxBits[a.family]
             covering == {p \in {prefixes[i] : i \in DOMAIN prefixes} : Covers(p, a)}
  <1>1. a.family \in DOMAIN MaxBits /\ W \in Nat /\ a.bits \in Seq({0, 1}) /\ Len(a.bits) = W
    <2>1. PICK f \in DOMAIN MaxBits : a \in [family : {f}, bits : [1 .. MaxBits[f] -> {0, 1}]]
      BY DEF Address
    <2>2. MaxBits[f] \in Nat
      BY Widths
    <2> QED BY <2>1, <2>2
  <1>2. \A j \in 0 .. W : Len(SubSeq(a.bits, 1, j)) = j
    BY <1>1
  <1>3. ASSUME NEW p \in covering
        PROVE  /\ Len(p.bits) \in 0 .. W /\ p.bits = SubSeq(a.bits, 1, Len(p.bits))
               /\ Marked(reg, a.family, p.bits) /\ reg[a.family][p.bits] = EntryOf(p)
    <2>1. PICK i \in 1 .. L : p = prefixes[i]
      OBVIOUS
    <2>2. p.family = a.family /\ SubSeq(a.bits, 1, Len(p.bits)) = p.bits
      BY DEF Covers
    <2>3. Len(p.bits) \in Nat /\ Len(p.bits) <= MaxBits[p.family]
      BY <2>1 DEF Entered, ListEntry
    <2>4. Marked(reg, p.family, p.bits) /\ reg[p.family][p.bits] = EntryOf(p)
      BY <2>1 DEF Entered
    <2> HIDE DEF covering
    <2> QED BY <1>1, <2>2, <2>3, <2>4
  <1>4. CASE v = Nobody /\ \A j \in 0 .. W : ~Marked(reg, a.family, SubSeq(a.bits, 1, j))
    <2>1. covering = {}
      <3> HIDE DEF covering
      <3> QED BY <1>3, <1>4
    <2> QED BY <1>4, <2>1 DEF Owner
  <1>5. ASSUME NEW j \in 0 .. W,
               Marked(reg, a.family, SubSeq(a.bits, 1, j)) /\ v = reg[a.family][SubSeq(a.bits, 1, j)],
               \A k \in j + 1 .. W : ~Marked(reg, a.family, SubSeq(a.bits, 1, k))
        PROVE  v = Owner(a)
    <2>1. PICK node : node = SubSeq(a.bits, 1, j)
      OBVIOUS
    <2>2. PICK i \in 1 .. L : prefixes[i].family = a.family /\ prefixes[i].bits = node
      <3>1. Marked(reg, a.family, node)
        BY <1>5, <2>1
      <3> QED BY <1>1, <3>1 DEF Entered
    <2>3. prefixes[i] \in covering /\ Len(prefixes[i].bits) = j
      BY <1>2, <2>1, <2>2 DEF Covers
    <2>4. ASSUME NEW q \in covering PROVE Len(q.bits) <= j
      <3>1. Len(q.bits) \in 0 .. W /\ Marked(reg, a.family, SubSeq(a.bits, 1, Len(q.bits)))
        <4> HIDE DEF covering
        <4> QED BY <1>3
      <3>2. Len(q.bits) \notin j + 1 .. W
        BY <1>5, <3>1
      <3> QED BY <1>1, <3>1, <3>2
    <2>5. PICK p : p = CHOOSE x \in covering : \A q \in covering : Len(q.bits) <= Len(x.bits)
      OBVIOUS
    <2>6. p \in covering /\ \A q \in covering : Len(q.bits) <= Len(p.bits)
      <3> HIDE DEF covering
      <3> QED BY <2>3, <2>4, <2>5
    <2>7. Len(p.bits) = j
      <3> HIDE DEF covering
      <3> QED BY <1>3, <2>3, <2>4, <2>6
    <2>8. v = EntryOf(p)
      <3> HIDE DEF covering
      <3> QED BY <1>3, <1>5, <2>1, <2>6, <2>7
    <2>9. Owner(a) = EntryOf(p)
      BY <2>5, <2>6 DEF Owner, EntryOf
    <2> QED BY <2>8, <2>9
  <1> QED BY <1>4, <1>5 DEF Deepest

\* The classifier finds the owner of an address by the longest configured
\* prefix over it, for lists and addresses of any length and whatever the
\* order of the list (trie.rs, insert and lookup; registry.rs,
\* build_registry).
THEOREM OwnerIsLongestMatch == TrafficSpec => []OwnedByLongestMatch
  <1>1. TrafficInit => OwnedByLongestMatch
    <2> SUFFICES ASSUME TrafficInit, NEW a \in Address
                 PROVE  lookup(registry, a) = IF build_registry(prefixes).ok THEN Owner(a) ELSE Nobody
      BY DEF OwnedByLongestMatch
    <2>1. PICK built : built = build_registry(prefixes)
      OBVIOUS
    <2>2. registry = IF built.ok THEN built.reg ELSE PrefixRegistry_new
      BY <2>1 DEF TrafficInit
    <2>3. PICK L \in Nat : L = Len(prefixes) /\ DOMAIN prefixes = 1 .. L
      BY ListsAssumption DEF TrafficInit
    <2>4. \A i \in 1 .. L : ListEntry(prefixes[i])
      BY <2>3, ListsAssumption DEF TrafficInit, ListEntry, EntryOf
    <2>5. Entered(built, prefixes, L)
      BY <2>1, <2>3, <2>4, RegistryEntered
    <2>6. MaxBits[a.family] \in Nat /\ a.family \in DOMAIN MaxBits
      <3>1. PICK f \in DOMAIN MaxBits : a \in [family : {f}, bits : [1 .. MaxBits[f] -> {0, 1}]]
        BY DEF Address
      <3> QED BY <3>1, Widths
    <2>7. PICK v : v = lookup(registry, a)
      OBVIOUS
    <2>8. Deepest(registry, a, MaxBits[a.family], v)
      BY <2>6, <2>7, LookupDeepest
    <2>9. CASE built.ok
      <3>1. PICK reg : reg = built.reg
        OBVIOUS
      <3>2. Entered([ok |-> TRUE, reg |-> reg], prefixes, L)
        <4>1. PICK same : same = [ok |-> TRUE, reg |-> reg]
          OBVIOUS
        <4>2. same.ok /\ same.reg = built.reg
          BY <3>1, <4>1
        <4>3. Entered(same, prefixes, L)
          BY <2>5, <2>9, <4>2, Zenon DEF Entered
        <4> QED BY <4>1, <4>3
      <3>3. Deepest(reg, a, MaxBits[a.family], v)
        BY <2>2, <2>8, <2>9, <3>1
      <3>4. v = Owner(a)
        BY <2>3, <2>4, <3>2, <3>3, DeepestIsLongest
      <3> QED BY <2>1, <2>7, <2>9, <3>4
    <2>10. CASE ~built.ok
      <3>1. \A node : ~Marked(registry, a.family, node)
        BY <2>2, <2>6, <2>10 DEF Marked, PrefixRegistry_new, PrefixTrie_new
      <3>2. v = Nobody
        BY <2>8, <3>1 DEF Deepest
      <3> QED BY <2>1, <2>7, <2>10, <3>2
    <2> QED BY <2>9, <2>10
  <1>2. OwnedByLongestMatch /\ [TrafficNext]_tvars => OwnedByLongestMatch'
    <2> SUFFICES ASSUME OwnedByLongestMatch, [TrafficNext]_tvars PROVE OwnedByLongestMatch'
      OBVIOUS
    <2>1. prefixes' = prefixes /\ registry' = registry
      BY DEF TrafficNext, tvars, ingest, expire_inactive, Elapse
    <2> QED BY <2>1 DEF OwnedByLongestMatch, Owner
  <1> QED BY <1>1, <1>2, PTL DEF TrafficSpec

------------------------------------------------------------------------------
(* The detector's windows.                                                 *)

\* The sum, round by round.
Summed(sum, w, n) ==
    /\ sum[0] = 0 /\ \A i \in 1 .. n : sum[i] = sum[i - 1] + w[i]
    /\ Total(w, n) = sum[n]

LEMMA SumLoop ==
    ASSUME NEW w, NEW L \in Nat
    PROVE  \E sum : Summed(sum, w, L)
  <1> DEFINE Round(f, n) == IF n = 0 THEN 0 ELSE f[n - 1] + w[n]
             Runs(m) == \E f : f = [n \in 0 .. m |-> Round(f, n)]
             sum == CHOOSE f : f = [n \in 0 .. L |-> Round(f, n)]
  <1>1. Runs(L)
    <2> DEFINE T == {m \in Nat : ~Runs(m)}
    <2> SUFFICES ASSUME T # {} PROVE FALSE
      OBVIOUS
    <2>0. T \subseteq Nat
      OBVIOUS
    <2>1. PICK m \in T : \A k \in T : m <= k
      <3> HIDE DEF T
      <3> QED BY <2>0, LeastNumber
    <2>2. CASE m = 0
      <3>1. PICK f : f = [n \in 0 .. 0 |-> 0]
        OBVIOUS
      <3>2. f = [n \in 0 .. 0 |-> Round(f, n)]
        BY <3>1
      <3> QED BY <2>2, <3>2
    <2>3. CASE m # 0
      <3>1. m - 1 \in Nat /\ m - 1 \notin T
        <4> HIDE DEF T
        <4> QED BY <2>0, <2>1, <2>3
      <3>2. PICK f : f = [n \in 0 .. m - 1 |-> Round(f, n)]
        BY <3>1
      <3>3. PICK g : g = [n \in 0 .. m |-> IF n = m THEN f[m - 1] + w[m] ELSE f[n]]
        OBVIOUS
      <3>4. ASSUME NEW n \in 0 .. m PROVE g[n] = Round(g, n)
        <4>1. CASE n = m
          <5>1. g[m - 1] = f[m - 1]
            BY <3>1, <3>3
          <5> QED BY <2>3, <3>3, <4>1, <5>1
        <4>2. CASE n # m
          <5>1. n \in 0 .. m - 1 /\ g[n] = f[n] /\ f[n] = Round(f, n)
            <6>1. n \in 0 .. m - 1
              BY <2>0, <4>2
            <6> HIDE DEF Round
            <6>2. g[n] = f[n]
              BY <3>3, <4>2
            <6>3. f[n] = Round(f, n)
              BY <3>2, <6>1
            <6> QED BY <6>1, <6>2, <6>3
          <5>2. n # 0 => g[n - 1] = f[n - 1]
            BY <3>3, <4>2
          <5> QED BY <5>1, <5>2
        <4> QED BY <4>1, <4>2
      <3>5. g = [n \in 0 .. m |-> Round(g, n)]
        <4> HIDE DEF Round
        <4> QED BY <3>3, <3>4
      <3> HIDE DEF Round
      <3> QED BY <2>1, <3>5
    <2> QED BY <2>2, <2>3
  <1>2. sum = [n \in 0 .. L |-> Round(sum, n)]
    <2> HIDE DEF Round
    <2> QED BY <1>1
  <1>3. \A n \in 0 .. L : sum[n] = Round(sum, n)
    <2> HIDE DEF Round, sum
    <2> QED BY <1>2
  <1>4. Total(w, L) = sum[L]
    BY DEF Total
  <1> HIDE DEF sum
  <1>5. sum[0] = Round(sum, 0) /\ \A n \in 1 .. L : sum[n] = Round(sum, n) /\ n # 0
    <2> HIDE DEF Round
    <2> QED BY <1>3
  <1>6. Summed(sum, w, L)
    BY <1>4, <1>5 DEF Summed
  <1> QED BY <1>6

\* One more adds its own.
LEMMA TotalGrows ==
    ASSUME NEW w, NEW v, NEW L \in Nat, \A i \in 1 .. L : v[i] = w[i]
    PROVE  Total(v, L + 1) = Total(w, L) + v[L + 1]
  <1>1. PICK a : Summed(a, w, L)
    BY SumLoop
  <1>2. PICK b : Summed(b, v, L + 1)
    <2>1. L + 1 \in Nat
      OBVIOUS
    <2> QED BY <2>1, SumLoop
  <1> DEFINE same == {n \in 0 .. L : a[n] = b[n]}
  <1>3. L \in same
    <2>1. same \in SUBSET (0 .. L) /\ 0 \in same
      BY <1>1, <1>2 DEF Summed
    <2>2. ASSUME NEW n \in 1 .. L, n - 1 \in same PROVE n \in same
      <3>1. a[n] = a[n - 1] + w[n] /\ b[n] = b[n - 1] + v[n]
        BY <1>1, <1>2 DEF Summed
      <3>2. a[n - 1] = b[n - 1]
        BY <2>2
      <3> QED BY <3>1, <3>2
    <2> HIDE DEF same
    <2> QED BY <2>1, <2>2, LoopKeeps
  <1>4. a[L] = b[L]
    BY <1>3
  <1>5. b[L + 1] = b[L] + v[L + 1]
    <2>1. L + 1 \in 1 .. L + 1 /\ (L + 1) - 1 = L
      OBVIOUS
    <2> QED BY <1>2, <2>1 DEF Summed
  <1> QED BY <1>1, <1>2, <1>4, <1>5 DEF Summed

LEMMA TotalOfNone == ASSUME NEW w PROVE Total(w, 0) = 0
  <1>1. PICK sum : Summed(sum, w, 0)
    BY SumLoop
  <1> QED BY <1>1 DEF Summed

\* What an upsert leaves, but for the order of the evictions.
Upserted(map, max, key, value, after) ==
    /\ key \in DOMAIN after /\ after[key].value = value
    /\ DOMAIN after \subseteq DOMAIN map \cup {key}
    /\ \A other \in DOMAIN after \ {key} : after[other] = map[other]
    /\ IsFiniteSet(DOMAIN after) /\ Cardinality(DOMAIN after) <= max
    /\ key \in DOMAIN map \/ Cardinality(DOMAIN map) # max => DOMAIN after = DOMAIN map \cup {key}

LEMMA UpsertHolds ==
    ASSUME NEW map, NEW max \in Nat, max > 0, NEW key, NEW value, IsFiniteSet(DOMAIN map),
           Cardinality(DOMAIN map) <= max, NEW after \in upsert(map, max, key, value)
    PROVE  Upserted(map, max, key, value, after)
  <1> DEFINE entry == [value |-> value, last_updated |-> now]
             D == DOMAIN map
  <1>1. IsFiniteSet(D) /\ Cardinality(D) \in Nat /\ Cardinality(D) <= max
    BY FS_CardinalityType
  <1>2. CASE key \in D
    <2>1. after = [map EXCEPT ![key] = entry]
      BY <1>2 DEF upsert
    <2>2. DOMAIN after = D /\ after[key] = entry /\ \A other \in D \ {key} : after[other] = map[other]
      BY <1>2, <2>1
    <2> QED BY <1>1, <1>2, <2>2 DEF Upserted
  <1>3. CASE key \notin D /\ Cardinality(D) < max
    <2>1. after = [k \in D \cup {key} |-> IF k = key THEN entry ELSE map[k]]
      BY <1>3 DEF upsert
    <2>2. IsFiniteSet(D \cup {key}) /\ Cardinality(D \cup {key}) = Cardinality(D) + 1
      BY <1>1, <1>3, FS_AddElement
    <2>3. /\ DOMAIN after = D \cup {key} /\ after[key] = entry
          /\ \A other \in D : other # key => after[other] = map[other]
      BY <1>3, <2>1
    <2> QED BY <1>1, <1>3, <2>2, <2>3 DEF Upserted
  <1>4. CASE key \notin D /\ ~(Cardinality(D) < max)
    <2>1. PICK victim \in least_recently_updated_keys(map) :
             after = [k \in (D \ {victim}) \cup {key} |-> IF k = key THEN entry ELSE map[k]]
      <3>1. max # 0
        OBVIOUS
      <3> QED BY <1>4, <3>1 DEF upsert
    <2> DEFINE E == D \ {victim}
    <2>2. victim \in D
      BY <2>1 DEF least_recently_updated_keys
    <2>3. IsFiniteSet(E) /\ Cardinality(E) = Cardinality(D) - 1 /\ key \notin E
      BY <1>1, <1>4, <2>2, FS_RemoveElement
    <2>4. IsFiniteSet(E \cup {key}) /\ Cardinality(E \cup {key}) = Cardinality(E) + 1
      BY <2>3, FS_AddElement
    <2>5. /\ DOMAIN after = E \cup {key} /\ after[key] = entry
          /\ \A other \in E : other # key => after[other] = map[other]
      BY <1>4, <2>1
    <2>6. Cardinality(DOMAIN after) <= max /\ Cardinality(D) = max
      BY <1>1, <1>4, <2>3, <2>4, <2>5
    <2> QED BY <1>4, <2>4, <2>5, <2>6 DEF Upserted
  <1> QED BY <1>2, <1>3, <1>4

\* The keys there may be of a scope type.
KeyShape(type, key) ==
    /\ key = [tenant |-> key.tenant, scope_type |-> type, scope_id |-> key.scope_id,
              direction |-> key.direction, address_family |-> key.address_family]
    /\ key.direction \in {"incoming", "outgoing"}
    /\ type = "prefix" => key.scope_id = [family |-> key.scope_id.family, bits |-> key.scope_id.bits]
    /\ type = "hostgroupTotal" => key.scope_id # Nobody

Shaped(type, c) ==
    /\ IsFiniteSet(DOMAIN c.map) /\ Cardinality(DOMAIN c.map) <= MaxScopes[type]
    /\ c.evicted \in Nat
    /\ \A key \in DOMAIN c.map : KeyShape(type, key)

Whole(type, c) == c.evicted = 0 /\ MaxScopes[type] > 0

\* A map holds no more of a scope than there was (t of counter k, seen), all of it if nothing
\* was evicted, and then also every scope that there was.
Accounts(type, c, key, k, t, seen, any) ==
    /\ t \in Nat
    /\ key \in DOMAIN c.map =>
          /\ c.map[key].value.counters[k] \in Nat /\ c.map[key].value.counters[k] <= t
          /\ c.map[key].value.completeness \subseteq seen
    /\ Whole(type, c) /\ key \in DOMAIN c.map =>
          c.map[key].value.counters[k] = t /\ c.map[key].value.completeness = seen
    /\ Whole(type, c) /\ key \notin DOMAIN c.map => t = 0 /\ seen = {} /\ ~any

LEMMA Limits == \A type \in ScopeType : MaxScopes[type] \in Nat
  BY WindowsAssumption DEF ScopeType

LEMMA AddsNumbers ==
    ASSUME NEW f \in SeenFlows, NEW k
    PROVE  Adds(f, k) \in Nat /\ Adds(f, "flows") = 1
  <1>1. f.bytes \in Nat /\ f.packets \in Nat
    BY FlowsAssumption
  <1>2. PICK n, m \in Nat : n = f.bytes /\ m = f.packets
    BY <1>1
  <1>3. Adds(f, "flows") = 1
    BY DEF Adds
  <1>4. Adds(f, k) \in {0, 1, n, m}
    BY <1>2 DEF Adds
  <1> QED BY <1>2, <1>3, <1>4

LEMMA AccumulateShaped ==
    ASSUME NEW type \in ScopeType, NEW c, Shaped(type, c), NEW key, KeyShape(type, key), NEW f,
           NEW next \in accumulate(type, c, key, f)
    PROVE  Shaped(type, next)
  <1>1. PICK max \in Nat : max = MaxScopes[type]
    BY Limits
  <1>2. PICK value : value = add(Held(c.map, key, Accumulator), f)
    OBVIOUS
  <1>3. PICK after \in upsert(c.map, max, key, value) :
            next = [map |-> after, evicted |-> c.evicted + IF key \notin DOMAIN c.map
                        /\ Cardinality(DOMAIN c.map) = MaxScopes[type] /\ MaxScopes[type] > 0 THEN 1 ELSE 0]
    BY <1>1, <1>2 DEF accumulate
  <1>4. next.evicted \in Nat /\ next.map = after
    BY <1>3 DEF Shaped
  <1>5. CASE max = 0
    <2>1. after = c.map
      BY <1>3, <1>5 DEF upsert
    <2> QED BY <1>4, <2>1 DEF Shaped
  <1>6. CASE max > 0
    <2>1. PICK map : map = c.map
      OBVIOUS
    <2>2. IsFiniteSet(DOMAIN map) /\ Cardinality(DOMAIN map) <= max
      BY <1>1, <2>1 DEF Shaped
    <2>3. /\ DOMAIN after \subseteq DOMAIN map \cup {key}
          /\ IsFiniteSet(DOMAIN after) /\ Cardinality(DOMAIN after) <= max
      <3>1. Upserted(map, max, key, value, after)
        BY <1>3, <1>6, <2>1, <2>2, UpsertHolds
      <3> QED BY <3>1 DEF Upserted
    <2> QED BY <1>1, <1>4, <2>1, <2>3 DEF Shaped
  <1>7. max = 0 \/ max > 0
    OBVIOUS
  <1> QED BY <1>5, <1>6, <1>7, Zenon

LEMMA AccumulateAccounts ==
    ASSUME NEW type \in ScopeType, NEW c, Shaped(type, c), NEW to, NEW f \in SeenFlows,
           NEW next \in accumulate(type, c, to, f),
           NEW key, NEW k \in MetricKind, NEW t, NEW seen, NEW any, Accounts(type, c, key, k, t, seen, any)
    PROVE  /\ key = to => Accounts(type, next, key, k, t + Adds(f, k), seen \cup DataCompleteness(f), TRUE)
           /\ key # to => Accounts(type, next, key, k, t, seen, any)
  <1>1. PICK max \in Nat : max = MaxScopes[type]
    BY Limits
  <1>2. PICK value, old : value = add(old, f) /\ old = Held(c.map, to, Accumulator)
    OBVIOUS
  <1>3. PICK after \in upsert(c.map, max, to, value) :
            next = [map |-> after, evicted |-> c.evicted + IF to \notin DOMAIN c.map
                        /\ Cardinality(DOMAIN c.map) = max /\ max > 0 THEN 1 ELSE 0]
    BY <1>1, <1>2 DEF accumulate
  <1>4. PICK amount \in Nat : amount = Adds(f, k)
    BY AddsNumbers
  <1>5. CASE max = 0
    <2>1. next.map = c.map
      BY <1>3, <1>5 DEF upsert
    <2>2. DOMAIN c.map = {}
      <3>1. PICK D : D = DOMAIN c.map /\ IsFiniteSet(D) /\ Cardinality(D) <= 0
        BY <1>1, <1>5 DEF Shaped
      <3>2. Cardinality(D) = 0
        BY <3>1, FS_CardinalityType
      <3> QED BY <3>1, <3>2, FS_EmptySet
    <2>3. ~ (MaxScopes[type] > 0)
      BY <1>1, <1>5
    <2>4. t + amount \in Nat
      BY <1>4 DEF Accounts
    <2> QED BY <1>4, <2>1, <2>2, <2>3, <2>4 DEF Accounts, Whole
  <1>6. CASE max > 0
    <2>1. PICK map : map = c.map
      OBVIOUS
    <2>2. IsFiniteSet(DOMAIN map) /\ Cardinality(DOMAIN map) <= max /\ c.evicted \in Nat
      BY <1>1, <2>1 DEF Shaped
    <2>3. /\ to \in DOMAIN after /\ after[to].value = value
          /\ DOMAIN after \subseteq DOMAIN map \cup {to}
          /\ \A other \in DOMAIN after \ {to} : after[other] = map[other]
          /\ to \in DOMAIN map \/ Cardinality(DOMAIN map) # max => DOMAIN after = DOMAIN map \cup {to}
      <3>1. after \in upsert(map, max, to, value)
        BY <1>3, <2>1
      <3>2. Upserted(map, max, to, value, after)
        BY <1>6, <2>2, <3>1, UpsertHolds
      <3> QED BY <3>2 DEF Upserted
    <2>4. next.map = after
      BY <1>3
    <2>5. Whole(type, next) => Whole(type, c) /\ DOMAIN after = DOMAIN map \cup {to}
      <3>1. next.evicted = 0 => c.evicted = 0 /\ (to \in DOMAIN map \/ Cardinality(DOMAIN map) # max)
        BY <1>3, <1>6, <2>1, <2>2
      <3> QED BY <2>3, <3>1 DEF Whole
    <2>6. ASSUME key # to PROVE Accounts(type, next, key, k, t, seen, any)
      <3>1. key \in DOMAIN after => key \in DOMAIN map /\ after[key] = map[key]
        BY <2>3, <2>6
      <3>2. Whole(type, next) => Whole(type, c) /\ (key \in DOMAIN after <=> key \in DOMAIN map)
        BY <2>3, <2>5, <2>6
      <3> QED BY <2>1, <2>4, <3>1, <3>2 DEF Accounts
    <2>7. ASSUME key = to PROVE Accounts(type, next, key, k, t + amount, seen \cup DataCompleteness(f), TRUE)
      <3>1. value.counters[k] = old.counters[k] + amount
        BY <1>2, <1>4 DEF add
      <3>2. value.completeness = old.completeness \cup DataCompleteness(f)
        BY <1>2 DEF add
      <3>3. CASE key \in DOMAIN map
        <4>1. old = map[key].value
          BY <1>2, <2>1, <2>7, <3>3 DEF Held
        <4>2. /\ old.counters[k] \in Nat /\ old.counters[k] <= t /\ t \in Nat /\ old.completeness \subseteq seen
              /\ Whole(type, c) => old.counters[k] = t /\ old.completeness = seen
          BY <2>1, <3>3, <4>1 DEF Accounts
        <4>3. /\ value.counters[k] \in Nat /\ value.counters[k] <= t + amount /\ t + amount \in Nat
              /\ value.completeness \subseteq seen \cup DataCompleteness(f)
              /\ Whole(type, next) =>
                    value.counters[k] = t + amount /\ value.completeness = seen \cup DataCompleteness(f)
          BY <2>5, <3>1, <3>2, <4>2
        <4> QED BY <2>3, <2>4, <2>7, <4>3 DEF Accounts
      <3>4. CASE key \notin DOMAIN map
        <4>1. old.counters[k] = 0 /\ old.completeness = {}
          BY <1>2, <2>1, <2>7, <3>4 DEF Held, Accumulator
        <4>2. t \in Nat /\ (Whole(type, c) => t = 0 /\ seen = {})
          BY <2>1, <3>4 DEF Accounts
        <4>3. /\ value.counters[k] \in Nat /\ value.counters[k] <= t + amount /\ t + amount \in Nat
              /\ value.completeness \subseteq seen \cup DataCompleteness(f)
              /\ Whole(type, next) =>
                    value.counters[k] = t + amount /\ value.completeness = seen \cup DataCompleteness(f)
          BY <2>5, <3>1, <3>2, <4>1, <4>2
        <4> QED BY <2>3, <2>4, <2>7, <4>3 DEF Accounts
      <3> QED BY <3>3, <3>4
    <2> QED BY <1>4, <2>6, <2>7
  <1>7. max = 0 \/ max > 0
    OBVIOUS
  <1> QED BY <1>5, <1>6, <1>7, Zenon

\* The registry is that of the configured list.
ListOK ==
    /\ Len(prefixes) \in Nat /\ DOMAIN prefixes = 1 .. Len(prefixes)
    /\ \A i \in 1 .. Len(prefixes) : ListEntry(prefixes[i])
    /\ build_registry(prefixes).ok => Entered([ok |-> TRUE, reg |-> registry], prefixes, Len(prefixes))
    /\ OwnedByLongestMatch

LEMMA AddressShape ==
    ASSUME NEW a \in Address
    PROVE  /\ a.family \in DOMAIN MaxBits /\ MaxBits[a.family] \in Nat
           /\ a.bits \in Seq({0, 1}) /\ Len(a.bits) = MaxBits[a.family]
           /\ a = [family |-> a.family, bits |-> a.bits]
  <1>1. PICK f \in DOMAIN MaxBits : a \in [family : {f}, bits : [1 .. MaxBits[f] -> {0, 1}]]
    BY DEF Address
  <1>2. MaxBits[f] \in Nat
    BY Widths
  <1> QED BY <1>1, <1>2

LEMMA MaskShape ==
    ASSUME NEW a \in Address, NEW n
    PROVE  mask(a, n) = [family |-> a.family, bits |-> SubSeq(a.bits, 1, n)]
  <1>1. PICK fam, bits : fam = a.family /\ bits = a.bits /\ a = [family |-> fam, bits |-> bits]
    BY AddressShape
  <1>2. PICK kept : kept = SubSeq(bits, 1, n)
    OBVIOUS
  <1>3. [a EXCEPT !.bits = kept] = [family |-> fam, bits |-> kept]
    BY <1>1
  <1>4. mask(a, n) = [a EXCEPT !.bits = kept]
    BY <1>1, <1>2 DEF mask
  <1> QED BY <1>1, <1>2, <1>3, <1>4

\* The length the registry matches is that of the longest prefix over the address.
LEMMA MatchedIsLongest ==
    ASSUME ListOK, build_registry(prefixes).ok, NEW a \in Address, lookup(registry, a) # Nobody
    PROVE  /\ matched_prefix_len(a) \in 0 .. MaxBits[a.family]
           /\ \E i \in 1 .. Len(prefixes) :
                 Covers(prefixes[i], a) /\ prefixes[i].bits = SubSeq(a.bits, 1, matched_prefix_len(a))
           /\ \A i \in 1 .. Len(prefixes) :
                 Covers(prefixes[i], a) => Len(prefixes[i].bits) <= matched_prefix_len(a)
  <1>1. PICK W \in Nat : W = MaxBits[a.family] /\ Len(a.bits) = W /\ a.bits \in Seq({0, 1})
    BY AddressShape
  <1>2. Deepest(registry, a, W, lookup(registry, a))
    BY <1>1, LookupDeepest
  <1>3. PICK j \in 0 .. W : /\ Marked(registry, a.family, SubSeq(a.bits, 1, j))
                            /\ \A k \in j + 1 .. W : ~Marked(registry, a.family, SubSeq(a.bits, 1, k))
    BY <1>2 DEF Deepest
  <1> DEFINE lengths == {n \in 0 .. MaxBits[a.family] :
                           LET node == SubSeq(a.bits, 1, n)
                           IN  node \in DOMAIN registry[a.family] /\ registry[a.family][node] # Nobody}
  <1>4. \A n : n \in lengths <=> n \in 0 .. W /\ Marked(registry, a.family, SubSeq(a.bits, 1, n))
    BY <1>1 DEF Marked
  <1>5. matched_prefix_len(a) = CHOOSE x \in lengths : \A y \in lengths : x >= y
    BY DEF matched_prefix_len, Max
  <1> HIDE DEF lengths
  <1>6. j \in lengths /\ \A y \in lengths : y \in 0 .. W /\ j >= y
    BY <1>3, <1>4
  <1>7. PICK m : m = matched_prefix_len(a)
    OBVIOUS
  <1>8. m = j
    <2>1. m \in lengths /\ \A y \in lengths : m >= y
      BY <1>5, <1>6, <1>7
    <2> QED BY <1>6, <2>1
  <1>9. PICK L \in Nat : L = Len(prefixes)
    BY DEF ListOK
  <1>10. PICK i \in 1 .. L : prefixes[i].family = a.family /\ prefixes[i].bits = SubSeq(a.bits, 1, j)
    <2>1. PICK node : node = SubSeq(a.bits, 1, j) /\ Marked(registry, a.family, node)
      BY <1>3
    <2>2. a.family \in DOMAIN MaxBits
      BY AddressShape
    <2>3. PICK acc : acc = [ok |-> TRUE, reg |-> registry] /\ acc.reg = registry /\ Entered(acc, prefixes, L)
      BY <1>9 DEF ListOK
    <2>4. Marked(acc.reg, a.family, node)
      BY <2>1, <2>3
    <2>5. \E i \in 1 .. L : prefixes[i].family = a.family /\ prefixes[i].bits = node
      BY <2>2, <2>3, <2>4 DEF Entered
    <2> QED BY <2>1, <2>5
  <1>11. Covers(prefixes[i], a)
    <2>1. Len(SubSeq(a.bits, 1, j)) = j
      BY <1>1
    <2> QED BY <1>10, <2>1 DEF Covers
  <1>12. ASSUME NEW q \in 1 .. L, Covers(prefixes[q], a) PROVE Len(prefixes[q].bits) <= j
    <2>1. PICK n \in Nat : n = Len(prefixes[q].bits)
      BY <1>9 DEF ListOK, ListEntry
    <2>2. prefixes[q].family = a.family /\ SubSeq(a.bits, 1, n) = prefixes[q].bits
      BY <1>12, <2>1 DEF Covers
    <2>3. n <= W /\ Marked(registry, a.family, prefixes[q].bits)
      BY <1>1, <1>9, <2>1, <2>2 DEF ListOK, Entered
    <2>4. n \notin j + 1 .. W
      BY <1>3, <2>2, <2>3
    <2> QED BY <2>1, <2>3, <2>4
  <1> QED BY <1>1, <1>7, <1>8, <1>9, <1>10, <1>11, <1>12

\* A flow counts in the directions in which it has a local end.
LEMMA LocalEnds ==
    ASSUME NEW f \in SeenFlows, NEW class, class = classify(registry, f.source, f.destination),
           NEW d \in {"incoming", "outgoing"}
    PROVE  /\ End(f, d) \in Address
           /\ d \in sides(class) <=> lookup(registry, End(f, d)) # Nobody
           /\ d \in sides(class) => side(f, class, d).owner = lookup(registry, End(f, d))
  <1>1. f.source \in Address /\ f.destination \in Address
    BY FlowsAssumption
  <1>2. PICK from, to : from = lookup(registry, f.source) /\ to = lookup(registry, f.destination)
    OBVIOUS
  <1>3. lookup(registry, End(f, d)) = IF d = "incoming" THEN to ELSE from
    BY <1>2 DEF End
  <1>4. End(f, d) \in Address
    BY <1>1 DEF End
  <1>5. CASE is_empty(registry)
    <2>1. ASSUME NEW a \in Address PROVE lookup(registry, a) = Nobody
      <3>1. PICK W \in Nat : W = MaxBits[a.family] /\ a.family \in DOMAIN MaxBits
        BY AddressShape
      <3>2. Deepest(registry, a, W, lookup(registry, a))
        BY <3>1, LookupDeepest
      <3>3. \A node : ~Marked(registry, a.family, node)
        BY <1>5, <3>1 DEF is_empty, Marked
      <3> QED BY <3>2, <3>3 DEF Deepest
    <2>2. class.direction = "unknown"
      BY <1>5 DEF classify
    <2>3. sides(class) = {}
      BY <2>2 DEF sides
    <2> QED BY <1>4, <2>1, <2>3
  <1>6. CASE ~is_empty(registry)
    <2>1. class = [direction |-> Direction(from, to), source |-> from, destination |-> to]
      BY <1>2, <1>6 DEF classify
    <2>2. /\ "incoming" \in sides(class) <=> to # Nobody
          /\ "outgoing" \in sides(class) <=> from # Nobody
      <3>1. class.direction = Direction(from, to)
        BY <2>1
      <3>2. CASE from = Nobody /\ to # Nobody
        BY <3>1, <3>2 DEF sides, Direction
      <3>3. CASE from # Nobody /\ to = Nobody
        BY <3>1, <3>3 DEF sides, Direction
      <3>4. CASE from # Nobody /\ to # Nobody
        BY <3>1, <3>4 DEF sides, Direction
      <3>5. CASE from = Nobody /\ to = Nobody
        BY <3>1, <3>5 DEF sides, Direction
      <3> QED BY <3>2, <3>3, <3>4, <3>5
    <2>3. side(f, class, d).owner = IF d = "incoming" THEN to ELSE from
      BY <2>1 DEF side
    <2> QED BY <1>3, <1>4, <2>2, <2>3
  <1> QED BY <1>5, <1>6

LEMMA KeysShaped ==
    ASSUME NEW f \in SeenFlows, NEW class, NEW d \in {"incoming", "outgoing"}, NEW type \in ScopeType,
           NEW s, s = side(f, class, d), Scoped(type, s)
    PROVE  KeyShape(type, ScopeKey(type, ScopeId(type, s), s)) /\ ScopeKey(type, ScopeId(type, s), s).direction = d
  <1>1. PICK key, id : id = ScopeId(type, s) /\ key = ScopeKey(type, id, s)
    OBVIOUS
  <1>2. /\ key = [tenant |-> key.tenant, scope_type |-> type, scope_id |-> id,
                  direction |-> d, address_family |-> key.address_family]
        /\ key.scope_id = id /\ key.direction = d
    BY <1>1 DEF ScopeKey, side
  <1>3. type = "prefix" => id = [family |-> id.family, bits |-> id.bits]
    <2>1. s.addr \in Address
      BY FlowsAssumption DEF side, End
    <2>2. SUFFICES ASSUME type = "prefix" PROVE id = [family |-> id.family, bits |-> id.bits]
      OBVIOUS
    <2>3. PICK a, n : a \in Address /\ a = s.addr /\ n = matched_prefix_len(s.addr)
      BY <2>1
    <2>4. id = mask(a, n)
      BY <1>1, <2>2, <2>3 DEF ScopeId
    <2> QED BY <2>3, <2>4, MaskShape
  <1>4. type = "hostgroupTotal" => id # Nobody
    BY <1>1 DEF Scoped, ScopeId
  <1> QED BY <1>1, <1>2, <1>3, <1>4 DEF KeyShape

\* A flow belongs to a scope just if it is counted for it.
LEMMA ScopeOfFlow ==
    ASSUME ListOK, build_registry(prefixes).ok, NEW f \in SeenFlows, NEW type \in ScopeType,
           NEW key, KeyShape(type, key), NEW class, class = classify(registry, f.source, f.destination),
           NEW s, s = side(f, class, key.direction)
    PROVE  Belongs(f, type, key) <=>
              key.direction \in sides(class) /\ Scoped(type, s) /\ key = ScopeKey(type, ScopeId(type, s), s)
  <1>1. PICK d \in {"incoming", "outgoing"} : d = key.direction
    BY DEF KeyShape
  <1>2. PICK end \in Address : end = End(f, d)
    BY LocalEnds
  <1>3. PICK owner : owner = Owner(end) /\ owner = lookup(registry, end)
    BY DEF ListOK, OwnedByLongestMatch
  <1>4. /\ d \in sides(class) <=> owner # Nobody
        /\ d \in sides(class) => s.owner = owner
        /\ s.addr = end /\ s.direction = d
    <2>1. s = side(f, class, d)
      BY <1>1
    <2>2. s.addr = end /\ s.direction = d
      BY <1>2, <2>1 DEF side
    <2> QED BY <1>2, <1>3, <2>1, <2>2, LocalEnds
  <1>5. CASE owner = Nobody
    <2>1. ~Belongs(f, type, key)
      BY <1>1, <1>2, <1>3, <1>5 DEF Belongs
    <2> QED BY <1>1, <1>4, <1>5, <2>1
  <1>6. CASE owner # Nobody
    <2>1. s.owner = owner /\ d \in sides(class)
      BY <1>4, <1>6
    <2>2. PICK id, tenant : id = key.scope_id /\ tenant = IF owner.tenant = Nobody THEN "unattributed" ELSE owner.tenant
      OBVIOUS
    <2>3. ASSUME NEW x
          PROVE  key = ScopeKey(type, x, s) <=> key.tenant = tenant /\ id = x /\ key.address_family = end.family
      <3>1. ScopeKey(type, x, s) = [tenant |-> tenant, scope_type |-> type, scope_id |-> x, direction |-> d,
                                    address_family |-> end.family]
        BY <1>4, <2>1, <2>2 DEF ScopeKey
      <3>2. key = [tenant |-> key.tenant, scope_type |-> type, scope_id |-> id, direction |-> d,
                   address_family |-> key.address_family]
        BY <1>1, <2>2 DEF KeyShape
      <3> QED BY <3>1, <3>2
    <2> DEFINE AtId ==
            CASE type = "host" -> id = end
              [] type = "hostgroupTotal" -> id = owner.hostgroup
              [] type = "slash24" -> end.family = "ipv4" /\ id = mask(end, Slash24Bits)
              [] type = "prefix" -> id.family = end.family /\ \E p \in Seqs!ToSet(prefixes) :
                    /\ Covers(p, end) /\ p.bits = id.bits
                    /\ \A q \in Seqs!ToSet(prefixes) : Covers(q, end) => Len(q.bits) <= Len(p.bits)
    <2>4. Belongs(f, type, key) <=> key.tenant = tenant /\ key.address_family = end.family /\ AtId
      <3>1. key.scope_type = type
        BY DEF KeyShape
      <3> QED BY <1>1, <1>2, <1>3, <1>6, <2>2, <3>1 DEF Belongs
    <2>5. AtId <=> Scoped(type, s) /\ id = ScopeId(type, s)
      <3>1. CASE type = "host"
        BY <1>4, <3>1 DEF Scoped, ScopeId
      <3>2. CASE type = "hostgroupTotal"
        <4>1. id # Nobody
          BY <2>2, <3>2 DEF KeyShape
        <4> QED BY <2>1, <3>2, <4>1 DEF Scoped, ScopeId
      <3>3. CASE type = "slash24"
        BY <1>4, <3>3 DEF Scoped, ScopeId
      <3>4. CASE type = "prefix"
        <4>1. id = [family |-> id.family, bits |-> id.bits]
          BY <2>2, <3>4 DEF KeyShape
        <4>2. PICK m : m = matched_prefix_len(end)
          OBVIOUS
        <4>3. PICK L \in Nat : L = Len(prefixes) /\ Seqs!ToSet(prefixes) = {prefixes[i] : i \in 1 .. L}
          BY DEF ListOK, Seqs!ToSet
        <4>4. /\ m \in 0 .. MaxBits[end.family]
              /\ \E i \in 1 .. L : Covers(prefixes[i], end) /\ prefixes[i].bits = SubSeq(end.bits, 1, m)
              /\ \A i \in 1 .. L : Covers(prefixes[i], end) => Len(prefixes[i].bits) <= m
          BY <1>3, <1>6, <4>2, <4>3, MatchedIsLongest
        <4>5. Scoped(type, s) /\ ScopeId(type, s) = [family |-> end.family, bits |-> SubSeq(end.bits, 1, m)]
          BY <1>3, <1>4, <1>6, <3>4, <4>2, MaskShape DEF Scoped, ScopeId
        <4>6. Len(SubSeq(end.bits, 1, m)) = m /\ m \in Nat
          BY <4>4, AddressShape
        <4> DEFINE Longest == \E p \in Seqs!ToSet(prefixes) :
                    /\ Covers(p, end) /\ p.bits = id.bits
                    /\ \A q \in Seqs!ToSet(prefixes) : Covers(q, end) => Len(q.bits) <= Len(p.bits)
        <4>7. Longest => id.bits = SubSeq(end.bits, 1, m)
          <5>1. SUFFICES ASSUME Longest PROVE id.bits = SubSeq(end.bits, 1, m)
            OBVIOUS
          <5>2. PICK p \in Seqs!ToSet(prefixes) :
                    /\ Covers(p, end) /\ p.bits = id.bits
                    /\ \A q \in Seqs!ToSet(prefixes) : Covers(q, end) => Len(q.bits) <= Len(p.bits)
            BY <5>1
          <5>3. PICK i \in 1 .. L : Covers(prefixes[i], end) /\ prefixes[i].bits = SubSeq(end.bits, 1, m)
            BY <4>4
          <5>4. m <= Len(p.bits)
            BY <4>3, <4>6, <5>2, <5>3
          <5>5. Len(p.bits) \in Nat /\ Len(p.bits) <= m
            <6>1. PICK j \in 1 .. L : p = prefixes[j]
              BY <4>3, <5>2
            <6>2. ListEntry(p)
              BY <4>3, <6>1 DEF ListOK
            <6> QED BY <4>4, <5>2, <6>1, <6>2 DEF ListEntry
          <5>6. Len(p.bits) = m
            BY <4>6, <5>4, <5>5
          <5> QED BY <5>2, <5>6 DEF Covers
        <4>8. id.bits = SubSeq(end.bits, 1, m) => Longest
          <5>1. PICK i \in 1 .. L : Covers(prefixes[i], end) /\ prefixes[i].bits = SubSeq(end.bits, 1, m)
            BY <4>4
          <5>2. PICK p : p = prefixes[i] /\ p \in Seqs!ToSet(prefixes)
            BY <4>3
          <5>3. \A q \in Seqs!ToSet(prefixes) : Covers(q, end) => Len(q.bits) <= Len(p.bits)
            BY <4>3, <4>4, <4>6, <5>1, <5>2
          <5> QED BY <5>1, <5>2, <5>3
        <4>9. AtId <=> id.family = end.family /\ Longest
          BY <3>4
        <4> HIDE DEF Longest, AtId
        <4> QED BY <4>1, <4>5, <4>7, <4>8, <4>9
      <3> QED BY <3>1, <3>2, <3>3, <3>4 DEF ScopeType
    <2> HIDE DEF AtId
    <2> QED BY <1>1, <2>1, <2>3, <2>4, <2>5
  <1> QED BY <1>5, <1>6

\* A flow counts for the scope of its end in one direction.
LEMMA CountedShaped ==
    ASSUME NEW f \in SeenFlows, NEW class, NEW d \in {"incoming", "outgoing"}, NEW type \in ScopeType,
           NEW c, Shaped(type, c), NEW next \in count(type, c, f, class, d)
    PROVE  Shaped(type, next)
  <1>0. PICK s : s = side(f, class, d)
    OBVIOUS
  <1>1. CASE d \in sides(class) /\ Scoped(type, s)
    <2>1. PICK to : to = ScopeKey(type, ScopeId(type, s), s) /\ KeyShape(type, to)
      BY <1>0, <1>1, KeysShaped
    <2>2. next \in accumulate(type, c, to, f)
      BY <1>0, <1>1, <2>1 DEF count
    <2> QED BY <2>1, <2>2, AccumulateShaped
  <1>2. CASE ~ (d \in sides(class) /\ Scoped(type, s))
    <2>1. next = c
      BY <1>0, <1>2 DEF count
    <2> QED BY <2>1
  <1> QED BY <1>1, <1>2

\* Whether it does for this one.
Hits(f, class, d, type, key) ==
    LET s == side(f, class, d)
    IN  d \in sides(class) /\ Scoped(type, s) /\ key = ScopeKey(type, ScopeId(type, s), s)

LEMMA CountedHit ==
    ASSUME NEW f \in SeenFlows, NEW class, NEW d \in {"incoming", "outgoing"}, NEW type \in ScopeType,
           NEW c, Shaped(type, c), NEW next \in count(type, c, f, class, d),
           NEW key, NEW k \in MetricKind, NEW t, NEW seen, NEW any, Accounts(type, c, key, k, t, seen, any),
           Hits(f, class, d, type, key)
    PROVE  Accounts(type, next, key, k, t + Adds(f, k), seen \cup DataCompleteness(f), TRUE)
  <1>1. next \in accumulate(type, c, key, f)
    BY DEF count, Hits
  <1> QED BY <1>1, AccumulateAccounts

LEMMA CountedMiss ==
    ASSUME NEW f \in SeenFlows, NEW class, NEW d \in {"incoming", "outgoing"}, NEW type \in ScopeType,
           NEW c, Shaped(type, c), NEW next \in count(type, c, f, class, d),
           NEW key, NEW k \in MetricKind, NEW t, NEW seen, NEW any, Accounts(type, c, key, k, t, seen, any),
           ~Hits(f, class, d, type, key)
    PROVE  Accounts(type, next, key, k, t, seen, any)
  <1>0. PICK s : s = side(f, class, d)
    OBVIOUS
  <1>1. CASE d \in sides(class) /\ Scoped(type, s)
    <2>1. PICK to : to = ScopeKey(type, ScopeId(type, s), s)
      OBVIOUS
    <2>2. next \in accumulate(type, c, to, f) /\ key # to
      BY <1>0, <1>1, <2>1 DEF count, Hits
    <2> QED BY <2>2, AccumulateAccounts
  <1>2. CASE ~ (d \in sides(class) /\ Scoped(type, s))
    <2>1. next = c
      BY <1>0, <1>2 DEF count
    <2> QED BY <2>1
  <1> QED BY <1>1, <1>2

\* What a flow adds to the counters is what its scopes say.
LEMMA FlowAccounts ==
    ASSUME ListOK, build_registry(prefixes).ok, NEW f \in SeenFlows, NEW type \in ScopeType,
           NEW class, class = classify(registry, f.source, f.destination),
           NEW c, Shaped(type, c), NEW mid \in count(type, c, f, class, "incoming"),
           NEW next \in count(type, mid, f, class, "outgoing"),
           NEW key, KeyShape(type, key), NEW k \in MetricKind, NEW t, NEW seen, NEW any,
           Accounts(type, c, key, k, t, seen, any)
    PROVE  IF Belongs(f, type, key)
           THEN Accounts(type, next, key, k, t + Adds(f, k), seen \cup DataCompleteness(f), TRUE)
           ELSE Accounts(type, next, key, k, t, seen, any)
  <1>1. ASSUME NEW d \in {"incoming", "outgoing"}
        PROVE  /\ Hits(f, class, d, type, key) => key.direction = d
               /\ key.direction = d => (Belongs(f, type, key) <=> Hits(f, class, d, type, key))
    <2>1. PICK s : s = side(f, class, d)
      OBVIOUS
    <2>2. ASSUME Hits(f, class, d, type, key) PROVE key.direction = d
      BY <2>1, <2>2, KeysShaped DEF Hits
    <2>3. ASSUME key.direction = d PROVE Belongs(f, type, key) <=> Hits(f, class, d, type, key)
      <3>1. s = side(f, class, key.direction)
        BY <2>1, <2>3
      <3>2. Belongs(f, type, key) <=>
              key.direction \in sides(class) /\ Scoped(type, s) /\ key = ScopeKey(type, ScopeId(type, s), s)
        BY <3>1, ScopeOfFlow
      <3> QED BY <2>1, <2>3, <3>2 DEF Hits
    <2> QED BY <2>2, <2>3
  <1>2. Shaped(type, mid)
    BY CountedShaped
  <1> DEFINE HitIn == Hits(f, class, "incoming", type, key)
             HitOut == Hits(f, class, "outgoing", type, key)
  <1>3. IF HitIn THEN Accounts(type, mid, key, k, t + Adds(f, k), seen \cup DataCompleteness(f), TRUE)
        ELSE Accounts(type, mid, key, k, t, seen, any)
    BY CountedHit, CountedMiss
  <1>4. ASSUME NEW t1, NEW seen1, NEW any1, Accounts(type, mid, key, k, t1, seen1, any1)
        PROVE  IF HitOut THEN Accounts(type, next, key, k, t1 + Adds(f, k), seen1 \cup DataCompleteness(f), TRUE)
               ELSE Accounts(type, next, key, k, t1, seen1, any1)
    BY <1>2, <1>4, CountedHit, CountedMiss
  <1>5. key.direction = "incoming" => ~HitOut /\ (Belongs(f, type, key) <=> HitIn)
    BY <1>1
  <1>6. key.direction = "outgoing" => ~HitIn /\ (Belongs(f, type, key) <=> HitOut)
    BY <1>1
  <1>7. key.direction \in {"incoming", "outgoing"}
    BY DEF KeyShape
  <1> HIDE DEF HitIn, HitOut
  <1>8. PICK t1, seen1 : t1 = t + Adds(f, k) /\ seen1 = seen \cup DataCompleteness(f)
    OBVIOUS
  <1>9. CASE Belongs(f, type, key)
    <2>1. CASE key.direction = "incoming"
      <3>1. Accounts(type, mid, key, k, t1, seen1, TRUE)
        BY <1>3, <1>5, <1>8, <1>9, <2>1
      <3>2. Accounts(type, next, key, k, t1, seen1, TRUE)
        BY <1>4, <1>5, <2>1, <3>1
      <3> QED BY <1>8, <1>9, <3>2
    <2>2. CASE key.direction = "outgoing"
      <3>1. Accounts(type, mid, key, k, t, seen, any)
        BY <1>3, <1>6, <2>2
      <3>2. Accounts(type, next, key, k, t1, seen1, TRUE)
        BY <1>4, <1>6, <1>8, <1>9, <2>2, <3>1
      <3> QED BY <1>8, <1>9, <3>2
    <2> QED BY <1>7, <2>1, <2>2
  <1>10. CASE ~Belongs(f, type, key)
    <2>1. ~HitIn /\ ~HitOut
      BY <1>5, <1>6, <1>7, <1>10
    <2>2. Accounts(type, mid, key, k, t, seen, any)
      BY <1>3, <2>1
    <2> QED BY <1>4, <1>10, <2>1, <2>2
  <1> QED BY <1>9, <1>10

\* With a list that is refused a flow counts for nothing.
LEMMA RefusedCountsNothing ==
    ASSUME ListOK, ~build_registry(prefixes).ok, NEW f \in SeenFlows, NEW type,
           NEW class, class = classify(registry, f.source, f.destination), NEW c,
           NEW mid \in count(type, c, f, class, "incoming"), NEW next \in count(type, mid, f, class, "outgoing")
    PROVE  next = c
  <1>1. \A d \in {"incoming", "outgoing"} : d \notin sides(class)
    <2>1. SUFFICES ASSUME NEW d \in {"incoming", "outgoing"} PROVE d \notin sides(class)
      OBVIOUS
    <2>2. PICK a \in Address : a = End(f, d)
      BY LocalEnds
    <2>3. lookup(registry, a) = Nobody
      BY DEF ListOK, OwnedByLongestMatch
    <2> QED BY <2>2, <2>3, LocalEnds
  <1> QED BY <1>1 DEF count

\* What belongs to a scope does not change while the list does not.
LEMMA BelongsStays ==
    ASSUME prefixes' = prefixes, NEW CONSTANT flows
    PROVE  \A type, key, k :
              /\ \A i : Belongs(flows[i], type, key)' = Belongs(flows[i], type, key)
              /\ Amount(flows, type, key, k)' = Amount(flows, type, key, k)
              /\ HowMany(flows, type, key)' = HowMany(flows, type, key)
              /\ Carried(flows, type, key)' = Carried(flows, type, key)
  BY DEF Belongs, Owner, Amount, HowMany, Carried

\* One more flow.
LEMMA AmountGrows ==
    ASSUME NEW flows \in Seq(SeenFlows), NEW f \in SeenFlows, NEW type, NEW key, NEW k
    PROVE  Amount(Append(flows, f), type, key, k) =
              Amount(flows, type, key, k) + IF Belongs(f, type, key) THEN Adds(f, k) ELSE 0
  <1>1. PICK L \in Nat : L = Len(flows) /\ DOMAIN flows = 1 .. L
    OBVIOUS
  <1>2. PICK more : more = Append(flows, f)
    OBVIOUS
  <1>3. Len(more) = L + 1 /\ DOMAIN more = 1 .. L + 1 /\ more[L + 1] = f /\ \A i \in 1 .. L : more[i] = flows[i]
    BY <1>1, <1>2
  <1>4. PICK w : w = [i \in DOMAIN flows |-> IF Belongs(flows[i], type, key) THEN Adds(flows[i], k) ELSE 0]
    OBVIOUS
  <1>5. PICK v : v = [i \in DOMAIN more |-> IF Belongs(more[i], type, key) THEN Adds(more[i], k) ELSE 0]
    OBVIOUS
  <1>6. \A i \in 1 .. L : v[i] = w[i]
    BY <1>1, <1>3, <1>4, <1>5
  <1>7. v[L + 1] = IF Belongs(f, type, key) THEN Adds(f, k) ELSE 0
    BY <1>3, <1>5
  <1>8. Total(v, L + 1) = Total(w, L) + v[L + 1]
    BY <1>6, TotalGrows
  <1>9. Amount(flows, type, key, k) = Total(w, L)
    BY <1>1, <1>4 DEF Amount
  <1>10. Amount(more, type, key, k) = Total(v, L + 1)
    BY <1>3, <1>5 DEF Amount
  <1> QED BY <1>2, <1>7, <1>8, <1>9, <1>10

LEMMA CarriedGrows ==
    ASSUME NEW flows \in Seq(SeenFlows), NEW f \in SeenFlows, NEW type, NEW key
    PROVE  Carried(Append(flows, f), type, key) =
              Carried(flows, type, key) \cup IF Belongs(f, type, key) THEN DataCompleteness(f) ELSE {}
  <1>1. PICK L \in Nat : L = Len(flows) /\ DOMAIN flows = 1 .. L
    OBVIOUS
  <1>2. PICK more : more = Append(flows, f)
    OBVIOUS
  <1>3. DOMAIN more = 1 .. L + 1 /\ more[L + 1] = f /\ \A i \in 1 .. L : more[i] = flows[i]
    BY <1>1, <1>2
  <1>4. \A x : x \in Carried(flows, type, key) <=>
            \E i \in 1 .. L : Belongs(flows[i], type, key) /\ x \in DataCompleteness(flows[i])
    BY <1>1 DEF Carried
  <1>5. \A x : x \in Carried(more, type, key) <=>
            \E i \in 1 .. L + 1 : Belongs(more[i], type, key) /\ x \in DataCompleteness(more[i])
    BY <1>3 DEF Carried
  <1>6. \A i : i \in 1 .. L + 1 <=> i \in 1 .. L \/ i = L + 1
    OBVIOUS
  <1>7. \A x : x \in Carried(more, type, key) <=>
            x \in Carried(flows, type, key) \/ (Belongs(f, type, key) /\ x \in DataCompleteness(f))
    BY <1>3, <1>4, <1>5, <1>6
  <1> QED BY <1>2, <1>7

LEMMA HowManyIsAmount ==
    ASSUME NEW flows \in Seq(SeenFlows), NEW type, NEW key
    PROVE  HowMany(flows, type, key) = Amount(flows, type, key, "flows")
  <1>1. \A i \in DOMAIN flows : flows[i] \in SeenFlows
    OBVIOUS
  <1>2. \A i \in DOMAIN flows : Adds(flows[i], "flows") = 1
    BY DEF Adds
  <1>3. [i \in DOMAIN flows |-> IF Belongs(flows[i], type, key) THEN 1 ELSE 0]
         = [i \in DOMAIN flows |-> IF Belongs(flows[i], type, key) THEN Adds(flows[i], "flows") ELSE 0]
    BY <1>2
  <1> QED BY <1>3 DEF HowMany, Amount

\* The counters of a scope type are those of the flows of the window.
Seen(flows, type, key) == \E i \in DOMAIN flows : Belongs(flows[i], type, key)

Told(type, c, flows) ==
    \A key, k : KeyShape(type, key) /\ k \in MetricKind =>
        Accounts(type, c, key, k, Amount(flows, type, key, k), Carried(flows, type, key), Seen(flows, type, key))

CountersOK(type, c, flows) ==
    /\ Shaped(type, c)
    /\ IF build_registry(prefixes).ok THEN Told(type, c, flows) ELSE DOMAIN c.map = {}

LEMMA CountersStay ==
    ASSUME prefixes' = prefixes, NEW CONSTANT flows, NEW CONSTANT type, NEW CONSTANT c, CountersOK(type, c, flows)
    PROVE  CountersOK(type, c, flows)'
  <1>1. ASSUME NEW key, NEW k
        PROVE  Accounts(type, c, key, k, Amount(flows, type, key, k), Carried(flows, type, key), Seen(flows, type, key))'
               = Accounts(type, c, key, k, Amount(flows, type, key, k), Carried(flows, type, key), Seen(flows, type, key))
    BY BelongsStays DEF Accounts, Seen, Whole
  <1>2. Told(type, c, flows)' <=> Told(type, c, flows)
    BY <1>1 DEF Told, KeyShape
  <1> QED BY <1>2 DEF CountersOK, Shaped, KeyShape

\* Counting a flow.
LEMMA IngestTold ==
    ASSUME ListOK, NEW f \in SeenFlows, NEW type \in ScopeType,
           NEW class, class = classify(registry, f.source, f.destination),
           NEW c, NEW flows \in Seq(SeenFlows), CountersOK(type, c, flows),
           NEW mid \in count(type, c, f, class, "incoming"), NEW next \in count(type, mid, f, class, "outgoing")
    PROVE  CountersOK(type, next, Append(flows, f))
  <1>1. Shaped(type, c)
    BY DEF CountersOK
  <1>2. Shaped(type, mid)
    BY <1>1, CountedShaped
  <1>3. Shaped(type, next)
    BY <1>2, CountedShaped
  <1>4. CASE ~build_registry(prefixes).ok
    <2>1. next = c
      BY <1>4, RefusedCountsNothing
    <2> QED BY <1>4, <2>1 DEF CountersOK
  <1>5. CASE build_registry(prefixes).ok
    <2>1. ASSUME NEW key, NEW k \in MetricKind, KeyShape(type, key)
          PROVE  Accounts(type, next, key, k, Amount(Append(flows, f), type, key, k),
                          Carried(Append(flows, f), type, key), Seen(Append(flows, f), type, key))
      <3>1. PICK t, seen, any : /\ t = Amount(flows, type, key, k) /\ seen = Carried(flows, type, key)
                                /\ any = Seen(flows, type, key)
        OBVIOUS
      <3>2. Accounts(type, c, key, k, t, seen, any)
        BY <1>5, <2>1, <3>1 DEF CountersOK, Told
      <3>3. IF Belongs(f, type, key)
            THEN Accounts(type, next, key, k, t + Adds(f, k), seen \cup DataCompleteness(f), TRUE)
            ELSE Accounts(type, next, key, k, t, seen, any)
        BY <1>1, <1>5, <2>1, <3>2, FlowAccounts
      <3>4. PICK t1, seen1, any1 : /\ t1 = Amount(Append(flows, f), type, key, k)
                                   /\ seen1 = Carried(Append(flows, f), type, key)
                                   /\ any1 = Seen(Append(flows, f), type, key)
        OBVIOUS
      <3>5. t1 = t + IF Belongs(f, type, key) THEN Adds(f, k) ELSE 0
        BY <3>1, <3>4, AmountGrows
      <3>6. seen1 = seen \cup IF Belongs(f, type, key) THEN DataCompleteness(f) ELSE {}
        BY <3>1, <3>4, CarriedGrows
      <3>7. any1 = (any \/ Belongs(f, type, key))
        <4>1. PICK L \in Nat : L = Len(flows) /\ DOMAIN flows = 1 .. L
          OBVIOUS
        <4>2. PICK more : more = Append(flows, f)
          OBVIOUS
        <4>3. DOMAIN more = 1 .. L + 1 /\ more[L + 1] = f /\ \A i \in 1 .. L : more[i] = flows[i]
          BY <4>1, <4>2
        <4>4. \A i : i \in 1 .. L + 1 <=> i \in 1 .. L \/ i = L + 1
          OBVIOUS
        <4>5. Seen(more, type, key) <=> Seen(flows, type, key) \/ Belongs(f, type, key)
          BY <4>1, <4>3, <4>4 DEF Seen
        <4>6. Seen(more, type, key) \in BOOLEAN
          BY DEF Seen
        <4> QED BY <3>1, <3>4, <4>2, <4>5, <4>6
      <3>8. CASE Belongs(f, type, key)
        <4>1. t1 = t + Adds(f, k) /\ seen1 = seen \cup DataCompleteness(f) /\ any1
          BY <3>5, <3>6, <3>7, <3>8
        <4>2. Accounts(type, next, key, k, t1, seen1, TRUE)
          BY <3>3, <3>8, <4>1
        <4>3. Accounts(type, next, key, k, t1, seen1, any1)
          BY <4>1, <4>2 DEF Accounts
        <4> QED BY <3>4, <4>3
      <3>9. CASE ~Belongs(f, type, key)
        <4>1. t \in Nat
          BY <3>2 DEF Accounts
        <4>2. t1 = t /\ seen1 = seen
          BY <3>5, <3>6, <3>9, <4>1
        <4>3. Accounts(type, next, key, k, t1, seen1, any)
          BY <3>3, <3>9, <4>2
        <4>4. Accounts(type, next, key, k, t1, seen1, any1)
          BY <3>7, <3>9, <4>3 DEF Accounts
        <4> QED BY <3>4, <4>4
      <3> QED BY <3>8, <3>9
    <2>2. PICK more : more = Append(flows, f)
      OBVIOUS
    <2>3. Told(type, next, more)
      BY <2>1, <2>2 DEF Told
    <2> QED BY <1>3, <1>5, <2>2, <2>3 DEF CountersOK
  <1> QED BY <1>4, <1>5

LEMMA NewCounters ==
    ASSUME NEW type \in ScopeType
    PROVE  CountersOK(type, DetectionWindows_new[type], << >>)
  <1>1. PICK c, none : c = DetectionWindows_new[type] /\ none = << >>
    OBVIOUS
  <1>2. c.map = none /\ c.evicted = 0 /\ DOMAIN none = {} /\ Len(none) = 0
    BY <1>1 DEF DetectionWindows_new
  <1>3. Shaped(type, c)
    <2>1. MaxScopes[type] \in Nat /\ IsFiniteSet({}) /\ Cardinality({}) = 0
      BY Limits, FS_EmptySet
    <2> QED BY <1>2, <2>1 DEF Shaped
  <1>4. ASSUME NEW key, NEW k
        PROVE  Accounts(type, c, key, k, Amount(none, type, key, k), Carried(none, type, key), Seen(none, type, key))
    <2>1. Amount(none, type, key, k) = 0
      BY <1>2, TotalOfNone DEF Amount
    <2>2. Carried(none, type, key) = {}
      BY <1>2 DEF Carried
    <2>3. ~Seen(none, type, key)
      BY <1>2 DEF Seen
    <2> QED BY <1>2, <2>1, <2>2, <2>3 DEF Accounts
  <1>5. Told(type, c, none)
    BY <1>4 DEF Told
  <1> QED BY <1>1, <1>2, <1>3, <1>5 DEF CountersOK

\* A rate, of a counter that is right or short.
LEMMA RateBounds ==
    ASSUME NEW x \in Nat, NEW t \in Nat, x <= t, NEW u \in {1, 8}, NEW e \in Nat \ {0}
    PROVE  /\ ((x * u) \div e) * e <= t * u
           /\ x = t => ((x * u) \div e + 1) * e > t * u
  <1>1. PICK n \in Nat : n = x * u
    OBVIOUS
  <1>2. PICK m \in Nat : m = t * u
    OBVIOUS
  <1>3. n <= m /\ (x = t => n = m)
    BY <1>1, <1>2
  <1>4. PICK q \in Nat : q = n \div e
    OBVIOUS
  <1>5. q * e <= n /\ n < (q + 1) * e
    BY <1>4
  <1>6. q * e <= m
    <2>1. PICK p \in Nat : p = q * e
      OBVIOUS
    <2> QED BY <1>3, <1>5, <2>1
  <1>7. x = t => (q + 1) * e > m
    <2>1. PICK p \in Nat : p = (q + 1) * e
      OBVIOUS
    <2> QED BY <1>3, <1>5, <2>1
  <1> QED BY <1>1, <1>2, <1>4, <1>6, <1>7

\* What SnapshotsAreTheWindow says of one scope type.
TypeTold(type, flows, elapsed, evicted, snapshots) ==
    LET total(key, k) == Amount(flows, type, key, k) * MetricUnit(k)
        whole == evicted = 0 /\ MaxScopes[type] > 0
        accepted == build_registry(prefixes).ok
    IN  /\ ~accepted => snapshots = {}
        /\ \A s \in snapshots :
              /\ \A k \in MetricKind : s.rates[k] * elapsed <= total(s.key, k)
              /\ s.completeness \subseteq Carried(flows, type, s.key)
              /\ whole => /\ s.completeness = Carried(flows, type, s.key)
                          /\ s.flows_observed = HowMany(flows, type, s.key)
                          /\ elapsed > 0 => \A k \in MetricKind : (s.rates[k] + 1) * elapsed > total(s.key, k)
        /\ whole /\ accepted => \A i \in DOMAIN flows : \A direction \in {"incoming", "outgoing"} :
              LET end == End(flows[i], direction)
              IN  type = "host" /\ Owner(end) # Nobody =>
                    \E s \in snapshots : s.key.scope_id = end /\ s.key.direction = direction

LEMMA SnapshotTold ==
    ASSUME NEW type \in ScopeType, NEW c, NEW flows \in Seq(SeenFlows), CountersOK(type, c, flows),
           build_registry(prefixes).ok, NEW e \in Nat, NEW key \in DOMAIN c.map,
           NEW s, s = snapshot(key, c.map[key].value, e)
    PROVE  /\ s.key = key
           /\ \A k \in MetricKind : s.rates[k] * e <= Amount(flows, type, key, k) * MetricUnit(k)
           /\ s.completeness \subseteq Carried(flows, type, key)
           /\ Whole(type, c) =>
                /\ s.completeness = Carried(flows, type, key)
                /\ s.flows_observed = HowMany(flows, type, key)
                /\ e > 0 => \A k \in MetricKind : (s.rates[k] + 1) * e > Amount(flows, type, key, k) * MetricUnit(k)
  <1>1. KeyShape(type, key)
    BY DEF CountersOK, Shaped
  <1>2. PICK acc : acc = c.map[key].value
    OBVIOUS
  <1>3. PICK carried : carried = Carried(flows, type, key)
    OBVIOUS
  <1>4. ASSUME NEW k \in MetricKind
        PROVE  /\ Amount(flows, type, key, k) \in Nat
               /\ acc.counters[k] \in Nat /\ acc.counters[k] <= Amount(flows, type, key, k)
               /\ acc.completeness \subseteq carried
               /\ Whole(type, c) => acc.counters[k] = Amount(flows, type, key, k) /\ acc.completeness = carried
    <2>1. Accounts(type, c, key, k, Amount(flows, type, key, k), carried, Seen(flows, type, key))
      BY <1>1, <1>3 DEF CountersOK, Told
    <2> QED BY <1>2, <2>1 DEF Accounts
  <1>5. "flows" \in MetricKind
    BY DEF MetricKind
  <1>6. /\ s.key = key /\ s.completeness = acc.completeness /\ s.flows_observed = acc.counters["flows"]
        /\ s.rates = [k \in MetricKind |-> per_second(acc.counters[k] * MetricUnit(k), e)]
    BY <1>2 DEF snapshot
  <1>7. ASSUME NEW k \in MetricKind
        PROVE  /\ s.rates[k] * e <= Amount(flows, type, key, k) * MetricUnit(k)
               /\ Whole(type, c) /\ e > 0 => (s.rates[k] + 1) * e > Amount(flows, type, key, k) * MetricUnit(k)
    <2>1. PICK x, t \in Nat : x = acc.counters[k] /\ t = Amount(flows, type, key, k)
      BY <1>4
    <2>2. x <= t /\ (Whole(type, c) => x = t)
      BY <1>4, <2>1
    <2>3. PICK u \in {1, 8} : u = MetricUnit(k)
      BY DEF MetricUnit
    <2>4. CASE e > 0
      <3>1. PICK r : r = (x * u) \div e /\ s.rates[k] = r
        BY <1>6, <2>1, <2>3, <2>4 DEF per_second
      <3>2. r * e <= t * u /\ (x = t => (r + 1) * e > t * u)
        <4>1. e \in Nat \ {0}
          BY <2>4
        <4>2. /\ ((x * u) \div e) * e <= t * u
              /\ x = t => ((x * u) \div e + 1) * e > t * u
          BY <2>2, <4>1, RateBounds
        <4> QED BY <3>1, <4>2
      <3> QED BY <2>1, <2>2, <2>3, <3>1, <3>2
    <2>5. CASE e = 0
      <3>1. s.rates[k] = 0
        BY <1>6, <2>5 DEF per_second
      <3>2. PICK m \in Nat : m = t * u
        OBVIOUS
      <3> QED BY <2>1, <2>3, <2>5, <3>1, <3>2
    <2> QED BY <2>4, <2>5
  <1>8. s.completeness \subseteq carried /\ (Whole(type, c) => s.completeness = carried)
    BY <1>4, <1>5, <1>6
  <1>9. Whole(type, c) => s.flows_observed = HowMany(flows, type, key)
    BY <1>4, <1>5, <1>6, HowManyIsAmount
  <1> QED BY <1>3, <1>6, <1>7, <1>8, <1>9

\* The scope of a local host is there.
LEMMA HostTold ==
    ASSUME NEW c, NEW flows \in Seq(SeenFlows), CountersOK("host", c, flows), Whole("host", c),
           build_registry(prefixes).ok, NEW i \in DOMAIN flows, NEW d \in {"incoming", "outgoing"},
           Owner(End(flows[i], d)) # Nobody
    PROVE  \E key \in DOMAIN c.map : key.scope_id = End(flows[i], d) /\ key.direction = d
  <1>1. PICK end, owner : end = End(flows[i], d) /\ owner = Owner(end)
    OBVIOUS
  <1>2. PICK key : key = [tenant |-> IF owner.tenant = Nobody THEN "unattributed" ELSE owner.tenant,
                          scope_type |-> "host", scope_id |-> end, direction |-> d, address_family |-> end.family]
    OBVIOUS
  <1>3. KeyShape("host", key) /\ key.scope_id = end /\ key.direction = d
    BY <1>2 DEF KeyShape
  <1>4. Belongs(flows[i], "host", key)
    BY <1>1, <1>2 DEF Belongs
  <1>5. Seen(flows, "host", key)
    BY <1>4 DEF Seen
  <1>6. "flows" \in MetricKind
    BY DEF MetricKind
  <1>7. PICK t, seen, any : /\ Accounts("host", c, key, "flows", t, seen, any)
                            /\ any = Seen(flows, "host", key)
    BY <1>3, <1>6 DEF CountersOK, Told
  <1>8. key \in DOMAIN c.map
    BY <1>5, <1>7 DEF Accounts
  <1> QED BY <1>1, <1>3, <1>8

LEMMA WindowTold ==
    ASSUME NEW type \in ScopeType, NEW c, NEW flows \in Seq(SeenFlows), CountersOK(type, c, flows),
           NEW e \in Nat, NEW snaps, snaps = {snapshot(key, c.map[key].value, e) : key \in DOMAIN c.map}
    PROVE  TypeTold(type, flows, e, c.evicted, snaps)
  <1>1. CASE ~build_registry(prefixes).ok
    <2>1. snaps = {}
      BY <1>1 DEF CountersOK
    <2> QED BY <1>1, <2>1 DEF TypeTold
  <1>2. CASE build_registry(prefixes).ok
    <2>1. ASSUME NEW s \in snaps
          PROVE  /\ \A k \in MetricKind : s.rates[k] * e <= Amount(flows, type, s.key, k) * MetricUnit(k)
                 /\ s.completeness \subseteq Carried(flows, type, s.key)
                 /\ Whole(type, c) =>
                      /\ s.completeness = Carried(flows, type, s.key)
                      /\ s.flows_observed = HowMany(flows, type, s.key)
                      /\ e > 0 => \A k \in MetricKind : (s.rates[k] + 1) * e > Amount(flows, type, s.key, k) * MetricUnit(k)
      <3>1. PICK key \in DOMAIN c.map : s = snapshot(key, c.map[key].value, e)
        OBVIOUS
      <3>2. s.key = key
        BY <3>1 DEF snapshot
      <3> QED BY <1>2, <3>1, <3>2, SnapshotTold
    <2>2. ASSUME Whole(type, c), NEW i \in DOMAIN flows, NEW d \in {"incoming", "outgoing"}, type = "host",
                 Owner(End(flows[i], d)) # Nobody
          PROVE  \E s \in snaps : s.key.scope_id = End(flows[i], d) /\ s.key.direction = d
      <3>1. PICK key \in DOMAIN c.map : key.scope_id = End(flows[i], d) /\ key.direction = d
        BY <1>2, <2>2, HostTold
      <3>2. PICK s : s = snapshot(key, c.map[key].value, e) /\ s \in snaps
        OBVIOUS
      <3>3. s.key = key
        BY <3>2 DEF snapshot
      <3> QED BY <3>1, <3>2, <3>3
    <2> QED BY <1>2, <2>1, <2>2 DEF TypeTold, Whole
  <1> QED BY <1>1, <1>2

\* The window in progress.
WindowOpen ==
    /\ ListOK
    /\ now \in Nat /\ window_start \in Nat /\ window_start <= now
    /\ inside \in Seq(SeenFlows)
    /\ \A type \in ScopeType : CountersOK(type, scopes[type], inside)

LEMMA ListHolds == TrafficSpec => []ListOK
  <1>1. TrafficInit /\ OwnedByLongestMatch => ListOK
    <2> SUFFICES ASSUME TrafficInit, OwnedByLongestMatch PROVE ListOK
      OBVIOUS
    <2>1. PICK L \in Nat : L = Len(prefixes) /\ DOMAIN prefixes = 1 .. L
      BY ListsAssumption DEF TrafficInit
    <2>2. \A i \in 1 .. L : ListEntry(prefixes[i])
      BY <2>1, ListsAssumption DEF TrafficInit, ListEntry, EntryOf
    <2>3. PICK built : built = build_registry(prefixes) /\ Entered(built, prefixes, L)
      BY <2>1, <2>2, RegistryEntered
    <2>4. ASSUME built.ok PROVE Entered([ok |-> TRUE, reg |-> registry], prefixes, L)
      <3>1. PICK same : same = [ok |-> TRUE, reg |-> registry]
        OBVIOUS
      <3>2. same.ok /\ same.reg = built.reg
        BY <2>3, <2>4, <3>1 DEF TrafficInit
      <3>3. Entered(same, prefixes, L)
        BY <2>3, <2>4, <3>2, Zenon DEF Entered
      <3> QED BY <3>1, <3>3
    <2> QED BY <2>1, <2>2, <2>3, <2>4 DEF ListOK
  <1>2. ListOK /\ OwnedByLongestMatch' /\ [TrafficNext]_tvars => ListOK'
    <2> SUFFICES ASSUME ListOK, OwnedByLongestMatch', [TrafficNext]_tvars PROVE ListOK'
      OBVIOUS
    <2>1. prefixes' = prefixes /\ registry' = registry
      BY DEF TrafficNext, tvars, ingest, expire_inactive, Elapse
    <2> QED BY <2>1 DEF ListOK, ListEntry, Entered, EntryOf, Marked
  <1> QED BY <1>1, <1>2, OwnerIsLongestMatch, PTL DEF TrafficSpec

\* The detector leaves the classifier and the aggregator alone.
LEMMA TrafficGoesOn == WindowsSpec => TrafficSpec
  <1>1. WindowsInit => TrafficInit
    BY DEF WindowsInit
  <1>2. [WindowsNext]_<<tvars, wvars>> => [TrafficNext]_tvars
    BY DEF WindowsNext, TrafficNext, tick
  <1> QED BY <1>1, <1>2, PTL DEF WindowsSpec, TrafficSpec

LEMMA OpenStays ==
    ASSUME WindowOpen, ListOK', prefixes' = prefixes, UNCHANGED <<scopes, window_start, inside>>,
           now' \in Nat, now <= now'
    PROVE  WindowOpen'
  <1>1. ASSUME NEW type \in ScopeType PROVE CountersOK(type, scopes[type], inside)'
    <2>1. PICK c, flows : c = scopes[type] /\ flows = inside /\ CountersOK(type, c, flows)
      BY DEF WindowOpen
    <2>2. CountersOK(type, c, flows)'
      BY <2>1, CountersStay
    <2>3. c = scopes[type]' /\ flows = inside'
      BY <2>1
    <2> QED BY <2>2, <2>3
  <1>2. now' \in Nat /\ window_start' \in Nat /\ window_start' <= now' /\ inside' \in Seq(SeenFlows)
    BY DEF WindowOpen
  <1> QED BY <1>1, <1>2 DEF WindowOpen

LEMMA TypeStays ==
    ASSUME prefixes' = prefixes, NEW CONSTANT type, NEW CONSTANT flows, NEW CONSTANT elapsed,
           NEW CONSTANT evicted, NEW CONSTANT snapshots, TypeTold(type, flows, elapsed, evicted, snapshots)
    PROVE  TypeTold(type, flows, elapsed, evicted, snapshots)'
  <1>1. \A key, k : /\ Amount(flows, type, key, k)' = Amount(flows, type, key, k)
                    /\ HowMany(flows, type, key)' = HowMany(flows, type, key)
                    /\ Carried(flows, type, key)' = Carried(flows, type, key)
    BY BelongsStays
  <1>2. \A end : Owner(end)' = Owner(end)
    BY DEF Owner
  <1> QED BY <1>1, <1>2 DEF TypeTold

LEMMA ClosedStays ==
    ASSUME SnapshotsAreTheWindow, prefixes' = prefixes, closed' = closed
    PROVE  SnapshotsAreTheWindow'
  <1>1. SUFFICES ASSUME closed # Nobody, NEW type \in ScopeType
                 PROVE  TypeTold(type, closed.flows, closed.elapsed, closed.evicted[type], closed.snapshots[type])'
    BY DEF SnapshotsAreTheWindow, TypeTold
  <1>2. PICK flows, elapsed, evicted, snapshots :
            /\ flows = closed.flows /\ elapsed = closed.elapsed
            /\ evicted = closed.evicted[type] /\ snapshots = closed.snapshots[type]
    OBVIOUS
  <1>3. TypeTold(type, flows, elapsed, evicted, snapshots)
    BY <1>1, <1>2 DEF SnapshotsAreTheWindow, TypeTold
  <1>4. TypeTold(type, flows, elapsed, evicted, snapshots)'
    BY <1>3, TypeStays
  <1> QED BY <1>2, <1>4

LEMMA IngestOpen ==
    ASSUME WindowOpen, ListOK', NEW f \in SeenFlows, ingest(f.source, f.destination), stage_ingest(f)
    PROVE  WindowOpen'
  <1>1. prefixes' = prefixes /\ now' = now /\ window_start' = window_start /\ inside' = Append(inside, f)
    BY DEF ingest, stage_ingest
  <1>2. PICK class : class = classify(registry, f.source, f.destination)
    OBVIOUS
  <1>3. ASSUME NEW type \in ScopeType
        PROVE  \E mid \in count(type, scopes[type], f, class, "incoming") :
                  scopes'[type] \in count(type, mid, f, class, "outgoing")
    BY <1>2 DEF stage_ingest, ScopeType
  <1>4. ASSUME NEW type \in ScopeType PROVE CountersOK(type, scopes[type], inside)'
    <2>1. PICK c, flows : c = scopes[type] /\ flows = inside
      OBVIOUS
    <2>2. flows \in Seq(SeenFlows) /\ CountersOK(type, c, flows) /\ ListOK
      BY <2>1 DEF WindowOpen
    <2>3. PICK next, more : next = scopes'[type] /\ more = Append(flows, f)
      OBVIOUS
    <2>4. PICK mid \in count(type, c, f, class, "incoming") : next \in count(type, mid, f, class, "outgoing")
      BY <1>3, <2>1, <2>3
    <2>5. CountersOK(type, next, more)
      BY <1>2, <2>2, <2>3, <2>4, IngestTold
    <2>6. CountersOK(type, next, more)'
      BY <1>1, <2>5, CountersStay
    <2>7. next = scopes[type]' /\ more = inside'
      BY <1>1, <2>1, <2>3
    <2> QED BY <2>6, <2>7
  <1>5. inside' \in Seq(SeenFlows)
    BY <1>1 DEF WindowOpen
  <1> QED BY <1>1, <1>4, <1>5 DEF WindowOpen

LEMMA TickOpen ==
    ASSUME WindowOpen, ListOK', tick
    PROVE  WindowOpen' /\ SnapshotsAreTheWindow'
  <1>1. UNCHANGED tvars /\ prefixes' = prefixes /\ now' = now
    BY DEF tick, tvars
  <1>2. window_start' = now /\ inside' = << >> /\ scopes' = DetectionWindows_new
    BY DEF tick
  <1>3. ASSUME NEW type \in ScopeType PROVE CountersOK(type, scopes[type], inside)'
    <2>1. PICK c, none : c = DetectionWindows_new[type] /\ none = << >> /\ CountersOK(type, c, none)
      BY NewCounters
    <2>2. CountersOK(type, c, none)'
      BY <1>1, <2>1, CountersStay
    <2>3. c = scopes[type]' /\ none = inside'
      BY <1>2, <2>1
    <2> QED BY <2>2, <2>3
  <1>4. WindowOpen'
    BY <1>1, <1>2, <1>3 DEF WindowOpen
  <1>5. PICK e \in Nat : e = now - window_start
    BY DEF WindowOpen
  <1>6. PICK flows \in Seq(SeenFlows) : flows = inside
    BY DEF WindowOpen
  <1>7. ASSUME NEW type \in ScopeType
        PROVE  TypeTold(type, closed.flows, closed.elapsed, closed.evicted[type], closed.snapshots[type])'
    <2>1. PICK c : c = scopes[type]
      OBVIOUS
    <2>2. PICK snaps : snaps = {snapshot(key, c.map[key].value, e) : key \in DOMAIN c.map}
      OBVIOUS
    <2>3. CountersOK(type, c, flows)
      BY <1>6, <2>1 DEF WindowOpen
    <2>4. CountersOK(type, c, flows)'
      BY <1>1, <2>3, CountersStay
    <2>5. TypeTold(type, flows, e, c.evicted, snaps)
      BY <2>2, <2>3, WindowTold
    <2>6. TypeTold(type, flows, e, c.evicted, snaps)'
      BY <1>1, <2>5, TypeStays
    <2>7. /\ flows = closed.flows' /\ e = closed.elapsed'
          /\ c.evicted = closed.evicted[type]' /\ snaps = closed.snapshots[type]'
      BY <1>5, <1>6, <2>1, <2>2 DEF tick
    <2> QED BY <2>6, <2>7
  <1>8. SnapshotsAreTheWindow'
    BY <1>7 DEF SnapshotsAreTheWindow, TypeTold
  <1> QED BY <1>4, <1>8

\* Every rate is that of its window, for lists, addresses, flows and windows
\* of any size: what the aggregator shows is the last whole window (rate_window.rs,
\* roll_if_elapsed), and a snapshot of the detector is the traffic of its
\* scope in the window just closed, short only where an eviction was
\* counted (window.rs, ingest and tick).
THEOREM RatesAreOfTheirWindowHolds == WindowsSpec => []RatesAreOfTheirWindow
  <1>1. WindowsInit /\ ListOK => WindowOpen /\ SnapshotsAreTheWindow
    <2> SUFFICES ASSUME WindowsInit, ListOK PROVE WindowOpen /\ SnapshotsAreTheWindow
      OBVIOUS
    <2>1. now = 0 /\ window_start = 0 /\ inside = << >> /\ scopes = DetectionWindows_new /\ closed = Nobody
      BY DEF WindowsInit, TrafficInit
    <2>2. \A type \in ScopeType : CountersOK(type, scopes[type], inside)
      BY <2>1, NewCounters
    <2> QED BY <2>1, <2>2 DEF WindowOpen, SnapshotsAreTheWindow
  <1>2. WindowOpen /\ SnapshotsAreTheWindow /\ ListOK' /\ [WindowsNext]_<<tvars, wvars>>
        => (WindowOpen /\ SnapshotsAreTheWindow)'
    <2> SUFFICES ASSUME WindowOpen, SnapshotsAreTheWindow, ListOK', [WindowsNext]_<<tvars, wvars>>
                 PROVE  WindowOpen' /\ SnapshotsAreTheWindow'
      OBVIOUS
    <2>0. now \in Nat
      BY DEF WindowOpen
    <2>1. ASSUME NEW f \in SeenFlows, ingest(f.source, f.destination), stage_ingest(f)
          PROVE  WindowOpen' /\ SnapshotsAreTheWindow'
      <3>1. prefixes' = prefixes /\ closed' = closed
        BY <2>1 DEF ingest, stage_ingest
      <3> QED BY <2>1, <3>1, IngestOpen, ClosedStays
    <2>2. ASSUME expire_inactive \/ Elapse, UNCHANGED wvars
          PROVE  WindowOpen' /\ SnapshotsAreTheWindow'
      <3>1. prefixes' = prefixes /\ now' \in Nat /\ now <= now'
        BY <2>0, <2>2 DEF expire_inactive, Elapse
      <3>2. UNCHANGED <<scopes, window_start, inside>> /\ closed' = closed
        BY <2>2 DEF wvars
      <3> QED BY <3>1, <3>2, OpenStays, ClosedStays
    <2>3. ASSUME tick PROVE WindowOpen' /\ SnapshotsAreTheWindow'
      BY <2>3, TickOpen
    <2>4. ASSUME UNCHANGED <<tvars, wvars>> PROVE WindowOpen' /\ SnapshotsAreTheWindow'
      <3>1. prefixes' = prefixes /\ now' = now /\ UNCHANGED <<scopes, window_start, inside>> /\ closed' = closed
        BY <2>4 DEF tvars, wvars
      <3>2. now' \in Nat /\ now <= now'
        BY <2>0, <3>1
      <3> QED BY <3>1, <3>2, OpenStays, ClosedStays
    <2> QED BY <2>1, <2>2, <2>3, <2>4 DEF WindowsNext
  <1>3. RateIsOfTheLastWindow /\ SnapshotsAreTheWindow => RatesAreOfTheirWindow
    BY DEF RatesAreOfTheirWindow
  <1> QED BY <1>1, <1>2, <1>3, TrafficGoesOn, ListHolds, RateIsOfTheLastWindowHolds, PTL DEF WindowsSpec

------------------------------------------------------------------------------
(* The policies of a document.                                             *)

\* Numbers.
LEMMA Products == ASSUME NEW a \in Nat, NEW b \in Nat PROVE a * b \in Nat
  OBVIOUS

LEMMA Divides == ASSUME NEW a \in Nat, NEW b \in Nat \ {0}, a % b = 0 PROVE a \div b \in Nat /\ (a \div b) * b = a
  OBVIOUS

LEMMA UnitSizes ==
    /\ MaxU64 \in Nat
    /\ \A u \in DOMAIN Units : Units[u] \in Nat /\ Units[u] # 0 /\ Units[u] <= MaxU64
    /\ \A m \in DOMAIN Magnitudes : Magnitudes[m] \in Nat
  <1>1. MaxU64 \in Nat
    BY UnitsAssumption
  <1>2. \A u \in DOMAIN Units : Units[u] \in 1 .. MaxU64
    BY UnitsAssumption
  <1>3. \A m \in DOMAIN Magnitudes : Magnitudes[m] \in 1 .. MaxU64
    BY UnitsAssumption
  <1>4. \A u \in DOMAIN Units : Units[u] \in Nat /\ Units[u] # 0 /\ Units[u] <= MaxU64
    BY <1>1, <1>2
  <1>5. \A m \in DOMAIN Magnitudes : Magnitudes[m] \in Nat
    BY <1>1, <1>3
  <1> QED BY <1>1, <1>4, <1>5

\* A product that fits.
LEMMA MulFits ==
    ASSUME NEW a \in Nat, NEW b \in Nat, checked_mul(a, b) # Nobody
    PROVE  checked_mul(a, b) \in 0 .. MaxU64
  <1>1. PICK c \in Nat : c = a * b
    BY Products
  <1>2. MaxU64 \in Nat
    BY UnitsAssumption
  <1>3. checked_mul(a, b) = IF c > MaxU64 THEN Nobody ELSE c
    BY <1>1 DEF checked_mul
  <1> QED BY <1>1, <1>2, <1>3

LEMMA DurationFits ==
    ASSUME NEW t, t.value \in Nat, parse_duration(t) # Nobody
    PROVE  parse_duration(t) \in 0 .. MaxU64
  <1>1. t.unit \in DOMAIN Units /\ parse_duration(t) = checked_mul(t.value, Units[t.unit])
    BY DEF parse_duration
  <1>2. Units[t.unit] \in Nat
    BY <1>1, UnitSizes
  <1>3. PICK a \in Nat, b \in Nat : a = t.value /\ b = Units[t.unit]
    BY <1>2
  <1> QED BY <1>1, <1>3, MulFits

LEMMA MagnitudeFits ==
    ASSUME NEW t, t.value \in Nat, parse_magnitude(t) # Nobody
    PROVE  parse_magnitude(t) \in 0 .. MaxU64
  <1>1. t.suffix \in DOMAIN Magnitudes /\ parse_magnitude(t) = checked_mul(t.value, Magnitudes[t.suffix])
    BY DEF parse_magnitude
  <1>2. Magnitudes[t.suffix] \in Nat
    BY <1>1, UnitSizes
  <1>3. PICK a \in Nat, b \in Nat : a = t.value /\ b = Magnitudes[t.suffix]
    BY <1>2
  <1> QED BY <1>1, <1>3, MulFits

\* A unit whose size divides the duration, and none that does is larger.
LEMMA UnitFound ==
    ASSUME NEW exact \in SUBSET DOMAIN Units, exact # {}
    PROVE  \E u \in exact : \A v \in exact : Units[v] <= Units[u]
  <1>1. MaxU64 \in Nat /\ \A u \in exact : Units[u] \in Nat /\ Units[u] <= MaxU64
    BY UnitSizes
  <1> DEFINE T == {MaxU64 - Units[u] : u \in exact}
  <1>2. T \subseteq Nat /\ T # {}
    BY <1>1
  <1>3. PICK x \in T : \A y \in T : x <= y
    <2> HIDE DEF T
    <2> QED BY <1>2, LeastNumber
  <1>4. PICK u \in exact : x = MaxU64 - Units[u]
    BY <1>3
  <1>5. ASSUME NEW v \in exact PROVE Units[v] <= Units[u]
    <2>1. x <= MaxU64 - Units[v]
      BY <1>3
    <2> QED BY <1>1, <1>4, <2>1
  <1> QED BY <1>5

\* A duration that is written out reads as the same duration.
LEMMA DurationReadsBack ==
    ASSUME NEW d \in 0 .. MaxU64
    PROVE  parse_duration(render_duration(d)) = d /\ render_duration(d) # Nobody
  <1> DEFINE exact == {u \in DOMAIN Units : d % Units[u] = 0}
  <1>0. MaxU64 \in Nat /\ "ms" \in DOMAIN Units /\ Units["ms"] = 1
    BY UnitsAssumption
  <1>1. PICK unit : unit = ExactUnit(d)
    OBVIOUS
  <1>2. unit \in DOMAIN Units /\ d % Units[unit] = 0
    <2>1. CASE d = 0
      BY <1>0, <1>1, <2>1 DEF ExactUnit
    <2>2. CASE d # 0
      <3>1. unit = CHOOSE u \in exact : \A v \in exact : Units[v] <= Units[u]
        BY <1>1, <2>2 DEF ExactUnit
      <3>2. exact \in SUBSET DOMAIN Units
        OBVIOUS
      <3>3. "ms" \in exact
        BY <1>0, <2>2
      <3>4. unit \in exact
        <4> HIDE DEF exact
        <4> QED BY <3>1, <3>2, <3>3, UnitFound
      <3> QED BY <3>4
    <2> QED BY <2>1, <2>2
  <1>3. PICK size \in Nat \ {0} : size = Units[unit]
    BY <1>2, UnitSizes
  <1>4. render_duration(d) = [value |-> d \div size, unit |-> unit]
    BY <1>1, <1>3 DEF render_duration
  <1>5. d \div size \in Nat /\ (d \div size) * size = d
    <2>1. d % size = 0
      BY <1>2, <1>3
    <2>2. d \in Nat /\ size \in Nat \ {0}
      BY <1>0, <1>3
    <2> QED BY <2>1, <2>2, Divides, Zenon
  <1>6. parse_duration(render_duration(d)) = checked_mul(d \div size, size)
    BY <1>2, <1>3, <1>4 DEF parse_duration
  <1>7. checked_mul(d \div size, size) = d
    BY <1>0, <1>5 DEF checked_mul
  <1>8. render_duration(d) \in [value : Nat, unit : DOMAIN Units]
    BY <1>2, <1>4, <1>5
  <1>9. render_duration(d) # Nobody
    BY <1>8, NobodyAssumption
  <1> QED BY <1>6, <1>7, <1>9

\* A policy as it is loaded.
Loaded(p) ==
    /\ p = [f \in PolicyFields |-> p[f]]
    /\ p.id \in Int /\ p.priority \in Int
    /\ p.scope_type \in ScopeType
    /\ p.selector.kind \in {"any", "host", "network", "hostgroup"}
    /\ p.selector.kind \in {"host", "network"} => p.selector.addr \in Address
    /\ p.selector.kind = "network" => p.selector.len \in Nat
    /\ \A f \in DurationFields \cup OptionalDurations : p[f] \in 0 .. MaxU64
    /\ p.thresholds = [k \in DOMAIN p.thresholds |-> p.thresholds[k]]
    /\ \A k \in DOMAIN p.thresholds : p.thresholds[k] \in 0 .. MaxU64
    /\ p.execution_mode # Nobody

\* The fields of a policy that are taken as they are.
PlainFields == {"id", "enabled", "tenant", "scope_type", "selector", "address_family", "direction", "priority"}

LEMMA FieldsApart ==
    /\ PolicyFields = PlainFields \cup DurationFields \cup OptionalDurations
                        \cup {"thresholds", "clear_percent", "execution_mode"}
    /\ \A f \in PlainFields : /\ f \notin DurationFields \cup OptionalDurations
                              /\ f \notin {"thresholds", "clear_percent", "execution_mode"}
    /\ \A f \in {"thresholds", "clear_percent", "execution_mode"} : f \notin DurationFields \cup OptionalDurations
    /\ \A f \in DurationFields : f \notin OptionalDurations
    /\ \A f \in OptionalDurations : f \notin DurationFields
  BY DEF PolicyFields, PlainFields, DurationFields, OptionalDurations

\* What each field of an entry is read as.
LEMMA FieldsRead ==
    ASSUME NEW e, NEW defaults
    PROVE  /\ \A f \in PlainFields : ReadField(e, defaults, f) = e[f]
           /\ \A f \in DurationFields : ReadField(e, defaults, f) = parse_duration(e[f])
           /\ ReadField(e, defaults, "thresholds")
                = [k \in DOMAIN e["thresholds"] |-> parse_magnitude(e["thresholds"][k])]
           /\ ReadField(e, defaults, "clear_percent") = Or(e["clear_percent"], defaults["clear_percent"])
           /\ ReadField(e, defaults, "execution_mode")
                = Or(Or(e["execution_mode"], defaults["execution_mode"]), "alert_only")
  <1>1. ASSUME NEW f \in PlainFields PROVE ReadField(e, defaults, f) = e[f]
    BY FieldsApart DEF ReadField
  <1>2. ASSUME NEW f \in DurationFields PROVE ReadField(e, defaults, f) = parse_duration(e[f])
    BY FieldsApart DEF ReadField
  <1>4. ReadField(e, defaults, "thresholds")
            = [k \in DOMAIN e["thresholds"] |-> parse_magnitude(e["thresholds"][k])]
    BY DEF ReadField, DurationFields, OptionalDurations
  <1>5. ReadField(e, defaults, "clear_percent") = Or(e["clear_percent"], defaults["clear_percent"])
    BY DEF ReadField, DurationFields, OptionalDurations
  <1>6. ReadField(e, defaults, "execution_mode")
            = Or(Or(e["execution_mode"], defaults["execution_mode"]), "alert_only")
    BY DEF ReadField, DurationFields, OptionalDurations
  <1> QED BY <1>1, <1>2, <1>4, <1>5, <1>6

LEMMA OptionalRead ==
    ASSUME NEW e, NEW defaults, NEW f \in OptionalDurations
    PROVE  ReadField(e, defaults, f) = optional(f, e[f], defaults[f])
  BY FieldsApart DEF ReadField

LEMMA FieldsWritten ==
    ASSUME NEW p
    PROVE  /\ \A f \in PlainFields \cup {"clear_percent", "execution_mode"} : WriteField(p, f) = p[f]
           /\ \A f \in DurationFields \cup OptionalDurations : WriteField(p, f) = render_duration(p[f])
           /\ WriteField(p, "thresholds")
                = [k \in DOMAIN p["thresholds"] |-> [value |-> p["thresholds"][k], suffix |-> ""]]
  <1>1. ASSUME NEW f \in PlainFields \cup {"clear_percent", "execution_mode"} PROVE WriteField(p, f) = p[f]
    BY FieldsApart DEF WriteField, PlainFields
  <1>2. ASSUME NEW f \in DurationFields \cup OptionalDurations PROVE WriteField(p, f) = render_duration(p[f])
    BY FieldsApart DEF WriteField
  <1>3. WriteField(p, "thresholds")
            = [k \in DOMAIN p["thresholds"] |-> [value |-> p["thresholds"][k], suffix |-> ""]]
    BY DEF WriteField, DurationFields, OptionalDurations
  <1> QED BY <1>1, <1>2, <1>3

LEMMA OptionalFits ==
    ASSUME NEW f, NEW own, NEW fallback, own # Nobody => own.value \in Nat,
           fallback # Nobody => fallback.value \in Nat, optional(f, own, fallback) # Nobody
    PROVE  optional(f, own, fallback) \in 0 .. MaxU64
  <1>1. MaxU64 \in Nat /\ DefaultUpdateInterval \in 0 .. MaxU64
    BY UnitsAssumption
  <1>2. CASE Or(own, fallback) # Nobody
    <2>1. PICK t : t = Or(own, fallback) /\ t.value \in Nat
      BY <1>2 DEF Or
    <2>2. optional(f, own, fallback) = parse_duration(t)
      BY <1>2, <2>1 DEF optional
    <2> QED BY <2>1, <2>2, DurationFits
  <1>3. CASE Or(own, fallback) = Nobody
    BY <1>1, <1>3 DEF optional
  <1> QED BY <1>2, <1>3

\* What is left of an entry that was read.
LEMMA DraftRead ==
    ASSUME NEW e, NEW defaults, to_draft(e, defaults) # Nobody, e = [f \in PolicyFields |-> e[f]]
    PROVE  LET d == to_draft(e, defaults)
           IN  /\ d = [f \in PolicyFields |-> d[f]]
               /\ \A f \in PolicyFields : d[f] = ReadField(e, defaults, f)
               /\ \A k \in DOMAIN d["thresholds"] : d["thresholds"][k] # Nobody
               /\ \A f \in DurationFields \cup OptionalDurations : d[f] # Nobody
  <1>1. PICK draft : draft = [f \in PolicyFields |-> ReadField(e, defaults, f)]
    OBVIOUS
  <1>2. draft = [f \in DOMAIN e |-> ReadField(e, defaults, f)]
    BY <1>1
  <1> DEFINE parsed == {draft["thresholds"][k] : k \in DOMAIN draft["thresholds"]}
                        \cup {draft[f] : f \in DurationFields \cup OptionalDurations}
  <1>3. to_draft(e, defaults) = IF Nobody \in parsed THEN Nobody ELSE draft
    BY <1>2 DEF to_draft
  <1>4. to_draft(e, defaults) = draft /\ Nobody \notin parsed
    BY <1>3
  <1>5. \A k \in DOMAIN draft["thresholds"] : draft["thresholds"][k] # Nobody
    BY <1>4
  <1>6. \A f \in DurationFields \cup OptionalDurations : draft[f] # Nobody
    BY <1>4
  <1> HIDE DEF parsed
  <1> QED BY <1>1, <1>4, <1>5, <1>6

LEMMA DraftLoaded ==
    ASSUME NEW e, PolicyEntry(e), NEW defaults,
           \A f \in OptionalDurations : defaults[f] # Nobody => defaults[f].value \in Nat,
           NEW d, d = to_draft(e, defaults), d # Nobody
    PROVE  Loaded(d) /\ \A f \in PlainFields : d[f] = e[f]
  <1>1. /\ d = [f \in PolicyFields |-> d[f]]
        /\ \A f \in PolicyFields : d[f] = ReadField(e, defaults, f)
        /\ \A k \in DOMAIN d["thresholds"] : d["thresholds"][k] # Nobody
        /\ \A f \in DurationFields \cup OptionalDurations : d[f] # Nobody
    BY DraftRead DEF PolicyEntry
  <1>0. /\ \A f \in PlainFields : f \in PolicyFields /\ ReadField(e, defaults, f) = e[f]
        /\ \A f \in DurationFields : f \in PolicyFields /\ ReadField(e, defaults, f) = parse_duration(e[f])
        /\ \A f \in OptionalDurations :
              f \in PolicyFields /\ ReadField(e, defaults, f) = optional(f, e[f], defaults[f])
    <2>1. \A f \in PlainFields \cup DurationFields \cup OptionalDurations : f \in PolicyFields
      BY FieldsApart
    <2>2. ASSUME NEW f \in PlainFields PROVE ReadField(e, defaults, f) = e[f]
      BY FieldsRead
    <2>3. ASSUME NEW f \in DurationFields PROVE ReadField(e, defaults, f) = parse_duration(e[f])
      BY FieldsRead
    <2>4. ASSUME NEW f \in OptionalDurations PROVE ReadField(e, defaults, f) = optional(f, e[f], defaults[f])
      BY OptionalRead
    <2> QED BY <2>1, <2>2, <2>3, <2>4
  <1>2. \A f \in PlainFields : d[f] = e[f]
    BY <1>0, <1>1
  <1>3. ASSUME NEW f \in DurationFields PROVE d[f] \in 0 .. MaxU64
    <2>1. d[f] = parse_duration(e[f]) /\ d[f] # Nobody /\ e[f].value \in Nat
      BY <1>0, <1>1 DEF PolicyEntry
    <2>2. PICK t : t = e[f]
      OBVIOUS
    <2> QED BY <2>1, <2>2, DurationFits
  <1>4. ASSUME NEW f \in OptionalDurations PROVE d[f] \in 0 .. MaxU64
    <2>1. d[f] = optional(f, e[f], defaults[f]) /\ d[f] # Nobody
      BY <1>0, <1>1
    <2>2. PICK own, fallback : own = e[f] /\ fallback = defaults[f]
      OBVIOUS
    <2>3. (own # Nobody => own.value \in Nat) /\ (fallback # Nobody => fallback.value \in Nat)
      BY <2>2 DEF PolicyEntry
    <2> QED BY <2>1, <2>2, <2>3, OptionalFits
  <1>5. "thresholds" \in PolicyFields /\ "execution_mode" \in PolicyFields
    BY FieldsApart
  <1>6. d["thresholds"] = [k \in DOMAIN e["thresholds"] |-> parse_magnitude(e["thresholds"][k])]
    BY <1>1, <1>5, FieldsRead
  <1>7. ASSUME NEW k \in DOMAIN d["thresholds"] PROVE d["thresholds"][k] \in 0 .. MaxU64
    <2>1. k \in DOMAIN e["thresholds"] /\ d["thresholds"][k] = parse_magnitude(e["thresholds"][k])
      BY <1>6
    <2>2. PICK t : t = e["thresholds"][k] /\ t.value \in Nat
      BY <2>1 DEF PolicyEntry
    <2> QED BY <1>1, <2>1, <2>2, MagnitudeFits
  <1>8. d["execution_mode"] # Nobody
    <2>1. d["execution_mode"] = Or(Or(e["execution_mode"], defaults["execution_mode"]), "alert_only")
      BY <1>1, <1>5, FieldsRead
    <2> QED BY <2>1, NobodyAssumption DEF Or
  <1>9. /\ d["id"] = e["id"] /\ d["priority"] = e["priority"]
        /\ d["scope_type"] = e["scope_type"] /\ d["selector"] = e["selector"]
    BY <1>2 DEF PlainFields
  <1>10. d["thresholds"] = [k \in DOMAIN d["thresholds"] |-> d["thresholds"][k]]
    BY <1>6
  <1>11. \A f \in DurationFields \cup OptionalDurations : d[f] \in 0 .. MaxU64
    BY <1>3, <1>4
  <1>12. Loaded(d)
    BY <1>1, <1>7, <1>8, <1>9, <1>10, <1>11 DEF Loaded, PolicyEntry
  <1> QED BY <1>2, <1>12

\* A policy that is written out and read is the same policy.
LEMMA PolicyReadsBack ==
    ASSUME NEW p, Loaded(p), p # Nobody, p.clear_percent # Nobody
    PROVE  to_draft(to_entry(p), PolicyDefaults) = p
  <1>1. PICK e : e = to_entry(p)
    OBVIOUS
  <1>2. e = [f \in PolicyFields |-> e[f]] /\ \A f \in PolicyFields : e[f] = WriteField(p, f)
    BY <1>1 DEF Loaded, to_entry
  <1>3. ASSUME NEW f \in PlainFields PROVE ReadField(e, PolicyDefaults, f) = p[f]
    <2>1. f \in PolicyFields /\ WriteField(p, f) = p[f]
      BY FieldsApart, FieldsWritten
    <2>2. ReadField(e, PolicyDefaults, f) = e[f]
      BY FieldsRead
    <2> QED BY <1>2, <2>1, <2>2
  <1>4. ASSUME NEW f \in DurationFields \cup OptionalDurations
        PROVE  ReadField(e, PolicyDefaults, f) = p[f]
    <2>1. PICK d \in 0 .. MaxU64 : d = p[f]
      BY DEF Loaded
    <2>2. e[f] = render_duration(d)
      BY <1>2, <2>1, FieldsApart, FieldsWritten
    <2>3. parse_duration(e[f]) = d /\ e[f] # Nobody
      BY <2>2, DurationReadsBack
    <2>4. CASE f \in DurationFields
      <3>1. ReadField(e, PolicyDefaults, f) = parse_duration(e[f])
        BY <2>4, FieldsRead
      <3> QED BY <2>1, <2>3, <3>1
    <2>5. CASE f \in OptionalDurations
      <3>1. Or(e[f], PolicyDefaults[f]) = e[f]
        BY <2>3 DEF Or
      <3>2. optional(f, e[f], PolicyDefaults[f]) = parse_duration(e[f])
        BY <2>3, <3>1 DEF optional
      <3> QED BY <2>1, <2>3, <2>5, <3>2, OptionalRead
    <2> QED BY <2>4, <2>5
  <1>5. ReadField(e, PolicyDefaults, "thresholds") = p["thresholds"]
    <2>1. e["thresholds"] = [k \in DOMAIN p["thresholds"] |-> [value |-> p["thresholds"][k], suffix |-> ""]]
      BY <1>2, FieldsApart, FieldsWritten
    <2>2. ASSUME NEW k \in DOMAIN p["thresholds"]
          PROVE  parse_magnitude(e["thresholds"][k]) = p["thresholds"][k]
      <3>1. PICK n \in Nat : n = p["thresholds"][k] /\ n <= MaxU64
        BY UnitSizes DEF Loaded
      <3>2. e["thresholds"][k] = [value |-> n, suffix |-> ""]
        BY <2>1, <3>1
      <3>3. parse_magnitude(e["thresholds"][k]) = checked_mul(n, 1)
        <4>1. "" \in DOMAIN Magnitudes /\ Magnitudes[""] = 1
          BY UnitsAssumption
        <4>2. PICK t : t = [value |-> n, suffix |-> ""]
          OBVIOUS
        <4>3. parse_magnitude(t) = checked_mul(t.value, Magnitudes[t.suffix])
          BY <4>1, <4>2 DEF parse_magnitude
        <4> QED BY <3>2, <4>1, <4>2, <4>3
      <3>4. checked_mul(n, 1) = n
        BY <3>1, UnitSizes DEF checked_mul
      <3> QED BY <3>1, <3>3, <3>4
    <2>3. ReadField(e, PolicyDefaults, "thresholds")
            = [k \in DOMAIN e["thresholds"] |-> parse_magnitude(e["thresholds"][k])]
      BY FieldsRead
    <2>4. DOMAIN e["thresholds"] = DOMAIN p["thresholds"]
      BY <2>1
    <2>5. p["thresholds"] = [k \in DOMAIN p["thresholds"] |-> p["thresholds"][k]]
      BY DEF Loaded
    <2>6. ReadField(e, PolicyDefaults, "thresholds") = [k \in DOMAIN p["thresholds"] |-> p["thresholds"][k]]
      BY <2>2, <2>3, <2>4
    <2> QED BY <2>5, <2>6
  <1>6. /\ ReadField(e, PolicyDefaults, "clear_percent") = p["clear_percent"]
        /\ ReadField(e, PolicyDefaults, "execution_mode") = p["execution_mode"]
    <2>1. e["clear_percent"] = p["clear_percent"] /\ e["execution_mode"] = p["execution_mode"]
      BY <1>2, FieldsApart, FieldsWritten
    <2>2. p["clear_percent"] # Nobody /\ p["execution_mode"] # Nobody
      BY DEF Loaded
    <2> QED BY <2>1, <2>2, FieldsRead DEF Or
  <1>7. \A f \in PolicyFields : ReadField(e, PolicyDefaults, f) = p[f]
    BY <1>3, <1>4, <1>5, <1>6, FieldsApart
  <1>8. [f \in DOMAIN e |-> ReadField(e, PolicyDefaults, f)] = p
    <2>1. DOMAIN e = PolicyFields /\ p = [f \in PolicyFields |-> p[f]]
      BY <1>2 DEF Loaded
    <2> QED BY <1>7, <2>1
  <1>9. Nobody \notin {p["thresholds"][k] : k \in DOMAIN p["thresholds"]}
                       \cup {p[f] : f \in DurationFields \cup OptionalDurations}
    <2>1. MaxU64 \in Nat /\ Nobody \notin Int
      BY UnitSizes, NobodyAssumption
    <2>2. Nobody \notin 0 .. MaxU64
      BY <2>1
    <2> QED BY <2>2 DEF Loaded
  <1> QED BY <1>1, <1>8, <1>9 DEF to_draft

\* What a document that was accepted was compiled to.
CompiledTo(doc, ps, drafts, L) ==
    /\ L \in Nat /\ L = Len(doc.policies) /\ drafts = [i \in 1 .. L |-> drafts[i]]
    /\ ps = {drafts[i] : i \in 1 .. L}
    /\ tenant_prefixes(doc) # Nobody
    /\ \A i \in 1 .. L : drafts[i] # Nobody /\ Loaded(drafts[i]) /\ validate(drafts[i], tenant_prefixes(doc))
    /\ \A i, j \in 1 .. L : drafts[i].id = drafts[j].id => i = j

LEMMA Compiles ==
    ASSUME NEW doc \in PolicyDocuments, NEW ps, ps = compile(doc), ps # Nobody
    PROVE  \E drafts, L : CompiledTo(doc, ps, drafts, L)
  <1>1. PICK L \in Nat : L = Len(doc.policies) /\ DOMAIN doc.policies = 1 .. L
    BY DocumentsAssumption
  <1>2. PICK drafts : drafts = [i \in 1 .. L |-> to_draft(doc.policies[i], doc.defaults)]
    OBVIOUS
  <1>3. drafts = [i \in DOMAIN doc.policies |-> to_draft(doc.policies[i], doc.defaults)]
    BY <1>1, <1>2
  <1>4. /\ tenant_prefixes(doc) # Nobody
        /\ \A i, j \in 1 .. L : i # j => doc.policies[i].id # doc.policies[j].id
        /\ \A i \in 1 .. L : drafts[i] # Nobody /\ validate(drafts[i], tenant_prefixes(doc))
        /\ ps = Seqs!ToSet(drafts)
    <2>1. ~ (\/ tenant_prefixes(doc) = Nobody
             \/ \E i, j \in DOMAIN doc.policies : i # j /\ doc.policies[i].id = doc.policies[j].id
             \/ \E i \in DOMAIN drafts : drafts[i] = Nobody \/ ~validate(drafts[i], tenant_prefixes(doc)))
      BY <1>3, Zenon DEF compile
    <2>2. ps = Seqs!ToSet(drafts)
      BY <1>3, <2>1, Zenon DEF compile
    <2>3. DOMAIN drafts = 1 .. L
      BY <1>2
    <2> QED BY <1>1, <2>1, <2>2, <2>3
  <1>5. ps = {drafts[i] : i \in 1 .. L}
    BY <1>2, <1>4 DEF Seqs!ToSet
  <1>6. ASSUME NEW i \in 1 .. L PROVE Loaded(drafts[i]) /\ drafts[i].id = doc.policies[i].id
    <2>1. PICK e, defaults, d : e = doc.policies[i] /\ defaults = doc.defaults /\ d = drafts[i]
      OBVIOUS
    <2>2. PolicyEntry(e) /\ \A f \in OptionalDurations : defaults[f] # Nobody => defaults[f].value \in Nat
      BY <1>1, <2>1, DocumentsAssumption
    <2>3. d = to_draft(e, defaults) /\ d # Nobody
      BY <1>2, <1>4, <2>1
    <2>4. Loaded(d) /\ \A f \in PlainFields : d[f] = e[f]
      BY <2>2, <2>3, DraftLoaded
    <2>5. d.id = e.id
      BY <2>4 DEF PlainFields
    <2> QED BY <2>1, <2>4, <2>5
  <1>7. drafts = [i \in 1 .. L |-> drafts[i]]
    BY <1>2
  <1>8. \A i, j \in 1 .. L : drafts[i].id = drafts[j].id => i = j
    BY <1>4, <1>6
  <1>9. CompiledTo(doc, ps, drafts, L)
    BY <1>1, <1>4, <1>5, <1>6, <1>7, <1>8 DEF CompiledTo
  <1> QED BY <1>9

\* The elements of a finite set in some order, each once.
LEMMA Enumerated ==
    ASSUME NEW S, IsFiniteSet(S)
    PROVE  LET s == Seqs!SetToSeq(S)
           IN  /\ Len(s) = Cardinality(S) /\ DOMAIN s = 1 .. Cardinality(S)
               /\ \A i, j \in DOMAIN s : s[i] = s[j] => i = j
               /\ {s[i] : i \in DOMAIN s} = S
  <1>1. PICK n \in Nat : n = Cardinality(S)
    BY FS_CardinalityType
  <1>2. ExistsBijection(1 .. n, S)
    BY <1>1, FS_CardinalityType
  <1>3. \E f \in [1 .. n -> S] : Seqs!IsInjective(f)
    <2>1. PICK f \in Bijection(1 .. n, S) : TRUE
      BY <1>2 DEF ExistsBijection
    <2>2. f \in [1 .. n -> S] /\ \A a, b \in 1 .. n : f[a] = f[b] => a = b
      BY <2>1 DEF Bijection, Injection, IsInjective
    <2> QED BY <2>2 DEF Seqs!IsInjective
  <1>4. PICK s : s = Seqs!SetToSeq(S)
    OBVIOUS
  <1>5. s \in [1 .. n -> S] /\ Seqs!IsInjective(s)
    <2>1. s = CHOOSE f \in [1 .. Cardinality(S) -> S] : Seqs!IsInjective(f)
      BY <1>4 DEF Seqs!SetToSeq, Seqs!Cardinality, Cardinality
    <2>2. s = CHOOSE f \in [1 .. n -> S] : Seqs!IsInjective(f)
      BY <1>1, <2>1
    <2> QED BY <1>3, <2>2
  <1>6. \A i, j \in 1 .. n : s[i] = s[j] => i = j
    BY <1>5 DEF Seqs!IsInjective
  <1>7. s \in Surjection(1 .. n, S)
    <2>1. s \in Injection(1 .. n, S)
      BY <1>5, <1>6 DEF Injection, IsInjective
    <2>2. IsFiniteSet(1 .. n) /\ Cardinality(1 .. n) = n
      BY FS_Interval
    <2>3. PICK D : D = 1 .. n
      OBVIOUS
    <2>4. Cardinality(D) = Cardinality(S) <=> s \in Surjection(D, S)
      BY <2>1, <2>3, FS_Injection
    <2> QED BY <1>1, <2>2, <2>3, <2>4
  <1>8. {s[i] : i \in 1 .. n} = S
    BY <1>5, <1>7 DEF Surjection
  <1>9. Len(s) = n /\ DOMAIN s = 1 .. n
    BY <1>5
  <1> QED BY <1>1, <1>4, <1>6, <1>8, <1>9

\* A policy that was validated is valid whatever tenants own nothing.
LEMMA ValidUnowned ==
    ASSUME NEW p, NEW owned, validate(p, owned)
    PROVE  validate(p, {})
  <1>1. validate_prefix_ownership(p.tenant, p.selector, {})
    BY DEF validate_prefix_ownership
  <1> QED BY <1>1 DEF validate

\* A document without tenants gives nobody a prefix.
LEMMA NoTenants ==
    ASSUME NEW doc, doc.tenants = << >>
    PROVE  tenant_prefixes(doc) = {}
  <1>0. DOMAIN doc.tenants = {} /\ Seqs!ToSet(doc.tenants) = {}
    BY DEF Seqs!ToSet
  <1>1. UNION {{i} \X DOMAIN doc.tenants[i].prefixes : i \in DOMAIN doc.tenants} = {}
    BY <1>0
  <1>2. UNION {{[tenant |-> t.tenant, prefix |-> parse_cidr(p)] : p \in Seqs!ToSet(t.prefixes)} :
                  t \in Seqs!ToSet(doc.tenants)} = {}
    BY <1>0
  <1>3. Cardinality(UNION {{i} \X DOMAIN doc.tenants[i].prefixes : i \in DOMAIN doc.tenants}) = 0
    BY <1>1, FS_EmptySet
  <1>4. ~ (0 > MAX_TENANT_PREFIXES)
    BY LimitsAssumption
  <1> QED BY <1>2, <1>3, <1>4, Zenon DEF tenant_prefixes

\* What was loaded, written out, loads as the same policies.
LEMMA LoadsBack ==
    ASSUME NEW doc, from_json(doc), NEW ps, NEW drafts, NEW L, CompiledTo(doc, ps, drafts, L)
    PROVE  load_policies(to_document(ps)) = ps
  <1>0. /\ L \in Nat /\ L <= MAX_POLICIES /\ drafts = [i \in 1 .. L |-> drafts[i]]
        /\ ps = {drafts[i] : i \in 1 .. L}
        /\ \A i \in 1 .. L : drafts[i] # Nobody /\ Loaded(drafts[i]) /\ validate(drafts[i], tenant_prefixes(doc))
        /\ \A i, j \in 1 .. L : drafts[i].id = drafts[j].id => i = j
    BY DEF CompiledTo, from_json
  <1>1. ASSUME NEW i \in 1 .. L
        PROVE  to_draft(to_entry(drafts[i]), PolicyDefaults) = drafts[i] /\ validate(drafts[i], {})
    <2>1. PICK p, owned : p = drafts[i] /\ owned = tenant_prefixes(doc)
      OBVIOUS
    <2>2. p # Nobody /\ Loaded(p) /\ validate(p, owned)
      BY <1>0, <2>1
    <2>3. p.clear_percent # Nobody
      <3>1. p.clear_percent \in Int
        BY <2>2 DEF validate
      <3> QED BY <3>1, NobodyAssumption
    <2> QED BY <2>1, <2>2, <2>3, PolicyReadsBack, ValidUnowned
  <1>2. PICK S : S = {to_entry(p) : p \in ps}
    OBVIOUS
  <1>3. IsFiniteSet(S) /\ Cardinality(S) \in Nat /\ Cardinality(S) <= L
    <2>1. PICK D : D = 1 .. L
      OBVIOUS
    <2>2. IsFiniteSet(D) /\ Cardinality(D) = L
      BY <1>0, <2>1, FS_Interval
    <2>3. PICK f : f = [i \in D |-> to_entry(drafts[i])]
      OBVIOUS
    <2>4. S = {to_entry(drafts[i]) : i \in D}
      BY <1>0, <1>2, <2>1
    <2>5. f \in [D -> S] /\ \A x \in S : \E i \in D : f[i] = x
      BY <2>3, <2>4
    <2>6. f \in Surjection(D, S)
      BY <2>5 DEF Surjection
    <2> QED BY <2>2, <2>6, FS_Surjection, FS_CardinalityType
  <1>4. PICK sq, doc2 : sq = Seqs!SetToSeq(S) /\ doc2 = to_document(ps)
    OBVIOUS
  <1>5. PICK n \in Nat : n = Cardinality(S) /\ n <= L
    BY <1>3
  <1>6. /\ Len(sq) = n /\ DOMAIN sq = 1 .. n
        /\ \A i, j \in 1 .. n : sq[i] = sq[j] => i = j
        /\ {sq[i] : i \in 1 .. n} = S
    BY <1>3, <1>4, <1>5, Enumerated
  <1>7. doc2 = [readable |-> TRUE, schema_version |-> 1, defaults |-> PolicyDefaults, tenants |-> << >>, policies |-> sq]
    BY <1>2, <1>4 DEF to_document
  <1>8. from_json(doc2)
    BY <1>0, <1>5, <1>6, <1>7, LimitsAssumption DEF from_json
  <1>9. tenant_prefixes(doc2) = {}
    BY <1>7, NoTenants
  <1>10. ASSUME NEW k \in 1 .. n PROVE \E i \in 1 .. L : sq[k] = to_entry(drafts[i])
    <2>1. sq[k] \in S
      BY <1>6
    <2>2. PICK p \in ps : sq[k] = to_entry(p)
      BY <1>2, <2>1
    <2> QED BY <1>0, <2>2
  <1>11. ASSUME NEW k \in 1 .. n, NEW i \in 1 .. L, sq[k] = to_entry(drafts[i])
         PROVE  to_draft(sq[k], PolicyDefaults) = drafts[i] /\ sq[k].id = drafts[i].id
    <2>1. to_draft(sq[k], PolicyDefaults) = drafts[i]
      BY <1>1, <1>11
    <2>2. PICK p : p = drafts[i] /\ Loaded(p)
      BY <1>0
    <2>3. to_entry(p)["id"] = p["id"]
      <3>1. DOMAIN p = PolicyFields /\ "id" \in PolicyFields /\ "id" \in PlainFields
        BY <2>2 DEF Loaded, PolicyFields, PlainFields
      <3>2. WriteField(p, "id") = p["id"]
        BY <3>1, FieldsWritten
      <3>3. to_entry(p) = [f \in PolicyFields |-> WriteField(p, f)]
        BY <3>1 DEF to_entry
      <3> QED BY <3>1, <3>2, <3>3
    <2> QED BY <1>11, <2>1, <2>2, <2>3
  <1>12. ASSUME NEW k \in 1 .. n, NEW l \in 1 .. n, sq[k].id = sq[l].id PROVE k = l
    <2>1. PICK i \in 1 .. L : sq[k] = to_entry(drafts[i])
      BY <1>10
    <2>2. PICK j \in 1 .. L : sq[l] = to_entry(drafts[j])
      BY <1>10
    <2>3. drafts[i].id = drafts[j].id
      BY <1>11, <1>12, <2>1, <2>2
    <2>4. i = j
      BY <1>0, <2>3
    <2> QED BY <1>6, <2>1, <2>2, <2>4
  <1>13. PICK again : again = [k \in DOMAIN doc2.policies |-> to_draft(doc2.policies[k], doc2.defaults)]
    OBVIOUS
  <1>14. again = [k \in 1 .. n |-> to_draft(sq[k], PolicyDefaults)]
    BY <1>6, <1>7, <1>13
  <1>15. ASSUME NEW k \in DOMAIN again PROVE again[k] # Nobody /\ validate(again[k], {}) /\ again[k] \in ps
    <2>1. k \in 1 .. n
      BY <1>14
    <2>2. PICK i \in 1 .. L : sq[k] = to_entry(drafts[i])
      BY <1>10, <2>1
    <2>3. again[k] = drafts[i]
      BY <1>11, <1>14, <2>1, <2>2
    <2> QED BY <1>0, <1>1, <2>3
  <1>16. ASSUME NEW p \in ps PROVE \E k \in DOMAIN again : again[k] = p
    <2>1. PICK i \in 1 .. L : p = drafts[i]
      BY <1>0
    <2>2. to_entry(p) \in S
      BY <1>2
    <2>3. PICK k \in 1 .. n : sq[k] = to_entry(p)
      BY <1>6, <2>2
    <2> QED BY <1>11, <1>14, <2>1, <2>3
  <1>17. Seqs!ToSet(again) = ps
    BY <1>15, <1>16 DEF Seqs!ToSet
  <1>18. ~ \E i, j \in DOMAIN doc2.policies : i # j /\ doc2.policies[i].id = doc2.policies[j].id
    BY <1>6, <1>7, <1>12
  <1>19. compile(doc2) = ps
    <2>1. {} # Nobody
      BY NobodyAssumption
    <2>2. ~ \E i \in DOMAIN again : again[i] = Nobody \/ ~validate(again[i], tenant_prefixes(doc2))
      BY <1>9, <1>15
    <2> QED BY <1>9, <1>13, <1>17, <1>18, <2>1, <2>2, Zenon DEF compile
  <1> QED BY <1>4, <1>8, <1>19 DEF load_policies

\* A candidate's rank; 50 to 900 where it names its target.
LEMMA Ranks ==
    ASSUME NEW p, Loaded(p), NEW owned, validate(p, owned)
    PROVE  /\ SelectorRank(p.selector) \in Int
           /\ p.selector.kind = "any" => SelectorRank(p.selector) = 0
           /\ p.selector.kind # "any" => SelectorRank(p.selector) \in 50 .. 900
  <1>1. p.selector.kind = "network" => p.selector.len \in 0 .. 128
    <2>1. SUFFICES ASSUME p.selector.kind = "network" PROVE p.selector.len \in 0 .. 128
      OBVIOUS
    <2>2. p.selector.len <= MaxBits[p.selector.addr.family] /\ p.selector.len \in Nat
      BY <2>1 DEF validate, validate_selector, Loaded
    <2>3. p.selector.addr.family \in DOMAIN MaxBits
      BY <2>1 DEF Loaded, Address
    <2>4. MaxBits[p.selector.addr.family] \in 0 .. 128
      BY <2>3, WidthsAssumption
    <2> QED BY <2>2, <2>4
  <1>2. p.selector.kind \in {"any", "host", "network", "hostgroup"}
    BY DEF Loaded
  <1> QED BY <1>1, <1>2 DEF SelectorRank

\* What two candidates for one scope have in common.
LEMMA SameRung ==
    ASSUME NEW p, NEW q, NEW key, Loaded(p), Loaded(q), matches_scope(p, key), matches_scope(q, key)
    PROVE  /\ p.scope_type = q.scope_type
           /\ p.selector.kind # "any" /\ q.selector.kind # "any" =>
                 SelectorRank(p.selector) = SelectorRank(q.selector)
  <1>1. p.scope_type = key.scope_type /\ q.scope_type = key.scope_type
    BY DEF matches_scope
  <1>2. /\ p.selector.kind \in {"any", "host", "network", "hostgroup"}
        /\ q.selector.kind \in {"any", "host", "network", "hostgroup"}
    BY DEF Loaded
  <1>3. /\ p.selector.kind = "host" => key.scope_type = "host"
        /\ q.selector.kind = "host" => key.scope_type = "host"
        /\ p.selector.kind = "network" => key.scope_type \in {"prefix", "slash24"}
        /\ q.selector.kind = "network" => key.scope_type \in {"prefix", "slash24"}
        /\ p.selector.kind = "hostgroup" => key.scope_type = "hostgroupTotal"
        /\ q.selector.kind = "hostgroup" => key.scope_type = "hostgroupTotal"
    BY DEF matches_scope
  <1>4. p.selector.kind # "any" /\ q.selector.kind # "any" => p.selector.kind = q.selector.kind
    BY <1>2, <1>3
  <1>5. p.selector.kind = "network" /\ q.selector.kind = "network" => p.selector.len = q.selector.len
    <2>1. SUFFICES ASSUME p.selector.kind = "network", q.selector.kind = "network"
                   PROVE  p.selector.len = q.selector.len
      OBVIOUS
    <2>2. mask(p.selector.addr, p.selector.len) = key.scope_id
      BY <2>1 DEF matches_scope
    <2>3. mask(q.selector.addr, q.selector.len) = key.scope_id
      BY <2>1 DEF matches_scope
    <2>4. PICK a, b, m, n : /\ a = p.selector.addr /\ b = q.selector.addr
                            /\ m = p.selector.len /\ n = q.selector.len
      OBVIOUS
    <2>5. a \in Address /\ b \in Address /\ m \in Nat /\ n \in Nat
      BY <2>1, <2>4 DEF Loaded
    <2>6. mask(a, m).bits = SubSeq(a.bits, 1, m) /\ mask(b, n).bits = SubSeq(b.bits, 1, n)
      BY <2>5 DEF mask, Address
    <2>7. Len(SubSeq(a.bits, 1, m)) = m /\ Len(SubSeq(b.bits, 1, n)) = n
      BY <2>5
    <2> QED BY <2>2, <2>3, <2>4, <2>6, <2>7
  <1> QED BY <1>1, <1>2, <1>4, <1>5 DEF SelectorRank

LEMMA SpecificityIsInt ==
    ASSUME NEW p, Loaded(p), NEW owned, validate(p, owned)
    PROVE  specificity(p) \in Int /\ ScopeSpecificity[p.scope_type] \in Int
  <1>1. SelectorRank(p.selector) \in Int
    BY Ranks
  <1>2. ScopeSpecificity[p.scope_type] \in Int
    BY DEF Loaded, ScopeType, ScopeSpecificity
  <1> QED BY <1>1, <1>2 DEF specificity

\* The order of the candidates is the ladder's.
LEMMA BetterIsAbove ==
    ASSUME NEW p, NEW q, NEW key, NEW owned, Loaded(p), Loaded(q), validate(p, owned), validate(q, owned),
           matches_scope(p, key), matches_scope(q, key), better(p, q)
    PROVE  Above(Ladder(p), Ladder(q))
  <1>1. PICK rp, rq, s \in Int : rp = SelectorRank(p.selector) /\ rq = SelectorRank(q.selector)
                                 /\ s = ScopeSpecificity[p.scope_type]
    BY Ranks, SpecificityIsInt
  <1>2. s = ScopeSpecificity[q.scope_type]
    BY <1>1, SameRung
  <1>3. PICK tp, tq, kp, kq, fp, fq \in {0, 1} :
            /\ tp = Named(p.tenant # "*") /\ tq = Named(q.tenant # "*")
            /\ kp = Named(p.selector.kind # "any") /\ kq = Named(q.selector.kind # "any")
            /\ fp = Named(p.address_family # Nobody) /\ fq = Named(q.address_family # Nobody)
    BY DEF Named
  <1>4. /\ specificity(p) = 1000000 * tp + s * 1000 + rp + fp
        /\ specificity(q) = 1000000 * tq + s * 1000 + rq + fq
    BY <1>1, <1>2, <1>3 DEF specificity, Named, WILDCARD_TENANT
  <1>5. /\ kp = 0 => rp = 0
        /\ kq = 0 => rq = 0
        /\ kp = 1 => rp \in 50 .. 900
        /\ kq = 1 => rq \in 50 .. 900
    BY <1>1, <1>3, Ranks DEF Named
  <1>6. kp = 1 /\ kq = 1 => rp = rq
    BY <1>1, <1>3, SameRung DEF Named
  <1>7. PICK np, nq, ip, iq \in Int : np = p.priority /\ nq = q.priority /\ ip = p.id /\ iq = q.id
    BY DEF Loaded
  <1>8. Ladder(p) = <<tp, kp, fp, np, -ip>> /\ Ladder(q) = <<tq, kq, fq, nq, -iq>>
    BY <1>3, <1>7 DEF Ladder
  <1>9. PICK sp, sq \in Int : /\ sp = 1000000 * tp + s * 1000 + rp + fp /\ sp = specificity(p)
                              /\ sq = 1000000 * tq + s * 1000 + rq + fq /\ sq = specificity(q)
    BY <1>4, <1>1
  <1>10. sp > sq \/ (sp = sq /\ np > nq) \/ (sp = sq /\ np = nq /\ ip < iq)
    BY <1>7, <1>9 DEF better
  <1>11. \/ tp > tq
         \/ tp = tq /\ kp > kq
         \/ tp = tq /\ kp = kq /\ fp > fq
         \/ tp = tq /\ kp = kq /\ fp = fq /\ np > nq
         \/ tp = tq /\ kp = kq /\ fp = fq /\ np = nq /\ -ip > -iq
    BY <1>5, <1>6, <1>9, <1>10
  <1>12. Above(<<tp, kp, fp, np, -ip>>, <<tq, kq, fq, nq, -iq>>)
    BY <1>11 DEF Above
  <1> QED BY <1>8, <1>12

\* The candidates that come before p.
Before(C, p) == {q \in C : better(q, p)}

\* Of finitely many candidates one is better than all others.
LEMMA OneIsBest ==
    ASSUME NEW C, IsFiniteSet(C), C # {},
           \A p \in C : specificity(p) \in Int /\ p.priority \in Int /\ p.id \in Int,
           \A p, q \in C : p.id = q.id => p = q
    PROVE  \E p \in C : \A q \in C \ {p} : better(p, q)
  <1> DEFINE R == StrictSubsetOrdering(C)
             T == {Before(C, p) : p \in C}
  <1>1. IsWellFoundedOn(R, SUBSET C)
    BY FS_StrictSubsetOrderingWellFounded, FS_FiniteSubsetsOfFinite
  <1>2. T \subseteq SUBSET C /\ T # {}
    <2>1. \A p \in C : Before(C, p) \in SUBSET C
      BY DEF Before
    <2>2. PICK p \in C : TRUE
      OBVIOUS
    <2>3. Before(C, p) \in T
      BY <2>2
    <2> QED BY <2>1, <2>3
  <1>3. \E x \in T : \A y \in T : <<y, x>> \notin R
    <2> HIDE DEF R, T
    <2> QED BY <1>1, <1>2, WFMin
  <1>4. PICK p \in C : \A y \in T : <<y, Before(C, p)>> \notin R
    BY <1>3
  <1>5. ASSUME NEW q \in C \ {p} PROVE better(p, q)
    <2>1. better(p, q) \/ better(q, p)
      BY DEF better
    <2>2. ASSUME better(q, p) PROVE FALSE
      <3>1. Before(C, q) \subseteq Before(C, p)
        BY <2>2 DEF Before, better
      <3>2. q \in Before(C, p) /\ q \notin Before(C, q)
        BY <2>2 DEF Before, better
      <3>3. <<Before(C, q), Before(C, p)>> \in R
        BY <3>1, <3>2 DEF StrictSubsetOrdering, Before
      <3> QED BY <1>4, <3>3
    <2> QED BY <2>1, <2>2
  <1> QED BY <1>5

\* The policy that governs a scope is the first of the ladder.
LEMMA WinnerIsFirst ==
    ASSUME NEW doc, NEW ps, NEW drafts, NEW L, CompiledTo(doc, ps, drafts, L), NEW key,
           NEW p \in ps, matches_scope(p, key)
    PROVE  p = select(ps, key) \/ Above(Ladder(select(ps, key)), Ladder(p))
  <1>0. /\ L \in Nat /\ ps = {drafts[i] : i \in 1 .. L}
        /\ \A i, j \in 1 .. L : drafts[i].id = drafts[j].id => i = j
    BY DEF CompiledTo
  <1>1. PICK owned : owned = tenant_prefixes(doc)
    OBVIOUS
  <1>2. \A q \in ps : Loaded(q) /\ validate(q, owned)
    <2>1. \A i \in 1 .. L : Loaded(drafts[i]) /\ validate(drafts[i], owned)
      BY <1>1 DEF CompiledTo
    <2> QED BY <1>0, <2>1
  <1>3. \A q, r \in ps : q.id = r.id => q = r
    BY <1>0
  <1>4. PICK C : C = {q \in ps : matches_scope(q, key)}
    OBVIOUS
  <1>5. C \subseteq ps /\ p \in C /\ \A q \in C : matches_scope(q, key)
    BY <1>4
  <1>6. IsFiniteSet(C)
    <2>1. PICK D : D = 1 .. L
      OBVIOUS
    <2>2. IsFiniteSet(D)
      BY <1>0, <2>1, FS_Interval
    <2>3. PICK f : f = [i \in D |-> drafts[i]]
      OBVIOUS
    <2>4. f \in Surjection(D, ps)
      BY <1>0, <2>1, <2>3 DEF Surjection
    <2>5. IsFiniteSet(ps)
      BY <2>2, <2>4, FS_Surjection
    <2> QED BY <1>5, <2>5, FS_Subset
  <1>7. \A q \in C : specificity(q) \in Int /\ q.priority \in Int /\ q.id \in Int
    <2>1. SUFFICES ASSUME NEW q \in C PROVE specificity(q) \in Int /\ q.priority \in Int /\ q.id \in Int
      OBVIOUS
    <2>2. Loaded(q) /\ validate(q, owned)
      BY <1>2, <1>5
    <2> QED BY <2>2, SpecificityIsInt DEF Loaded
  <1>8. \E w \in C : \A q \in C \ {w} : better(w, q)
    BY <1>3, <1>5, <1>6, <1>7, OneIsBest
  <1>9. PICK w : w = select(ps, key)
    OBVIOUS
  <1>10. w = CHOOSE w1 \in C : \A q \in C \ {w1} : better(w1, q)
    BY <1>4, <1>5, <1>9 DEF select
  <1>11. w \in C /\ \A q \in C \ {w} : better(w, q)
    BY <1>8, <1>10
  <1>12. CASE p # w
    <2>1. better(w, p) /\ matches_scope(w, key) /\ Loaded(w) /\ validate(w, owned)
      BY <1>2, <1>5, <1>11, <1>12
    <2>2. Loaded(p) /\ validate(p, owned)
      BY <1>2
    <2>3. Above(Ladder(w), Ladder(p))
      BY <2>1, <2>2, BetterIsAbove
    <2> QED BY <1>9, <2>3
  <1> QED BY <1>9, <1>12

\* A tenant's policy on addresses stays within addresses the document gives it.
LEMMA StaysWithinTenant ==
    ASSUME NEW doc \in PolicyDocuments, NEW p, Loaded(p), tenant_prefixes(doc) # Nobody,
           validate(p, tenant_prefixes(doc))
    PROVE  WithinItsTenant(doc, p)
  <1> DEFINE listed == UNION {{[tenant |-> t.tenant, prefix |-> c] : c \in Seqs!ToSet(t.prefixes)} :
                                 t \in Seqs!ToSet(doc.tenants)}
             len == IF p.selector.kind = "host" THEN MaxBits[p.selector.addr.family] ELSE p.selector.len
  <1> SUFFICES ASSUME p.selector.kind \in {"host", "network"}, p.tenant # "*", listed # {}
                 PROVE  \E o \in listed :
                           /\ o.tenant = p.tenant
                           /\ AddressesIn(p.selector.addr, len) \subseteq AddressesIn(o.prefix.addr, o.prefix.len)
    BY Zenon DEF WithinItsTenant
  <1>1. PICK owned : owned = tenant_prefixes(doc)
    OBVIOUS
  <1>2. /\ owned = UNION {{[tenant |-> t.tenant, prefix |-> parse_cidr(c)] : c \in Seqs!ToSet(t.prefixes)} :
                             t \in Seqs!ToSet(doc.tenants)}
        /\ \A o \in owned : o.prefix # Nobody
    <2>1. PICK all : all = UNION {{[tenant |-> t.tenant, prefix |-> parse_cidr(c)] : c \in Seqs!ToSet(t.prefixes)} :
                                    t \in Seqs!ToSet(doc.tenants)}
      OBVIOUS
    <2>2. owned = IF Cardinality(UNION {{i} \X DOMAIN doc.tenants[i].prefixes : i \in DOMAIN doc.tenants})
                        > MAX_TENANT_PREFIXES \/ (\E o \in all : o.prefix = Nobody)
                  THEN Nobody ELSE all
      BY <1>1, <2>1, Zenon DEF tenant_prefixes
    <2>3. owned = all /\ ~ \E o \in all : o.prefix = Nobody
      BY <1>1, <2>2, Zenon
    <2> QED BY <2>1, <2>3
  <1>3. owned # {}
    <2>1. PICK t \in Seqs!ToSet(doc.tenants) : Seqs!ToSet(t.prefixes) # {}
      OBVIOUS
    <2>2. PICK c \in Seqs!ToSet(t.prefixes) : TRUE
      BY <2>1
    <2>3. [tenant |-> t.tenant, prefix |-> parse_cidr(c)] \in owned
      BY <1>2, <2>1, <2>2
    <2> QED BY <2>3
  <1>4. PICK addr : addr = p.selector.addr /\ addr \in Address
    BY DEF Loaded
  <1>5. covers(owned, p.tenant, addr, len)
    <2>1. validate_prefix_ownership(p.tenant, p.selector, owned)
      BY <1>1 DEF validate
    <2> QED BY <1>3, <1>4, <2>1 DEF validate_prefix_ownership, WILDCARD_TENANT
  <1>6. PICK o \in owned : o.tenant = p.tenant /\ o.prefix.len <= len /\ prefix_contains(o.prefix, addr)
    BY <1>5 DEF covers
  <1>7. PICK t \in Seqs!ToSet(doc.tenants) :
            \E c \in Seqs!ToSet(t.prefixes) : o = [tenant |-> t.tenant, prefix |-> parse_cidr(c)]
    BY <1>2
  <1>8. PICK c \in Seqs!ToSet(t.prefixes) : o = [tenant |-> t.tenant, prefix |-> parse_cidr(c)]
    BY <1>7
  <1>9. c.addr \in Address /\ c.len \in Nat
    <2>1. PICK i \in DOMAIN doc.tenants : t = doc.tenants[i]
      BY <1>7 DEF Seqs!ToSet
    <2>2. TenantEntry(t)
      BY <2>1, DocumentsAssumption
    <2>3. PICK j \in DOMAIN t.prefixes : c = t.prefixes[j]
      BY <1>8 DEF Seqs!ToSet
    <2> QED BY <2>2, <2>3 DEF TenantEntry
  <1>10. MaxBits[c.addr.family] \in Nat
    BY <1>9, Widths DEF Address
  <1>11. c.len <= MaxBits[c.addr.family] /\ o = [tenant |-> t.tenant, prefix |-> c]
    <2>1. parse_cidr(c) # Nobody
      <3>1. o.prefix = parse_cidr(c) /\ o.prefix # Nobody
        BY <1>2, <1>6, <1>8
      <3> QED BY <3>1
    <2>2. parse_cidr(c) = c /\ ~ (c.len > MaxBits[c.addr.family])
      BY <2>1 DEF parse_cidr
    <2> QED BY <1>8, <1>9, <1>10, <2>2
  <1>12. o \in listed
    BY <1>8, <1>11, <1>7
  <1>13. PICK w, fam : fam = addr.family /\ fam \in DOMAIN MaxBits /\ w = MaxBits[fam] /\ w \in Nat
    BY <1>4, Widths DEF Address
  <1>14. c.addr.family = fam /\ SubSeq(c.addr.bits, 1, c.len) = SubSeq(addr.bits, 1, c.len) /\ c.len <= len
    BY <1>6, <1>11, <1>13 DEF prefix_contains
  <1>15. addr.bits \in [1 .. w -> {0, 1}] /\ c.addr.bits \in [1 .. w -> {0, 1}]
    BY <1>4, <1>9, <1>13, <1>14 DEF Address
  <1>16. len \in Nat /\ c.len \in 0 .. w
    <2>1. c.len \in 0 .. w
      BY <1>11, <1>9, <1>13, <1>14
    <2>2. len \in Nat
      BY <1>4, <1>13 DEF Loaded
    <2> QED BY <2>1, <2>2
  <1>17. ASSUME NEW i \in 1 .. c.len PROVE c.addr.bits[i] = addr.bits[i]
    <2>0. PICK n \in 0 .. w : n = c.len
      BY <1>16
    <2>1. PICK a, b \in [1 .. w -> {0, 1}] : a = c.addr.bits /\ b = addr.bits
      BY <1>15
    <2>2. SubSeq(a, 1, n)[i] = a[i] /\ SubSeq(b, 1, n)[i] = b[i]
      BY <1>13, <2>0, <2>1
    <2> QED BY <1>14, <2>0, <2>1, <2>2
  <1>18. AddressesIn(addr, len) \subseteq AddressesIn(c.addr, c.len)
    BY <1>13, <1>14, <1>16, <1>17 DEF AddressesIn
  <1> QED BY <1>4, <1>6, <1>11, <1>12, <1>18

\* What is in force was compiled from the document, which was one of those there are.
PoliciesInv ==
    detection # Nobody =>
        document \in PolicyDocuments /\ from_json(document) /\ detection = compile(document)

\* Policies apply as they are written, for any documents: what governs a scope is the first
\* of the ladder among the policies that match, a tenant's policy on addresses stays within
\* the addresses the document gives it, and what is loaded loads again as the same policies
\* (config.rs, compile and to_document; precedence.rs, select).
THEOREM PoliciesApply == PoliciesSpec => []PoliciesApplyAsWritten
  <1>1. PoliciesInit => PoliciesInv
    BY DEF PoliciesInit, PoliciesInv
  <1>2. PoliciesInv /\ [PoliciesNext]_pvars => PoliciesInv'
    <2>1. SUFFICES ASSUME PoliciesInv, [PoliciesNext]_pvars PROVE PoliciesInv'
      OBVIOUS
    <2>2. CASE UNCHANGED pvars
      BY <2>1, <2>2 DEF PoliciesInv, pvars
    <2>3. CASE PoliciesNext
      <3>1. PICK doc \in PolicyDocuments : document' = doc /\ detection' = load_policies(doc)
        BY <2>3 DEF PoliciesNext, load_policy_file
      <3> QED BY <3>1 DEF load_policies, PoliciesInv
    <2> QED BY <2>1, <2>2, <2>3
  <1>3. PoliciesInv => PoliciesApplyAsWritten
    <2>1. SUFFICES ASSUME PoliciesInv, detection # Nobody PROVE PoliciesApplyAsWritten
      BY DEF PoliciesApplyAsWritten
    <2>2. PICK doc \in PolicyDocuments : doc = document /\ from_json(doc)
      BY <2>1 DEF PoliciesInv
    <2>3. PICK ps : ps = detection /\ ps = compile(doc) /\ ps # Nobody
      BY <2>1, <2>2 DEF PoliciesInv
    <2>4. PICK drafts, L : CompiledTo(doc, ps, drafts, L)
      BY <2>3, Compiles
    <2>5. ASSUME NEW key \in ScopeKeys, NEW p \in ps, matches_scope(p, key)
          PROVE  p = select(ps, key) \/ Above(Ladder(select(ps, key)), Ladder(p))
      BY <2>4, <2>5, WinnerIsFirst
    <2>6. ASSUME NEW p \in ps PROVE WithinItsTenant(doc, p)
      <3>1. PICK i \in 1 .. L : p = drafts[i]
        BY <2>4 DEF CompiledTo
      <3>2. tenant_prefixes(doc) # Nobody /\ Loaded(p) /\ validate(p, tenant_prefixes(doc))
        BY <2>4, <3>1 DEF CompiledTo
      <3> QED BY <3>2, StaysWithinTenant
    <2>7. load_policies(to_document(ps)) = ps
      BY <2>2, <2>4, LoadsBack
    <2>8. \A key \in ScopeKeys : \A p \in {q \in ps : matches_scope(q, key)} :
              p = select(ps, key) \/ Above(Ladder(select(ps, key)), Ladder(p))
      BY <2>5
    <2> QED BY <2>2, <2>3, <2>6, <2>7, <2>8, Zenon DEF PoliciesApplyAsWritten
  <1> QED BY <1>1, <1>2, <1>3, PTL DEF PoliciesSpec

------------------------------------------------------------------------------
(* The collector's template caches.                                        *)

\* What parse_template_records has after each record.
TemplateRounds(after, cache, records, L) ==
    /\ after[0] = [ok |-> TRUE, cache |-> cache]
    /\ \A n \in 1 .. L : after[n] = ParseTemplate(after[n - 1], records[n])
    /\ parse_template_records(cache, records) = after[L]

\* The loop of parse_template_records does what its definition says.
LEMMA ParseLoop ==
    ASSUME NEW cache, NEW records, NEW L \in Nat, L = Len(records)
    PROVE  \E after : TemplateRounds(after, cache, records, L)
  <1> DEFINE Round(f, n) == IF n = 0 THEN [ok |-> TRUE, cache |-> cache]
                            ELSE ParseTemplate(f[n - 1], records[n])
             Runs(m) == \E f : f = [n \in 0 .. m |-> Round(f, n)]
             after == CHOOSE f : f = [n \in 0 .. L |-> Round(f, n)]
  <1>1. Runs(L)
    <2> DEFINE T == {m \in Nat : ~Runs(m)}
    <2> SUFFICES ASSUME T # {} PROVE FALSE
      OBVIOUS
    <2>0. T \subseteq Nat
      OBVIOUS
    <2>1. PICK m \in T : \A k \in T : m <= k
      <3> HIDE DEF T
      <3> QED BY <2>0, LeastNumber
    <2>2. CASE m = 0
      <3>1. PICK f : f = [n \in 0 .. 0 |-> [ok |-> TRUE, cache |-> cache]]
        OBVIOUS
      <3>2. f = [n \in 0 .. 0 |-> Round(f, n)]
        BY <3>1
      <3> QED BY <2>2, <3>2
    <2>3. CASE m # 0
      <3>1. m - 1 \in Nat /\ m - 1 \notin T
        <4> HIDE DEF T
        <4> QED BY <2>0, <2>1, <2>3
      <3>2. PICK f : f = [n \in 0 .. m - 1 |-> Round(f, n)]
        BY <3>1
      <3>3. PICK g : g = [n \in 0 .. m |-> IF n = m THEN ParseTemplate(f[m - 1], records[m]) ELSE f[n]]
        OBVIOUS
      <3>4. ASSUME NEW n \in 0 .. m PROVE g[n] = Round(g, n)
        <4>1. CASE n = m
          <5>1. g[m - 1] = f[m - 1]
            BY <3>1, <3>3
          <5> QED BY <2>3, <3>3, <4>1, <5>1
        <4>2. CASE n # m
          <5>1. n \in 0 .. m - 1 /\ g[n] = f[n] /\ f[n] = Round(f, n)
            <6>1. n \in 0 .. m - 1
              BY <2>0, <4>2
            <6> HIDE DEF Round
            <6>2. g[n] = f[n]
              BY <3>3, <4>2
            <6>3. f[n] = Round(f, n)
              BY <3>2, <6>1
            <6> QED BY <6>1, <6>2, <6>3
          <5>2. n # 0 => g[n - 1] = f[n - 1]
            BY <3>3, <4>2
          <5> QED BY <5>1, <5>2
        <4> QED BY <4>1, <4>2
      <3>5. g = [n \in 0 .. m |-> Round(g, n)]
        <4> HIDE DEF Round
        <4> QED BY <3>3, <3>4
      <3> HIDE DEF Round
      <3> QED BY <2>1, <3>5
    <2> QED BY <2>2, <2>3
  <1>2. after = [n \in 0 .. L |-> Round(after, n)]
    <2> HIDE DEF Round
    <2> QED BY <1>1
  <1>3. \A n \in 0 .. L : after[n] = Round(after, n)
    <2> HIDE DEF Round, after
    <2> QED BY <1>2
  <1>4. parse_template_records(cache, records) = after[L]
    BY DEF parse_template_records
  <1> HIDE DEF after
  <1>5. after[0] = Round(after, 0) /\ \A n \in 1 .. L : after[n] = Round(after, n) /\ n # 0
    <2> HIDE DEF Round
    <2> QED BY <1>3
  <1>6. TemplateRounds(after, cache, records, L)
    BY <1>4, <1>5 DEF TemplateRounds
  <1> QED BY <1>6

\* What decode_message has after each of a message's sets.
Rounds(after, cache, message, L) ==
    /\ after[0] = [ok |-> TRUE, cache |-> cache, records |-> << >>]
    /\ \A n \in 1 .. L : after[n] = DecodeSet(after[n - 1], message.sets[n])
    /\ after[L] = [ok |-> after[L].ok, cache |-> after[L].cache, records |-> after[L].records]
          => /\ decode_message(cache, message).cache = after[L].cache
             /\ decode_message(cache, message).records \in {after[L].records, << >>}

\* The loop of decode_message does what its definition says.
LEMMA DecodeLoop ==
    ASSUME NEW cache, NEW message, NEW L \in Nat, L = Len(message.sets)
    PROVE  \E after : Rounds(after, cache, message, L)
  <1> DEFINE Round(f, n) == IF n = 0 THEN [ok |-> TRUE, cache |-> cache, records |-> << >>]
                            ELSE DecodeSet(f[n - 1], message.sets[n])
             Runs(m) == \E f : f = [n \in 0 .. m |-> Round(f, n)]
             after == CHOOSE f : f = [n \in 0 .. L |-> Round(f, n)]
  <1>1. Runs(L)
    <2> DEFINE T == {m \in Nat : ~Runs(m)}
    <2> SUFFICES ASSUME T # {} PROVE FALSE
      OBVIOUS
    <2>0. T \subseteq Nat
      OBVIOUS
    <2>1. PICK m \in T : \A k \in T : m <= k
      <3> HIDE DEF T
      <3> QED BY <2>0, LeastNumber
    <2>2. CASE m = 0
      <3>1. PICK f : f = [n \in 0 .. 0 |-> [ok |-> TRUE, cache |-> cache, records |-> << >>]]
        OBVIOUS
      <3>2. f = [n \in 0 .. 0 |-> Round(f, n)]
        BY <3>1
      <3> QED BY <2>2, <3>2
    <2>3. CASE m # 0
      <3>1. m - 1 \in Nat /\ m - 1 \notin T
        <4> HIDE DEF T
        <4> QED BY <2>0, <2>1, <2>3
      <3>2. PICK f : f = [n \in 0 .. m - 1 |-> Round(f, n)]
        BY <3>1
      <3>3. PICK g : g = [n \in 0 .. m |-> IF n = m THEN DecodeSet(f[m - 1], message.sets[m]) ELSE f[n]]
        OBVIOUS
      <3>4. ASSUME NEW n \in 0 .. m PROVE g[n] = Round(g, n)
        <4>1. CASE n = m
          <5>1. g[m - 1] = f[m - 1]
            BY <3>1, <3>3
          <5> QED BY <2>3, <3>3, <4>1, <5>1
        <4>2. CASE n # m
          <5>1. n \in 0 .. m - 1 /\ g[n] = f[n] /\ f[n] = Round(f, n)
            <6>1. n \in 0 .. m - 1
              BY <2>0, <4>2
            <6> HIDE DEF Round
            <6>2. g[n] = f[n]
              BY <3>3, <4>2
            <6>3. f[n] = Round(f, n)
              BY <3>2, <6>1
            <6> QED BY <6>1, <6>2, <6>3
          <5>2. n # 0 => g[n - 1] = f[n - 1]
            BY <3>3, <4>2
          <5> QED BY <5>1, <5>2
        <4> QED BY <4>1, <4>2
      <3>5. g = [n \in 0 .. m |-> Round(g, n)]
        <4> HIDE DEF Round
        <4> QED BY <3>3, <3>4
      <3> HIDE DEF Round
      <3> QED BY <2>1, <3>5
    <2> QED BY <2>2, <2>3
  <1>2. after = [n \in 0 .. L |-> Round(after, n)]
    <2> HIDE DEF Round
    <2> QED BY <1>1
  <1>3. \A n \in 0 .. L : after[n] = Round(after, n)
    <2> HIDE DEF Round, after
    <2> QED BY <1>2
  <1>4. decode_message(cache, message) = [after[L] EXCEPT !.records = IF after[L].ok THEN @ ELSE << >>]
    BY DEF decode_message
  <1> HIDE DEF after
  <1>5. after[0] = Round(after, 0) /\ \A n \in 1 .. L : after[n] = Round(after, n) /\ n # 0
    <2> HIDE DEF Round
    <2> QED BY <1>3
  <1>6. ASSUME after[L] = [ok |-> after[L].ok, cache |-> after[L].cache, records |-> after[L].records]
        PROVE  /\ decode_message(cache, message).cache = after[L].cache
               /\ decode_message(cache, message).records \in {after[L].records, << >>}
    <2>1. PICK e, said : /\ e = after[L] /\ said \in {e.records, << >>}
                         /\ decode_message(cache, message) = [e EXCEPT !.records = said]
      BY <1>4
    <2> QED BY <1>6, <2>1
  <1>7. Rounds(after, cache, message, L)
    BY <1>5, <1>6 DEF Rounds
  <1> QED BY <1>7

\* A cache is accounted for: it holds templates, within the limits, and counts their fields.
Accounted(c) ==
    /\ c = [templates |-> c.templates, fields |-> c.fields, sampling |-> c.sampling]
    /\ c.templates = [id \in DOMAIN c.templates |-> c.templates[id]]
    /\ \A id \in DOMAIN c.templates : c.templates[id] \in Template
    /\ IsFiniteSet(DOMAIN c.templates) /\ Cardinality(DOMAIN c.templates) <= MAX_TEMPLATES
    /\ IsFiniteSet(FieldsHeld(c)) /\ c.fields = Cardinality(FieldsHeld(c))
    /\ c.fields <= MAX_TEMPLATE_FIELDS

\* The fields of every template but one.
Others(c, id) ==
    UNION {{i} \X DOMAIN c.templates[i].fields : i \in DOMAIN c.templates \ {id}}

LEMMA NewAccounted == Accounted(TemplateCache_new)
  <1>1. PICK c : c = TemplateCache_new
    OBVIOUS
  <1>2. c = [templates |-> << >>, fields |-> 0, sampling |-> Nothing]
    BY <1>1 DEF TemplateCache_new
  <1>3. DOMAIN c.templates = {} /\ c.fields = 0
    BY <1>2
  <1>4. FieldsHeld(c) = {}
    BY <1>3 DEF FieldsHeld
  <1>5. IsFiniteSet({}) /\ Cardinality({}) = 0
    BY FS_EmptySet
  <1>6. c.templates = [id \in DOMAIN c.templates |-> c.templates[id]]
    BY <1>2
  <1>7. c = [templates |-> c.templates, fields |-> c.fields, sampling |-> c.sampling]
    BY <1>2
  <1>8. 0 <= MAX_TEMPLATES /\ 0 <= MAX_TEMPLATE_FIELDS
    BY IpfixAssumption
  <1>9. Accounted(c)
    BY <1>3, <1>4, <1>5, <1>6, <1>7, <1>8, Zenon DEF Accounted
  <1> QED BY <1>1, <1>9

\* A template's own fields, as pairs of its id and their places.
LEMMA OwnFields ==
    ASSUME NEW id, NEW t \in Template
    PROVE  /\ IsFiniteSet({id} \X DOMAIN t.fields)
           /\ Cardinality({id} \X DOMAIN t.fields) = Len(t.fields)
           /\ Len(t.fields) \in Nat
  <1>1. PICK n : n = Len(t.fields)
    OBVIOUS
  <1>2. n \in Nat /\ DOMAIN t.fields = 1 .. n
    BY <1>1 DEF Template
  <1>3. IsFiniteSet(1 .. n) /\ Cardinality(1 .. n) = n
    BY <1>2, FS_Interval
  <1>4. PICK A, B : A = {id} /\ B = 1 .. n
    OBVIOUS
  <1>5. IsFiniteSet(B) /\ Cardinality(B) = n
    BY <1>3, <1>4, Zenon
  <1>6. IsFiniteSet(A) /\ Cardinality(A) = 1
    BY <1>4, FS_Singleton
  <1>7. IsFiniteSet(A \X B) /\ Cardinality(A \X B) = Cardinality(A) * Cardinality(B)
    BY <1>5, <1>6, FS_Product, Zenon
  <1>8. IsFiniteSet({id} \X (1 .. n)) /\ Cardinality({id} \X (1 .. n)) = 1 * n
    BY <1>4, <1>5, <1>6, <1>7, Zenon
  <1>9. 1 * n = n
    BY <1>2
  <1> QED BY <1>1, <1>2, <1>8, <1>9

\* Two finite sets with nothing in common.
LEMMA Disjoint ==
    ASSUME NEW A, NEW B, IsFiniteSet(A), IsFiniteSet(B), A \cap B = {}
    PROVE  /\ IsFiniteSet(A \cup B) /\ Cardinality(A) \in Nat /\ Cardinality(B) \in Nat
           /\ Cardinality(A \cup B) = Cardinality(A) + Cardinality(B)
  <1>1. Cardinality(A) \in Nat /\ Cardinality(B) \in Nat
    BY FS_CardinalityType
  <1>2. /\ IsFiniteSet(A \cup B)
        /\ Cardinality(A \cup B) = Cardinality(A) + Cardinality(B) - Cardinality(A \cap B)
    BY FS_Union
  <1>3. Cardinality(A \cap B) = 0
    BY FS_EmptySet
  <1> QED BY <1>1, <1>2, <1>3

\* What the other templates hold is what the count says, less the template's own.
LEMMA OthersCounted ==
    ASSUME NEW c, Accounted(c), NEW id
    PROVE  /\ IsFiniteSet(Others(c, id)) /\ FieldsOf(c, id) \in Nat /\ c.fields \in Nat
           /\ Cardinality(Others(c, id)) \in Nat
           /\ Cardinality(Others(c, id)) = c.fields - FieldsOf(c, id)
  <1>1. c.fields \in Nat /\ IsFiniteSet(FieldsHeld(c)) /\ c.fields = Cardinality(FieldsHeld(c))
    BY FS_CardinalityType DEF Accounted
  <1>2. CASE id \notin DOMAIN c.templates
    <2>1. Others(c, id) = FieldsHeld(c)
      BY <1>2 DEF Others, FieldsHeld
    <2>2. FieldsOf(c, id) = 0
      BY <1>2 DEF FieldsOf
    <2> QED BY <1>1, <2>1, <2>2
  <1>3. CASE id \in DOMAIN c.templates
    <2>1. PICK t : t = c.templates[id]
      OBVIOUS
    <2>2. t \in Template /\ FieldsOf(c, id) = Len(t.fields)
      BY <1>3, <2>1 DEF Accounted, FieldsOf
    <2>3. PICK A, B : A = Others(c, id) /\ B = {id} \X DOMAIN t.fields
      OBVIOUS
    <2>4. FieldsHeld(c) = A \cup B /\ A \cap B = {}
      BY <1>3, <2>1, <2>3 DEF FieldsHeld, Others
    <2>5. IsFiniteSet(A)
      BY <1>1, <2>4, FS_Subset
    <2>6. IsFiniteSet(B) /\ Cardinality(B) = Len(t.fields) /\ Len(t.fields) \in Nat
      BY <2>2, <2>3, OwnFields
    <2>7. Cardinality(A) \in Nat /\ Cardinality(A \cup B) = Cardinality(A) + Cardinality(B)
      BY <2>4, <2>5, <2>6, Disjoint
    <2>8. c.fields = Cardinality(A) + Len(t.fields)
      BY <1>1, <2>4, <2>6, <2>7
    <2> QED BY <1>1, <2>2, <2>3, <2>5, <2>6, <2>7, <2>8
  <1> QED BY <1>2, <1>3

\* A withdrawn template takes its fields with it.
LEMMA RemoveAccounted ==
    ASSUME NEW c, Accounted(c), NEW id
    PROVE  Accounted(remove(c, id))
  <1>1. PICK ids, ts, n : /\ ids = DOMAIN c.templates \ {id} /\ ts = [i \in ids |-> c.templates[i]]
                          /\ n = c.fields - FieldsOf(c, id)
    OBVIOUS
  <1>2. PICK d : d = [templates |-> ts, fields |-> n, sampling |-> c.sampling]
    OBVIOUS
  <1>3. Restrict(c.templates, ids) = ts
    BY <1>1 DEF Restrict
  <1>4. remove(c, id) = [c EXCEPT !.templates = ts, !.fields = n]
    BY <1>1, <1>3 DEF remove
  <1>5. d = remove(c, id)
    BY <1>2, <1>4 DEF Accounted
  <1>6. d.templates = ts /\ d.fields = n /\ d.sampling = c.sampling
    BY <1>2
  <1>7. DOMAIN ts = ids /\ ids \subseteq DOMAIN c.templates
    BY <1>1
  <1>8. FieldsHeld(d) = Others(c, id)
    BY <1>1, <1>6, <1>7 DEF FieldsHeld, Others
  <1>9. /\ IsFiniteSet(Others(c, id)) /\ Cardinality(Others(c, id)) = n
        /\ n \in Nat /\ n <= c.fields /\ c.fields \in Nat
    BY <1>1, OthersCounted
  <1>10. IsFiniteSet(ids) /\ Cardinality(ids) <= Cardinality(DOMAIN c.templates)
    BY <1>7, FS_Subset DEF Accounted
  <1>11. Cardinality(ids) \in Nat /\ Cardinality(DOMAIN c.templates) \in Nat
    BY <1>10, FS_CardinalityType DEF Accounted
  <1>12. Cardinality(ids) <= MAX_TEMPLATES /\ n <= MAX_TEMPLATE_FIELDS
    BY <1>9, <1>10, <1>11, IpfixAssumption DEF Accounted
  <1>13. \A i \in ids : ts[i] \in Template
    BY <1>1 DEF Accounted
  <1>14. d = [templates |-> d.templates, fields |-> d.fields, sampling |-> d.sampling]
    BY <1>2
  <1>15. ts = [i \in DOMAIN ts |-> ts[i]]
    BY <1>1
  <1>16. Accounted(d)
    BY <1>6, <1>7, <1>8, <1>9, <1>10, <1>12, <1>13, <1>14, <1>15 DEF Accounted
  <1> QED BY <1>5, <1>16

\* A template that is accepted, new or in the place of another, is counted once.
LEMMA InsertAccounted ==
    ASSUME NEW c, Accounted(c), NEW t \in Template
    PROVE  Accounted(insert(c, t).cache)
  <1>0. PICK id : id = t.id
    OBVIOUS
  <1>1. PICK ids, ts, n :
            /\ ids = DOMAIN c.templates \cup {id}
            /\ ts = [i \in ids |-> IF i = id THEN t ELSE c.templates[i]]
            /\ n = c.fields - FieldsOf(c, id) + Len(t.fields)
    OBVIOUS
  <1>2. CASE Cardinality(ids) > MAX_TEMPLATES \/ n > MAX_TEMPLATE_FIELDS
    <2>1. insert(c, t) = [ok |-> FALSE, cache |-> c]
      BY <1>0, <1>1, <1>2 DEF insert
    <2> QED BY <2>1
  <1>3. CASE ~(Cardinality(ids) > MAX_TEMPLATES \/ n > MAX_TEMPLATE_FIELDS)
    <2>1. PICK d : d = [templates |-> ts, fields |-> n, sampling |-> c.sampling]
      OBVIOUS
    <2>2. insert(c, t) = [ok |-> TRUE, cache |-> [c EXCEPT !.fields = n, !.templates = ts]]
      BY <1>0, <1>1, <1>3 DEF insert
    <2>3. d = insert(c, t).cache
      <3>1. insert(c, t).cache = [c EXCEPT !.fields = n, !.templates = ts]
        BY <2>2
      <3>2. c = [templates |-> c.templates, fields |-> c.fields, sampling |-> c.sampling]
        BY DEF Accounted
      <3>3. PICK b : b = [c EXCEPT !.fields = n]
        OBVIOUS
      <3>4. b = [templates |-> c.templates, fields |-> n, sampling |-> c.sampling]
        BY <3>2, <3>3
      <3>5. [b EXCEPT !.templates = ts] = d
        BY <2>1, <3>4
      <3> QED BY <3>1, <3>3, <3>5
    <2>4. d.templates = ts /\ d.fields = n /\ d.sampling = c.sampling
      BY <2>1
    <2>5. DOMAIN ts = ids /\ ts[id] = t /\ \A i \in ids \ {id} : ts[i] = c.templates[i]
      BY <1>1
    <2>6. PICK A, B : A = Others(c, id) /\ B = {id} \X DOMAIN t.fields
      OBVIOUS
    <2>7. FieldsHeld(d) = A \cup B /\ A \cap B = {}
      <3>1. ids \ {id} = DOMAIN c.templates \ {id} /\ id \in ids
        BY <1>1
      <3>2. A = UNION {{i} \X DOMAIN ts[i].fields : i \in ids \ {id}}
        BY <2>5, <2>6, <3>1 DEF Others
      <3>3. FieldsHeld(d) = UNION {{i} \X DOMAIN ts[i].fields : i \in ids}
        BY <2>4, <2>5 DEF FieldsHeld
      <3>4. B = {id} \X DOMAIN ts[id].fields
        BY <2>5, <2>6
      <3>5. FieldsHeld(d) = A \cup B
        BY <3>1, <3>2, <3>3, <3>4
      <3>6. A \cap B = {}
        BY <3>2, <3>4
      <3> QED BY <3>5, <3>6
    <2>8. /\ IsFiniteSet(A) /\ Cardinality(A) = c.fields - FieldsOf(c, id)
          /\ Cardinality(A) \in Nat /\ c.fields \in Nat /\ FieldsOf(c, id) \in Nat
      BY <2>6, OthersCounted
    <2>9. IsFiniteSet(B) /\ Cardinality(B) = Len(t.fields) /\ Len(t.fields) \in Nat
      BY <2>6, OwnFields
    <2>10. IsFiniteSet(A \cup B) /\ Cardinality(A \cup B) = Cardinality(A) + Cardinality(B)
      BY <2>7, <2>8, <2>9, Disjoint
    <2>11. IsFiniteSet(FieldsHeld(d)) /\ Cardinality(FieldsHeld(d)) = n /\ n \in Nat
      BY <1>1, <2>7, <2>8, <2>9, <2>10
    <2>12. IsFiniteSet(ids)
      BY <1>1, FS_AddElement DEF Accounted
    <2>13. Cardinality(ids) \in Nat
      BY <2>12, FS_CardinalityType
    <2>14. Cardinality(ids) <= MAX_TEMPLATES /\ n <= MAX_TEMPLATE_FIELDS
      BY <1>3, <2>11, <2>13, IpfixAssumption
    <2>15. \A i \in ids : ts[i] \in Template
      BY <1>1, <2>5 DEF Accounted
    <2>16. ts = [i \in DOMAIN ts |-> ts[i]]
      BY <1>1
    <2>17. d = [templates |-> d.templates, fields |-> d.fields, sampling |-> d.sampling]
      BY <2>1
    <2>18. Accounted(d)
      BY <2>4, <2>5, <2>11, <2>12, <2>14, <2>15, <2>16, <2>17 DEF Accounted
    <2> QED BY <2>3, <2>18
  <1> QED BY <1>2, <1>3

\* A template record, whatever it does, leaves an accounted cache; so does a template set,
\* also when it fails half-way.
LEMMA ParseTemplateAccounted ==
    ASSUME NEW acc, Accounted(acc.cache), NEW t \in Template
    PROVE  Accounted(ParseTemplate(acc, t).cache)
  <1>1. CASE ~acc.ok
    <2>1. ParseTemplate(acc, t) = acc
      BY <1>1 DEF ParseTemplate
    <2> QED BY <2>1
  <1>2. CASE acc.ok /\ t.fields = << >>
    <2>1. PICK c : c = IF t.id \in {TEMPLATE_SET_ID, OPTIONS_TEMPLATE_SET_ID}
                       THEN clear(acc.cache) ELSE remove(acc.cache, t.id)
      OBVIOUS
    <2>2. ParseTemplate(acc, t) = [ok |-> TRUE, cache |-> c]
      BY <1>2, <2>1 DEF ParseTemplate
    <2>3. Accounted(c)
      BY <2>1, NewAccounted, RemoveAccounted DEF clear
    <2> QED BY <2>2, <2>3
  <1>3. CASE acc.ok /\ t.fields # << >> /\ min_record_len(t) = 0
    <2>1. ParseTemplate(acc, t) = [ok |-> FALSE, cache |-> acc.cache]
      BY <1>3 DEF ParseTemplate
    <2> QED BY <2>1
  <1>4. CASE acc.ok /\ t.fields # << >> /\ min_record_len(t) # 0
    <2>1. ParseTemplate(acc, t) = insert(acc.cache, t)
      BY <1>4 DEF ParseTemplate
    <2> QED BY <2>1, InsertAccounted
  <1> QED BY <1>1, <1>2, <1>3, <1>4

LEMMA ParseAccounted ==
    ASSUME NEW c, Accounted(c), NEW records \in Seq(Template)
    PROVE  Accounted(parse_template_records(c, records).cache)
  <1>1. PICK L : L = Len(records)
    OBVIOUS
  <1>2. L \in Nat /\ \A n \in 1 .. L : records[n] \in Template
    BY <1>1
  <1>3. PICK after : TemplateRounds(after, c, records, L)
    BY <1>1, <1>2, ParseLoop
  <1> DEFINE good == {n \in 0 .. L : Accounted(after[n].cache)}
  <1>6. 0 \in good
    BY <1>2, <1>3 DEF TemplateRounds
  <1>7. ASSUME NEW n \in 1 .. L, n - 1 \in good PROVE n \in good
    <2>1. after[n] = ParseTemplate(after[n - 1], records[n])
      BY <1>3 DEF TemplateRounds
    <2>2. Accounted(after[n - 1].cache)
      BY <1>7
    <2>3. Accounted(after[n].cache)
      BY <1>2, <2>1, <2>2, ParseTemplateAccounted
    <2> QED BY <2>3
  <1>8. L \in good
    <2>1. good \in SUBSET (0 .. L)
      OBVIOUS
    <2> HIDE DEF good
    <2> QED BY <1>2, <1>6, <1>7, <2>1, LoopKeeps
  <1> QED BY <1>3, <1>8 DEF TemplateRounds

\* What decoding has at each set: a full record with an accounted cache.
Decoded(acc) ==
    /\ acc = [ok |-> acc.ok, cache |-> acc.cache, records |-> acc.records]
    /\ Accounted(acc.cache)

\* The sets a router sends: the template sets carry templates.
Sound(sets) ==
    /\ sets \in Seq(Range(sets))
    /\ \A set \in Range(sets) :
          TemplateSet(set) => set.body \in Seq(Template)

\* Options records change what is known of the sampling, and no template.
LEMMA ObserveAccounted ==
    ASSUME NEW c, Accounted(c), NEW records
    PROVE  Accounted(observe_options_data(c, records))
  <1>1. PICK d : d = observe_options_data(c, records)
    OBVIOUS
  <1>2. c = [templates |-> c.templates, fields |-> c.fields, sampling |-> c.sampling]
    BY DEF Accounted
  <1>3. d = c \/ \E v : d = [c EXCEPT !.sampling = v]
    BY <1>1 DEF observe_options_data
  <1>4. CASE \E v : d = [c EXCEPT !.sampling = v]
    <2>1. PICK v : d = [c EXCEPT !.sampling = v]
      BY <1>4
    <2>2. d = [templates |-> c.templates, fields |-> c.fields, sampling |-> v]
      BY <1>2, <2>1
    <2>3. d.templates = c.templates /\ d.fields = c.fields
          /\ d = [templates |-> d.templates, fields |-> d.fields, sampling |-> d.sampling]
      BY <2>2
    <2>4. FieldsHeld(d) = FieldsHeld(c)
      BY <2>3 DEF FieldsHeld
    <2>5. Accounted(d)
      BY <2>3, <2>4 DEF Accounted
    <2> QED BY <1>1, <2>5
  <1> QED BY <1>1, <1>3, <1>4

LEMMA DecodeSetAccounted ==
    ASSUME NEW acc, Decoded(acc), NEW set,
           TemplateSet(set) => set.body \in Seq(Template)
    PROVE  Decoded(DecodeSet(acc, set))
  <1>0. acc = [ok |-> acc.ok, cache |-> acc.cache, records |-> acc.records] /\ Accounted(acc.cache)
    BY DEF Decoded
  <1>1. CASE ~acc.ok
    <2>1. DecodeSet(acc, set) = acc
      BY <1>1 DEF DecodeSet
    <2> QED BY <2>1
  <1>2. CASE acc.ok /\ set.malformed
    <2>1. PICK d : d = [acc EXCEPT !.ok = FALSE]
      OBVIOUS
    <2>2. DecodeSet(acc, set) = d
      BY <1>2, <2>1 DEF DecodeSet
    <2>3. d = [ok |-> FALSE, cache |-> acc.cache, records |-> acc.records]
      BY <1>0, <2>1
    <2>4. Decoded(d)
      BY <1>0, <2>3 DEF Decoded
    <2> QED BY <2>2, <2>4
  <1>3. CASE acc.ok /\ ~set.malformed /\ TemplateSet(set)
    <2>1. PICK ok, cache : LET parsed == parse_template_records(acc.cache, set.body)
                           IN  ok = parsed.ok /\ cache = parsed.cache
      OBVIOUS
    <2>2. PICK d : d = [acc EXCEPT !.ok = ok, !.cache = cache]
      OBVIOUS
    <2>3. DecodeSet(acc, set) = d
      BY <1>3, <2>1, <2>2 DEF DecodeSet
    <2>4. d = [ok |-> ok, cache |-> cache, records |-> acc.records]
      <3>1. PICK b : b = [acc EXCEPT !.ok = ok]
        OBVIOUS
      <3>2. b = [ok |-> ok, cache |-> acc.cache, records |-> acc.records]
        BY <1>0, <3>1
      <3>3. d = [b EXCEPT !.cache = cache]
        BY <2>2, <3>1
      <3> QED BY <3>2, <3>3
    <2>5. Accounted(cache)
      BY <1>0, <1>3, <2>1, ParseAccounted
    <2>6. Decoded(d)
      BY <2>4, <2>5 DEF Decoded
    <2> QED BY <2>3, <2>6
  <1>4. CASE acc.ok /\ ~set.malformed /\ ~TemplateSet(set)
    <2>1. CASE set.id < MIN_DATA_SET_ID \/ set.id \notin DOMAIN acc.cache.templates
      <3>1. DecodeSet(acc, set) = acc
        BY <1>4, <2>1 DEF DecodeSet
      <3> QED BY <3>1
    <2>2. CASE ~(set.id < MIN_DATA_SET_ID \/ set.id \notin DOMAIN acc.cache.templates)
      <3>1. PICK template, records, cache, all :
              /\ template = acc.cache.templates[set.id]
              /\ records = decode_data_set(template, set.body)
              /\ cache = IF template.scope > 0 THEN observe_options_data(acc.cache, records) ELSE acc.cache
              /\ all = acc.records \o records
        OBVIOUS
      <3>2. PICK d : d = [acc EXCEPT !.records = all, !.cache = cache]
        OBVIOUS
      <3>3. DecodeSet(acc, set) = d
        BY <1>4, <2>2, <3>1, <3>2 DEF DecodeSet
      <3>4. d = [ok |-> acc.ok, cache |-> cache, records |-> all]
        <4>1. PICK b : b = [acc EXCEPT !.records = all]
          OBVIOUS
        <4>2. b = [ok |-> acc.ok, cache |-> acc.cache, records |-> all]
          BY <1>0, <4>1
        <4>3. d = [b EXCEPT !.cache = cache]
          BY <3>2, <4>1
        <4> QED BY <4>2, <4>3
      <3>5. Accounted(cache)
        BY <1>0, <3>1, ObserveAccounted
      <3>6. Decoded(d)
        BY <3>4, <3>5 DEF Decoded
      <3> QED BY <3>3, <3>6
    <2> QED BY <2>1, <2>2
  <1> QED BY <1>1, <1>2, <1>3, <1>4

\* A message, decoded to its end or to its first malformed set, leaves an accounted cache.
LEMMA DecodeAccounted ==
    ASSUME NEW c, Accounted(c), NEW message, Sound(message.sets)
    PROVE  Accounted(decode_message(c, message).cache)
  <1>1. PICK sets, L : sets = message.sets /\ L = Len(sets)
    OBVIOUS
  <1>2. /\ L \in Nat
        /\ \A n \in 1 .. L : TemplateSet(sets[n]) => sets[n].body \in Seq(Template)
    <2>1. sets \in Seq(Range(sets))
      BY <1>1 DEF Sound
    <2>2. L \in Nat /\ \A n \in 1 .. L : sets[n] \in Range(sets)
      BY <1>1, <2>1
    <2> QED BY <1>1, <2>2 DEF Sound
  <1>3. PICK after : Rounds(after, c, message, L)
    <2>1. L \in Nat /\ L = Len(message.sets)
      BY <1>1, <1>2
    <2> QED BY <2>1, DecodeLoop
  <1> DEFINE good == {n \in 0 .. L : Decoded(after[n])}
  <1>6. 0 \in good
    BY <1>2, <1>3 DEF Rounds, Decoded
  <1>7. ASSUME NEW n \in 1 .. L, n - 1 \in good PROVE n \in good
    <2>1. after[n] = DecodeSet(after[n - 1], sets[n])
      BY <1>1, <1>3 DEF Rounds
    <2>2. Decoded(after[n - 1])
      BY <1>7
    <2>3. Decoded(after[n])
      BY <1>2, <2>1, <2>2, DecodeSetAccounted
    <2> QED BY <2>3
  <1>8. L \in good
    <2>1. good \in SUBSET (0 .. L)
      OBVIOUS
    <2> HIDE DEF good
    <2> QED BY <1>2, <1>6, <1>7, <2>1, LoopKeeps
  <1>9. Decoded(after[L])
    BY <1>8
  <1> QED BY <1>3, <1>9 DEF Rounds, Decoded

------------------------------------------------------------------------------
(* What is read with the templates of one life of a router.                *)

\* A cache holds templates of one life only, and a sampling rate announced in it.
OfLife(c, k, life, rates) ==
    /\ \A id \in DOMAIN c.templates : c.templates[id] \in Announced(k, life) /\ c.templates[id].id = id
    /\ c.sampling \in rates \cup {Nothing}

\* A record whose every word is read as it was meant.
Right(r, rate) ==
    \E n \in Nat : /\ DOMAIN r \subseteq 1 .. n
                   /\ \A j \in DOMAIN r : /\ r[j].element = r[j].meant
                                          /\ r[j].element = "interval" => r[j].value = rate

AllRight(records, rate) == \E all : records \in Seq(all) /\ \A r \in all : Right(r, rate)

\* A set of one life.
SetOfLife(set, k, life, rate) ==
    /\ set.body \in Seq(Range(set.body))
    /\ TemplateSet(set) => /\ set.body \in Seq(Template)
                           /\ \A t \in Range(set.body) : min_record_len(t) # 0 => t \in Announced(k, life)
    /\ ~TemplateSet(set) =>
          \A t \in Announced(k, life) : t.id = set.id => Reads(t, set.body, rate)

LEMMA Quotient == ASSUME NEW a \in Nat, NEW b \in Nat \ {0} PROVE a \div b \in Nat
  OBVIOUS

LEMMA WideCounted ==
    ASSUME NEW t \in Template
    PROVE  Wide(t) \subseteq 1 .. Len(t.fields) /\ Len(t.fields) \in Nat /\ min_record_len(t) \in Nat
  <1>1. t.fields \in Seq(Element)
    BY DEF Template
  <1>2. Wide(t) \subseteq 1 .. Len(t.fields) /\ Len(t.fields) \in Nat
    BY <1>1 DEF Wide
  <1>3. IsFiniteSet(1 .. Len(t.fields))
    BY <1>2, FS_Interval
  <1>4. IsFiniteSet(Wide(t))
    BY <1>2, <1>3, FS_Subset
  <1>5. min_record_len(t) \in Nat
    BY <1>4, FS_CardinalityType DEF min_record_len
  <1> QED BY <1>2, <1>5

\* A set read with a template of its own life gives records read as they were meant.
LEMMA SetRight ==
    ASSUME NEW t \in Template, min_record_len(t) # 0, NEW W, NEW words \in Seq(W), NEW rate,
           Reads(t, words, rate)
    PROVE  AllRight(decode_data_set(t, words), rate)
  <1>1. PICK n, rs : /\ n = Len(words) \div min_record_len(t)
                     /\ rs = [i \in 1 .. n |-> decode_data_record(t, words, i)]
    OBVIOUS
  <1>2. n \in Nat
    <2>1. min_record_len(t) \in Nat \ {0} /\ Len(words) \in Nat
      BY WideCounted
    <2> QED BY <1>1, <2>1, Quotient
  <1>3. rs = decode_data_set(t, words)
    BY <1>1 DEF decode_data_set
  <1>4. rs \in Seq(Range(rs))
    <2>1. DOMAIN rs = 1 .. n /\ \A i \in 1 .. n : rs[i] \in Range(rs)
      BY <1>1 DEF Range
    <2>2. rs = [i \in 1 .. n |-> rs[i]]
      BY <1>1
    <2> HIDE DEF Range
    <2> QED BY <1>2, <2>1, <2>2
  <1>5. ASSUME NEW r \in Range(rs) PROVE Right(r, rate)
    <2>1. PICK i \in 1 .. n : r = decode_data_record(t, words, i)
      BY <1>1, <1>5 DEF Range
    <2>2. DOMAIN r = Wide(t)
      BY <2>1 DEF decode_data_record
    <2>3. \A f \in Range(r) : f.element = f.meant /\ (f.element = "interval" => f.value = rate)
      BY <1>3, <1>5 DEF Reads
    <2>4. \A j \in DOMAIN r : r[j] \in Range(r)
      BY DEF Range
    <2>5. PICK m : m = Len(t.fields)
      OBVIOUS
    <2>6. m \in Nat /\ DOMAIN r \subseteq 1 .. m
      BY <2>2, <2>5, WideCounted
    <2> QED BY <2>3, <2>4, <2>6 DEF Right
  <1> QED BY <1>3, <1>4, <1>5 DEF AllRight

LEMMA ValueRight ==
    ASSUME NEW r, NEW rate, Right(r, rate)
    PROVE  ValueOf(r, "interval", Nothing) \in {Nothing, rate}
  <1>1. PICK n \in Nat : /\ DOMAIN r \subseteq 1 .. n
                         /\ \A j \in DOMAIN r : r[j].element = "interval" => r[j].value = rate
    BY DEF Right
  <1>2. PICK said : said = {j \in DOMAIN r : r[j].element = "interval"}
    OBVIOUS
  <1>3. CASE said = {}
    BY <1>2, <1>3 DEF ValueOf
  <1>4. CASE said # {}
    <2>1. said \subseteq 0 .. n
      BY <1>1, <1>2
    <2>2. Max(said) \in said
      BY <1>4, <2>1, Latest
    <2>3. r[Max(said)].value = rate
      BY <1>1, <1>2, <2>2
    <2> QED BY <1>2, <1>4, <2>3 DEF ValueOf
  <1> QED BY <1>3, <1>4

LEMMA ObserveOfLife ==
    ASSUME NEW c, Accounted(c), NEW k, NEW life, NEW rates, NEW rate \in rates, OfLife(c, k, life, rates),
           NEW records, AllRight(records, rate)
    PROVE  OfLife(observe_options_data(c, records), k, life, rates)
  <1>1. PICK all : records \in Seq(all) /\ \A r \in all : Right(r, rate)
    BY DEF AllRight
  <1>2. PICK said : said = {i \in DOMAIN records : \E f \in Range(records[i]) : f.element = "interval"}
    OBVIOUS
  <1>3. CASE said = {}
    BY <1>2, <1>3 DEF observe_options_data
  <1>4. CASE said # {}
    <2>1. PICK n : n = Len(records)
      OBVIOUS
    <2>2. n \in Nat /\ said \subseteq 0 .. n
      BY <1>1, <1>2, <2>1
    <2>3. Max(said) \in said
      BY <1>4, <2>2, Latest
    <2>4. Max(said) \in DOMAIN records
      BY <1>2, <2>3
    <2>5. PICK r, v : r = records[Max(said)] /\ v = ValueOf(r, "interval", Nothing)
      OBVIOUS
    <2>6. Right(r, rate)
      BY <1>1, <2>4, <2>5
    <2>7. v \in {Nothing, rate}
      BY <2>5, <2>6, ValueRight
    <2>8. observe_options_data(c, records) = [c EXCEPT !.sampling = v]
      BY <1>2, <1>4, <2>5 DEF observe_options_data
    <2>9. c = [templates |-> c.templates, fields |-> c.fields, sampling |-> c.sampling]
      BY DEF Accounted
    <2>10. PICK d : d = [c EXCEPT !.sampling = v]
      OBVIOUS
    <2>11. d.templates = c.templates /\ d.sampling = v
      BY <2>9, <2>10
    <2>12. OfLife(d, k, life, rates)
      BY <2>7, <2>11 DEF OfLife
    <2> QED BY <2>8, <2>10, <2>12
  <1> QED BY <1>3, <1>4

LEMMA NewOfLife ==
    ASSUME NEW k, NEW life, NEW rates
    PROVE  OfLife(TemplateCache_new, k, life, rates)
  <1>1. PICK c : c = TemplateCache_new
    OBVIOUS
  <1>2. c = [templates |-> << >>, fields |-> 0, sampling |-> Nothing]
    BY <1>1 DEF TemplateCache_new
  <1>3. DOMAIN c.templates = {} /\ c.sampling = Nothing
    BY <1>2
  <1>4. OfLife(c, k, life, rates)
    BY <1>3 DEF OfLife
  <1> QED BY <1>1, <1>4

LEMMA RemoveOfLife ==
    ASSUME NEW c, Accounted(c), NEW k, NEW life, NEW rates, OfLife(c, k, life, rates), NEW id
    PROVE  OfLife(remove(c, id), k, life, rates)
  <1>1. PICK ids, ts, n : /\ ids = DOMAIN c.templates \ {id} /\ ts = [i \in ids |-> c.templates[i]]
                          /\ n = c.fields - FieldsOf(c, id)
    OBVIOUS
  <1>2. PICK d : d = [templates |-> ts, fields |-> n, sampling |-> c.sampling]
    OBVIOUS
  <1>3. Restrict(c.templates, ids) = ts
    BY <1>1 DEF Restrict
  <1>4. remove(c, id) = [c EXCEPT !.templates = ts, !.fields = n]
    BY <1>1, <1>3 DEF remove
  <1>5. d = remove(c, id)
    BY <1>2, <1>4 DEF Accounted
  <1>6. d.templates = ts /\ d.sampling = c.sampling
    BY <1>2
  <1>7. OfLife(d, k, life, rates)
    BY <1>1, <1>6 DEF OfLife
  <1> QED BY <1>5, <1>7

LEMMA InsertOfLife ==
    ASSUME NEW c, Accounted(c), NEW k, NEW life, NEW rates, OfLife(c, k, life, rates),
           NEW t \in Announced(k, life)
    PROVE  OfLife(insert(c, t).cache, k, life, rates)
  <1>0. PICK id : id = t.id
    OBVIOUS
  <1>1. PICK ids, ts, n :
            /\ ids = DOMAIN c.templates \cup {id}
            /\ ts = [i \in ids |-> IF i = id THEN t ELSE c.templates[i]]
            /\ n = c.fields - FieldsOf(c, id) + Len(t.fields)
    OBVIOUS
  <1>2. CASE Cardinality(ids) > MAX_TEMPLATES \/ n > MAX_TEMPLATE_FIELDS
    <2>1. insert(c, t) = [ok |-> FALSE, cache |-> c]
      BY <1>0, <1>1, <1>2 DEF insert
    <2> QED BY <2>1
  <1>3. CASE ~(Cardinality(ids) > MAX_TEMPLATES \/ n > MAX_TEMPLATE_FIELDS)
    <2>1. insert(c, t) = [ok |-> TRUE, cache |-> [c EXCEPT !.fields = n, !.templates = ts]]
      BY <1>0, <1>1, <1>3 DEF insert
    <2>2. c = [templates |-> c.templates, fields |-> c.fields, sampling |-> c.sampling]
      BY DEF Accounted
    <2>3. PICK b : b = [c EXCEPT !.fields = n]
      OBVIOUS
    <2>4. b = [templates |-> c.templates, fields |-> n, sampling |-> c.sampling]
      BY <2>2, <2>3
    <2>5. PICK d : d = [b EXCEPT !.templates = ts]
      OBVIOUS
    <2>6. d.templates = ts /\ d.sampling = c.sampling
      BY <2>4, <2>5
    <2>7. insert(c, t).cache = d
      BY <2>1, <2>3, <2>5
    <2>8. OfLife(d, k, life, rates)
      BY <1>0, <1>1, <2>6 DEF OfLife
    <2> QED BY <2>7, <2>8
  <1> QED BY <1>2, <1>3

LEMMA ParseTemplateOfLife ==
    ASSUME NEW acc, Accounted(acc.cache), NEW k, NEW life, NEW rates, OfLife(acc.cache, k, life, rates),
           NEW t, min_record_len(t) # 0 => t \in Announced(k, life)
    PROVE  OfLife(ParseTemplate(acc, t).cache, k, life, rates)
  <1>1. CASE ~acc.ok
    <2>1. ParseTemplate(acc, t) = acc
      BY <1>1 DEF ParseTemplate
    <2> QED BY <2>1
  <1>2. CASE acc.ok /\ t.fields = << >>
    <2>1. PICK c : c = IF t.id \in {TEMPLATE_SET_ID, OPTIONS_TEMPLATE_SET_ID}
                       THEN clear(acc.cache) ELSE remove(acc.cache, t.id)
      OBVIOUS
    <2>2. ParseTemplate(acc, t) = [ok |-> TRUE, cache |-> c]
      BY <1>2, <2>1 DEF ParseTemplate
    <2>3. OfLife(c, k, life, rates)
      BY <2>1, NewOfLife, RemoveOfLife DEF clear
    <2> QED BY <2>2, <2>3
  <1>3. CASE acc.ok /\ t.fields # << >> /\ min_record_len(t) = 0
    <2>1. ParseTemplate(acc, t) = [ok |-> FALSE, cache |-> acc.cache]
      BY <1>3 DEF ParseTemplate
    <2> QED BY <2>1
  <1>4. CASE acc.ok /\ t.fields # << >> /\ min_record_len(t) # 0
    <2>1. ParseTemplate(acc, t) = insert(acc.cache, t)
      BY <1>4 DEF ParseTemplate
    <2> QED BY <1>4, <2>1, InsertOfLife
  <1> QED BY <1>1, <1>2, <1>3, <1>4

LEMMA ParseOfLife ==
    ASSUME NEW c, Accounted(c), NEW k, NEW life, NEW rates, OfLife(c, k, life, rates),
           NEW records \in Seq(Template),
           \A t \in Range(records) : min_record_len(t) # 0 => t \in Announced(k, life)
    PROVE  OfLife(parse_template_records(c, records).cache, k, life, rates)
  <1>1. PICK L : L = Len(records)
    OBVIOUS
  <1>2. L \in Nat /\ \A n \in 1 .. L : records[n] \in Template /\ records[n] \in Range(records)
    BY <1>1 DEF Range
  <1>3. PICK after : TemplateRounds(after, c, records, L)
    BY <1>1, <1>2, ParseLoop
  <1> DEFINE good == {n \in 0 .. L : Accounted(after[n].cache) /\ OfLife(after[n].cache, k, life, rates)}
  <1>6. 0 \in good
    BY <1>2, <1>3 DEF TemplateRounds
  <1>7. ASSUME NEW n \in 1 .. L, n - 1 \in good PROVE n \in good
    <2>1. after[n] = ParseTemplate(after[n - 1], records[n])
      BY <1>3 DEF TemplateRounds
    <2>2. Accounted(after[n - 1].cache) /\ OfLife(after[n - 1].cache, k, life, rates)
      BY <1>7
    <2>3. Accounted(after[n].cache)
      BY <1>2, <2>1, <2>2, ParseTemplateAccounted
    <2>4. OfLife(after[n].cache, k, life, rates)
      BY <1>2, <2>1, <2>2, ParseTemplateOfLife
    <2> QED BY <2>3, <2>4
  <1>8. L \in good
    <2>1. good \in SUBSET (0 .. L)
      OBVIOUS
    <2> HIDE DEF good
    <2> QED BY <1>2, <1>6, <1>7, <2>1, LoopKeeps
  <1> QED BY <1>3, <1>8 DEF TemplateRounds

\* What decoding has at each set of a message of one life.
DecodedOfLife(acc, k, life, rates, rate) ==
    Decoded(acc) /\ OfLife(acc.cache, k, life, rates) /\ AllRight(acc.records, rate)

LEMMA NoneRight == ASSUME NEW rate PROVE AllRight(<< >>, rate)
  <1>1. PICK none, all : none = << >> /\ all = {}
    OBVIOUS
  <1>2. none \in Seq(all) /\ \A r \in all : Right(r, rate)
    BY <1>1
  <1>3. AllRight(none, rate)
    BY <1>2 DEF AllRight
  <1> QED BY <1>1, <1>3

LEMMA MoreRight ==
    ASSUME NEW s, NEW t, NEW rate, AllRight(s, rate), AllRight(t, rate)
    PROVE  AllRight(s \o t, rate)
  <1>1. PICK A : s \in Seq(A) /\ \A r \in A : Right(r, rate)
    BY DEF AllRight
  <1>2. PICK B : t \in Seq(B) /\ \A r \in B : Right(r, rate)
    BY DEF AllRight
  <1>3. PICK C : C = A \cup B
    OBVIOUS
  <1>4. s \in Seq(C) /\ t \in Seq(C)
    BY <1>1, <1>2, <1>3
  <1>5. s \o t \in Seq(C)
    BY <1>4
  <1>6. \A r \in C : Right(r, rate)
    BY <1>1, <1>2, <1>3
  <1> QED BY <1>5, <1>6 DEF AllRight

LEMMA DecodeSetOfLife ==
    ASSUME NEW k, NEW life, NEW rates, NEW rate \in rates, NEW acc, DecodedOfLife(acc, k, life, rates, rate),
           NEW set, SetOfLife(set, k, life, rate)
    PROVE  DecodedOfLife(DecodeSet(acc, set), k, life, rates, rate)
  <1>0. /\ acc = [ok |-> acc.ok, cache |-> acc.cache, records |-> acc.records] /\ Accounted(acc.cache)
        /\ OfLife(acc.cache, k, life, rates) /\ AllRight(acc.records, rate)
    BY DEF DecodedOfLife, Decoded
  <1>9. Decoded(DecodeSet(acc, set))
    BY DecodeSetAccounted DEF DecodedOfLife, SetOfLife
  <1>1. CASE ~acc.ok
    <2>1. DecodeSet(acc, set) = acc
      BY <1>1 DEF DecodeSet
    <2> QED BY <2>1
  <1>2. CASE acc.ok /\ set.malformed
    <2>1. PICK d : d = [acc EXCEPT !.ok = FALSE]
      OBVIOUS
    <2>2. DecodeSet(acc, set) = d
      BY <1>2, <2>1 DEF DecodeSet
    <2>3. d.cache = acc.cache /\ d.records = acc.records
      BY <1>0, <2>1
    <2> QED BY <1>0, <1>9, <2>2, <2>3 DEF DecodedOfLife
  <1>3. CASE acc.ok /\ ~set.malformed /\ TemplateSet(set)
    <2>1. PICK ok, cache : LET parsed == parse_template_records(acc.cache, set.body)
                           IN  ok = parsed.ok /\ cache = parsed.cache
      OBVIOUS
    <2>2. PICK b, d : b = [acc EXCEPT !.ok = ok] /\ d = [b EXCEPT !.cache = cache]
      OBVIOUS
    <2>3. DecodeSet(acc, set) = [acc EXCEPT !.ok = ok, !.cache = cache]
      BY <1>3, <2>1 DEF DecodeSet
    <2>4. DecodeSet(acc, set) = d
      BY <2>2, <2>3
    <2>5. b = [ok |-> ok, cache |-> acc.cache, records |-> acc.records]
      BY <1>0, <2>2
    <2>6. d.cache = cache /\ d.records = acc.records
      BY <2>2, <2>5
    <2>7. PICK body : body = set.body
      OBVIOUS
    <2>8. body \in Seq(Template) /\ \A t \in Range(body) : min_record_len(t) # 0 => t \in Announced(k, life)
      BY <1>3, <2>7 DEF SetOfLife
    <2>9. OfLife(cache, k, life, rates)
      BY <1>0, <2>1, <2>7, <2>8, ParseOfLife
    <2> QED BY <1>0, <1>9, <2>4, <2>6, <2>9 DEF DecodedOfLife
  <1>4. CASE acc.ok /\ ~set.malformed /\ ~TemplateSet(set)
    <2>1. CASE set.id < MIN_DATA_SET_ID \/ set.id \notin DOMAIN acc.cache.templates
      <3>1. DecodeSet(acc, set) = acc
        BY <1>4, <2>1 DEF DecodeSet
      <3> QED BY <3>1
    <2>2. CASE ~(set.id < MIN_DATA_SET_ID \/ set.id \notin DOMAIN acc.cache.templates)
      <3>1. PICK template, body, records, cache, all :
              /\ template = acc.cache.templates[set.id]
              /\ body = set.body
              /\ records = decode_data_set(template, body)
              /\ cache = IF template.scope > 0 THEN observe_options_data(acc.cache, records) ELSE acc.cache
              /\ all = acc.records \o records
        OBVIOUS
      <3>2. PICK b, d : b = [acc EXCEPT !.records = all] /\ d = [b EXCEPT !.cache = cache]
        OBVIOUS
      <3>3. DecodeSet(acc, set) = [acc EXCEPT !.records = all, !.cache = cache]
        BY <1>4, <2>2, <3>1 DEF DecodeSet
      <3>4. DecodeSet(acc, set) = d
        BY <3>2, <3>3
      <3>5. b = [ok |-> acc.ok, cache |-> acc.cache, records |-> all]
        BY <1>0, <3>2
      <3>6. d.cache = cache /\ d.records = all
        BY <3>2, <3>5
      <3>7. template \in Announced(k, life) /\ template.id = set.id /\ template \in Template
        BY <1>0, <2>2, <3>1 DEF OfLife, Accounted
      <3>8. min_record_len(template) # 0
        BY <3>7 DEF Announced
      <3>9. body \in Seq(Range(body)) /\ Reads(template, body, rate)
        BY <1>4, <3>1, <3>7 DEF SetOfLife
      <3>10. AllRight(records, rate)
        BY <3>1, <3>7, <3>8, <3>9, SetRight
      <3>11. AllRight(all, rate)
        BY <1>0, <3>1, <3>10, MoreRight
      <3>12. OfLife(cache, k, life, rates)
        BY <1>0, <3>1, <3>10, ObserveOfLife
      <3> QED BY <1>9, <3>4, <3>6, <3>11, <3>12 DEF DecodedOfLife
    <2> QED BY <2>1, <2>2
  <1> QED BY <1>1, <1>2, <1>3, <1>4

\* A message of one life, decoded with a cache of that life, is read as it was meant and
\* leaves a cache of that life.
LEMMA DecodeOfLife ==
    ASSUME NEW c, Accounted(c), NEW k, NEW life, NEW rates, OfLife(c, k, life, rates), NEW message,
           Sound(message.sets), NEW rate \in rates,
           \A set \in Range(message.sets) : SetOfLife(set, k, life, rate)
    PROVE  /\ OfLife(decode_message(c, message).cache, k, life, rates)
           /\ AllRight(decode_message(c, message).records, rate)
  <1>1. PICK sets, L : sets = message.sets /\ L = Len(sets)
    OBVIOUS
  <1>2. L \in Nat /\ \A n \in 1 .. L : SetOfLife(sets[n], k, life, rate)
    <2>1. sets \in Seq(Range(sets))
      BY <1>1 DEF Sound
    <2>2. L \in Nat /\ \A n \in 1 .. L : sets[n] \in Range(sets)
      BY <1>1, <2>1
    <2> QED BY <1>1, <2>2
  <1>3. PICK after : Rounds(after, c, message, L)
    <2>1. L \in Nat /\ L = Len(message.sets)
      BY <1>1, <1>2
    <2> QED BY <2>1, DecodeLoop
  <1> DEFINE good == {n \in 0 .. L : DecodedOfLife(after[n], k, life, rates, rate)}
  <1>4. 0 \in good
    <2>1. PICK e : e = after[0]
      OBVIOUS
    <2>2. e = [ok |-> TRUE, cache |-> c, records |-> << >>]
      BY <1>3, <2>1 DEF Rounds
    <2>3. e.cache = c /\ e.records = << >> /\ e = [ok |-> e.ok, cache |-> e.cache, records |-> e.records]
      BY <2>2
    <2>4. DecodedOfLife(e, k, life, rates, rate)
      BY <2>3, NoneRight DEF DecodedOfLife, Decoded
    <2> QED BY <1>2, <2>1, <2>4
  <1>5. ASSUME NEW n \in 1 .. L, n - 1 \in good PROVE n \in good
    <2>1. after[n] = DecodeSet(after[n - 1], sets[n])
      BY <1>1, <1>3 DEF Rounds
    <2>2. DecodedOfLife(after[n - 1], k, life, rates, rate)
      BY <1>5
    <2>3. DecodedOfLife(after[n], k, life, rates, rate)
      BY <1>2, <2>1, <2>2, DecodeSetOfLife
    <2> QED BY <2>3
  <1>6. L \in good
    <2>1. good \in SUBSET (0 .. L)
      OBVIOUS
    <2> HIDE DEF good
    <2> QED BY <1>2, <1>4, <1>5, <2>1, LoopKeeps
  <1>7. PICK e : e = after[L]
    OBVIOUS
  <1>8. DecodedOfLife(e, k, life, rates, rate)
    BY <1>6, <1>7
  <1>9. decode_message(c, message).cache = e.cache /\ decode_message(c, message).records \in {e.records, << >>}
    BY <1>3, <1>7, <1>8 DEF Rounds, DecodedOfLife, Decoded
  <1> QED BY <1>8, <1>9, NoneRight DEF DecodedOfLife

\* The rate of a flow is its record's, its exporter's or the configured one.
LEMMA ResolveGiven ==
    ASSUME NEW a, NEW b
    PROVE  resolve(a, b) = IF a \notin {Nothing, 0} THEN a
                           ELSE IF b \notin {Nothing, 0} THEN b ELSE resolve(Nothing, Nothing)
  <1>1. PICK rates, given : /\ rates = <<a, b, ExporterConfigured, GlobalDefault>>
                            /\ given = {i \in 1 .. 4 : rates[i] \notin {Nothing, 0}}
    OBVIOUS
  <1>2. resolve(a, b) = IF given = {} THEN 1 ELSE rates[Min(given)]
    BY <1>1 DEF resolve
  <1>3. /\ rates[1] = a /\ rates[2] = b /\ rates[3] = ExporterConfigured /\ rates[4] = GlobalDefault
        /\ given \subseteq {1, 2, 3, 4}
    BY <1>1
  <1>4. CASE a \notin {Nothing, 0}
    <2>1. 1 \in given /\ \A j \in given : 1 <= j
      BY <1>1, <1>3, <1>4
    <2>2. Min(given) = 1
      <3>1. \A i \in given : (\A j \in given : i <= j) => i = 1
        BY <1>3, <2>1
      <3> QED BY <2>1, <3>1 DEF Min
    <2> QED BY <1>2, <1>3, <1>4, <2>1, <2>2
  <1>5. CASE a \in {Nothing, 0} /\ b \notin {Nothing, 0}
    <2>1. 2 \in given /\ \A j \in given : 2 <= j
      BY <1>1, <1>3, <1>5
    <2>2. Min(given) = 2
      <3>1. \A i \in given : (\A j \in given : i <= j) => i = 2
        BY <1>3, <2>1
      <3> QED BY <2>1, <3>1 DEF Min
    <2> QED BY <1>2, <1>3, <1>5, <2>1, <2>2
  <1>6. CASE a \in {Nothing, 0} /\ b \in {Nothing, 0}
    <2>1. PICK base, kept : /\ base = <<Nothing, Nothing, ExporterConfigured, GlobalDefault>>
                            /\ kept = {i \in 1 .. 4 : base[i] \notin {Nothing, 0}}
      OBVIOUS
    <2>2. resolve(Nothing, Nothing) = IF kept = {} THEN 1 ELSE base[Min(kept)]
      BY <2>1 DEF resolve
    <2>3. base[1] = Nothing /\ base[2] = Nothing /\ base[3] = rates[3] /\ base[4] = rates[4]
      BY <1>3, <2>1
    <2>4. given \subseteq {3, 4} /\ kept \subseteq {3, 4}
      BY <1>1, <1>3, <1>6, <2>1, <2>3
    <2>5. kept = given
      BY <1>1, <2>1, <2>3, <2>4
    <2>6. given # {} => Min(given) \in {3, 4}
      <3>1. given # {} => \E i \in given : \A j \in given : i <= j
        <4>1. \A j \in given : j \in {3, 4} /\ 3 <= j
          BY <2>4
        <4>2. 3 \notin given => \A j \in given : j = 4 /\ 4 <= j
          BY <4>1
        <4> QED BY <4>1, <4>2
      <3>2. given # {} => Min(given) \in given
        BY <3>1 DEF Min
      <3> QED BY <2>4, <3>2
    <2> QED BY <1>2, <1>6, <2>2, <2>3, <2>5, <2>6
  <1> QED BY <1>4, <1>5, <1>6

------------------------------------------------------------------------------
(* The collector's inductive invariant.                                    *)

\* Every router is in one of its lives.
RoutersLive ==
    /\ routers = [k \in Keys |-> [life |-> routers[k].life, seq |-> routers[k].seq]]
    /\ \A k \in Keys : routers[k].life \in 1 .. MaxLives

\* A datagram is what a router said in one of its lives.
Genuine(d) ==
    /\ d.key \in Keys /\ d.life \in 1 .. MaxLives
    /\ \E body \in Bodies(d.key, d.life) : d.sets = body.sets /\ d.rate = body.rate

\* The datagrams of a sequence, on their way or queued, are genuine.
Sent(datagrams) ==
    \E all : datagrams \in Seq(all) /\ \A d \in all : Genuine(d)

CachesAccounted == \A k \in DOMAIN exporters : Accounted(exporters[k].cache)

HeardOK == heard = [k \in Keys |-> heard[k]] /\ DOMAIN exporters \subseteq Keys

\* Once a restart has shown, or when nothing was heard before this life, a cache is of the
\* life heard last.
Heeded ==
    \A k \in DOMAIN exporters :
        heard[k].shown \/ heard[k].clean => OfLife(exporters[k].cache, k, heard[k].life, heard[k].rates)

CollectorInv ==
    RoutersLive /\ Sent(net) /\ Sent(queue) /\ CachesAccounted /\ HeardOK /\ Heeded /\ misread = FALSE

LEMMA GenuineSets ==
    ASSUME NEW d, Genuine(d)
    PROVE  Sound(d.sets) /\ \A set \in Range(d.sets) : SetOfLife(set, d.key, d.life, d.rate)
  <1>1. PICK k, life : k = d.key /\ life = d.life
    OBVIOUS
  <1>2. PICK body \in Bodies(k, life) : d.sets = body.sets /\ d.rate = body.rate
    BY <1>1 DEF Genuine
  <1>3. k \in Keys /\ life \in 1 .. MaxLives
    BY <1>1 DEF Genuine
  <1>4. /\ body.sets \in Seq(Range(body.sets))
        /\ \A set \in Range(body.sets) :
              /\ set.body \in Seq(Range(set.body))
              /\ TemplateSet(set) => set.body \in Seq(Template)
              /\ ~TemplateSet(set) =>
                    \A t \in Announced(k, life) : t.id = set.id => Reads(t, set.body, body.rate)
    BY <1>2, <1>3, CollectorAssumption
  <1>5. Sound(d.sets)
    BY <1>2, <1>4 DEF Sound
  <1>6. ASSUME NEW set \in Range(body.sets) PROVE SetOfLife(set, k, life, body.rate)
    <2>1. ASSUME TemplateSet(set), NEW t \in Range(set.body), min_record_len(t) # 0
          PROVE  t \in Announced(k, life)
      <3>1. set \in {s \in UNION {Range(b.sets) : b \in Bodies(k, life)} : TemplateSet(s)}
        BY <2>1
      <3>2. t \in UNION {Range(s.body) : s \in {s \in UNION {Range(b.sets) : b \in Bodies(k, life)} :
                                                   TemplateSet(s)}}
        BY <3>1
      <3> QED BY <2>1, <3>2 DEF Announced
    <2> QED BY <1>4, <2>1 DEF SetOfLife
  <1> QED BY <1>1, <1>2, <1>5, <1>6

LEMMA CollectorStarts == CollectorInit => CollectorInv
  <1> SUFFICES ASSUME CollectorInit PROVE CollectorInv
    OBVIOUS
  <1>1. RoutersLive
    BY CollectorAssumption DEF CollectorInit, RoutersLive
  <1>2. \A s : s = << >> => Sent(s)
    <2> SUFFICES ASSUME NEW s, s = << >> PROVE Sent(s)
      OBVIOUS
    <2>1. s \in Seq({}) /\ \A d \in {} : Genuine(d)
      OBVIOUS
    <2> QED BY <2>1 DEF Sent
  <1>3. CachesAccounted /\ HeardOK /\ Heeded
    BY DEF CollectorInit, CachesAccounted, HeardOK, Heeded
  <1> QED BY <1>1, <1>2, <1>3 DEF CollectorInit, CollectorInv

LEMMA SendKeeps ==
    ASSUME CollectorInv, NEW k \in Keys, NEW body \in Bodies(k, routers[k].life), Send(k, body)
    PROVE  CollectorInv'
  <1>1. RoutersLive'
    <2>1. PICK n : n = (routers[k].seq + DataRecords(body.sets)) % SeqSpace
      OBVIOUS
    <2>2. routers' = [routers EXCEPT ![k].seq = n]
      BY <2>1 DEF Send
    <2> QED BY <2>2 DEF CollectorInv, RoutersLive
  <1>2. Sent(net)'
    <2>1. PICK d : d = [key |-> k, life |-> routers[k].life, seq |-> routers[k].seq,
                        header |-> body.header, sets |-> body.sets, rate |-> body.rate]
      OBVIOUS
    <2>2. net' = Append(net, d)
      BY <2>1 DEF Send
    <2>3. Genuine(d)
      <3>1. d.key = k /\ d.life = routers[k].life /\ d.sets = body.sets /\ d.rate = body.rate
        BY <2>1
      <3>2. routers[k].life \in 1 .. MaxLives
        BY DEF CollectorInv, RoutersLive
      <3> QED BY <3>1, <3>2 DEF Genuine
    <2>4. PICK all : net \in Seq(all) /\ \A e \in all : Genuine(e)
      BY DEF CollectorInv, Sent
    <2>5. PICK more : more = all \cup {d}
      OBVIOUS
    <2>6. net' \in Seq(more)
      BY <2>2, <2>4, <2>5
    <2>7. \A e \in more : Genuine(e)
      BY <2>3, <2>4, <2>5
    <2> QED BY <2>6, <2>7 DEF Sent
  <1>3. Sent(queue)' /\ CachesAccounted' /\ HeardOK' /\ Heeded' /\ misread' = FALSE
    BY DEF Send, CollectorInv, Sent, CachesAccounted, HeardOK, Heeded
  <1> QED BY <1>1, <1>2, <1>3 DEF CollectorInv

LEMMA RestartKeeps ==
    ASSUME CollectorInv, NEW k \in Keys, RouterRestart(k)
    PROVE  CollectorInv'
  <1>1. PICK n : n = routers[k].life + 1
    OBVIOUS
  <1>2. routers' = [routers EXCEPT ![k] = [life |-> n, seq |-> 0]]
    BY <1>1 DEF RouterRestart
  <1>3. n \in 1 .. MaxLives
    BY <1>1, CollectorAssumption DEF RouterRestart, CollectorInv, RoutersLive
  <1>4. RoutersLive'
    BY <1>2, <1>3 DEF CollectorInv, RoutersLive
  <1>5. Sent(net)' /\ Sent(queue)' /\ CachesAccounted' /\ HeardOK' /\ Heeded' /\ misread' = FALSE
    BY DEF RouterRestart, CollectorInv, Sent, CachesAccounted, HeardOK, Heeded
  <1> QED BY <1>4, <1>5 DEF CollectorInv

LEMMA LoseKeeps ==
    ASSUME CollectorInv, NEW i \in DOMAIN net, Lose(i)
    PROVE  CollectorInv'
  <1>1. PICK all : net \in Seq(all) /\ \A e \in all : Genuine(e)
    BY DEF CollectorInv, Sent
  <1>2. SubSeq(net, 1, i - 1) \in Seq(all) /\ SubSeq(net, i + 1, Len(net)) \in Seq(all)
    BY <1>1
  <1>3. net' \in Seq(all)
    BY <1>2 DEF Lose
  <1>4. Sent(net)'
    BY <1>1, <1>3 DEF Sent
  <1>5. RoutersLive' /\ Sent(queue)' /\ CachesAccounted' /\ HeardOK' /\ Heeded' /\ misread' = FALSE
    BY DEF Lose, CollectorInv, RoutersLive, Sent, CachesAccounted, HeardOK, Heeded
  <1> QED BY <1>4, <1>5 DEF CollectorInv

LEMMA ReceiveKeeps ==
    ASSUME CollectorInv, receive_loop
    PROVE  CollectorInv'
  <1>1. PICK all : net \in Seq(all) /\ \A e \in all : Genuine(e)
    BY DEF CollectorInv, Sent
  <1>2. PICK waiting : queue \in Seq(waiting) /\ \A e \in waiting : Genuine(e)
    BY DEF CollectorInv, Sent
  <1>3. PICK d, more : d = Head(net) /\ more = waiting \cup {d}
    OBVIOUS
  <1>4. d \in all /\ net' \in Seq(all)
    BY <1>1, <1>3 DEF receive_loop
  <1>5. queue' \in Seq(more)
    BY <1>2, <1>3 DEF receive_loop
  <1>6. \A e \in more : Genuine(e)
    BY <1>1, <1>2, <1>3, <1>4
  <1>7. Sent(net)' /\ Sent(queue)'
    BY <1>1, <1>4, <1>5, <1>6 DEF Sent
  <1>8. RoutersLive' /\ CachesAccounted' /\ HeardOK' /\ Heeded' /\ misread' = FALSE
    BY DEF receive_loop, CollectorInv, RoutersLive, CachesAccounted, HeardOK, Heeded
  <1> QED BY <1>7, <1>8 DEF CollectorInv

LEMMA IdleKeeps ==
    ASSUME CollectorInv, evict_idle \/ \E k \in Keys : Silence(k)
    PROVE  CollectorInv'
  <1>1. RoutersLive' /\ Sent(net)' /\ Sent(queue)' /\ misread' = FALSE
    BY DEF evict_idle, Silence, CollectorInv, RoutersLive, Sent
  <1>2. CASE UNCHANGED <<exporters, heard>>
    BY <1>1, <1>2 DEF CollectorInv, CachesAccounted, HeardOK, Heeded
  <1>3. CASE evict_idle
    <2>1. /\ exporters' = [k \in (DOMAIN exporters) \cap (DOMAIN exporters \ idle) |-> exporters[k]]
          /\ heard' = [k \in Keys |-> IF k \in idle THEN Unheard ELSE heard[k]]
      BY <1>3 DEF evict_idle, Restrict
    <2>2. \A k \in DOMAIN exporters' : k \in DOMAIN exporters /\ k \in Keys /\ k \notin idle
      BY <2>1 DEF CollectorInv, HeardOK
    <2>3. \A k \in DOMAIN exporters' : exporters'[k] = exporters[k] /\ heard'[k] = heard[k]
      BY <2>1, <2>2
    <2>4. CachesAccounted'
      BY <2>2, <2>3 DEF CollectorInv, CachesAccounted
    <2>5. HeardOK'
      BY <2>1, <2>2 DEF HeardOK
    <2>6. Heeded'
      BY <2>2, <2>3 DEF CollectorInv, Heeded
    <2> QED BY <1>1, <2>4, <2>5, <2>6 DEF CollectorInv
  <1> QED BY <1>2, <1>3 DEF Silence

\* A record read as it was meant becomes a flow scaled by a rate of its life, or the configured.
LEMMA FlowsRight ==
    ASSUME NEW decoded, NEW rates, NEW rate \in rates, AllRight(decoded.records, rate),
           decoded.cache.sampling \in rates \cup {Nothing}
    PROVE  ~Misread(decoded) /\ ~Misscaled(decoded, rates)
  <1>1. PICK records, all : /\ records = decoded.records /\ records \in Seq(all)
                            /\ \A r \in all : Right(r, rate)
    BY DEF AllRight
  <1>2. \A i \in DOMAIN records : Right(records[i], rate)
    BY <1>1
  <1>3. ~Misread(decoded)
    BY <1>1, <1>2 DEF Misread, Right, Range
  <1>4. ASSUME NEW f \in Flows(decoded) PROVE f.rate \in rates \cup {resolve(Nothing, Nothing)}
    <2>1. PICK sampling : sampling = decoded.cache.sampling
      OBVIOUS
    <2>2. PICK i \in DOMAIN records : f = normalize_ipfix_record(records[i], sampling) /\ f # Nothing
      BY <1>1, <1>4, <2>1 DEF Flows
    <2>3. PICK r, v : r = records[i] /\ v = ValueOf(r, "interval", Nothing)
      OBVIOUS
    <2>4. v \in {Nothing, rate}
      BY <1>2, <2>3, ValueRight
    <2>5. f.rate = resolve(v, sampling)
      BY <2>2, <2>3 DEF normalize_ipfix_record, build
    <2> QED BY <2>1, <2>4, <2>5, ResolveGiven
  <1> QED BY <1>3, <1>4 DEF Misscaled

LEMMA OfMoreRates ==
    ASSUME NEW c, NEW k, NEW life, NEW rates, NEW more, rates \subseteq more, OfLife(c, k, life, rates)
    PROVE  OfLife(c, k, life, more)
  BY DEF OfLife

LEMMA ProcessKeeps ==
    ASSUME CollectorInv, process_datagram
    PROVE  CollectorInv'
  <1>1. PICK all : queue \in Seq(all) /\ \A e \in all : Genuine(e)
    BY DEF CollectorInv, Sent
  <1>2. PICK d, known : d = Head(queue) /\ known = get_or_create(d.key)
    OBVIOUS
  <1>3. d \in all /\ queue' \in Seq(all)
    BY <1>1, <1>2 DEF process_datagram
  <1>4. Genuine(d) /\ Sent(queue)'
    BY <1>1, <1>3 DEF Sent
  <1>5. RoutersLive' /\ Sent(net)'
    BY DEF process_datagram, CollectorInv, RoutersLive, Sent
  <1>6. CASE UNCHANGED <<exporters, heard, misread>>
    BY <1>4, <1>5, <1>6 DEF CollectorInv, CachesAccounted, HeardOK, Heeded
  <1>7. CASE ~UNCHANGED <<exporters, heard, misread>>
    <2>1. PICK key, heardOf, state, decoded, cache, h, entry :
              /\ key = d.key /\ heardOf = heard[key]
              /\ state = observe_sequence(known, d.seq)
              /\ decoded = decode_message(state.cache, d)
              /\ cache = decoded.cache
              /\ h = Hearing(heardOf, known, d)
              /\ entry = [state EXCEPT !.cache = cache]
      OBVIOUS
    <2>2. /\ known # Nothing
          /\ exporters' = [k \in DOMAIN exporters \cup {key} |-> IF k = key THEN entry ELSE exporters[k]]
          /\ heard' = [heard EXCEPT ![key] = h]
          /\ misread' = (misread \/ ((h.shown \/ h.clean) /\ (Misread(decoded) \/ Misscaled(decoded, h.rates))))
      BY <1>2, <1>7, <2>1 DEF process_datagram
    <2>3. /\ key \in DOMAIN exporters => known = exporters[key]
          /\ key \notin DOMAIN exporters => known = ExporterState_new
      BY <1>2, <2>1, <2>2 DEF get_or_create
    <2>4. ExporterState_new.cache = TemplateCache_new
      BY DEF ExporterState_new
    <2>5. Accounted(known.cache)
      BY <2>3, <2>4, NewAccounted DEF CollectorInv, CachesAccounted
    <2>6. PICK below : below = (known.last # Nothing /\ d.seq < known.last)
      OBVIOUS
    <2>7. /\ state = [cache |-> state.cache, last |-> state.last]
          /\ state.cache = IF below THEN TemplateCache_new ELSE known.cache
      BY <2>1, <2>6 DEF observe_sequence, clear
    <2>8. Accounted(state.cache)
      BY <2>5, <2>7, NewAccounted
    <2>9. Sound(d.sets) /\ \A set \in Range(d.sets) : SetOfLife(set, key, d.life, d.rate)
      BY <1>4, <2>1, GenuineSets
    <2>10. Accounted(cache)
      BY <2>1, <2>8, <2>9, DecodeAccounted
    <2>11. entry.cache = cache
      BY <2>1, <2>7
    <2>12. /\ h.life = d.life /\ d.rate \in h.rates
           /\ heardOf.life = d.life => heardOf.rates \subseteq h.rates
           /\ h.shown = (below \/ (heardOf.life = d.life /\ heardOf.shown))
           /\ h.clean = ((heardOf.life = d.life /\ heardOf.clean) \/ known = ExporterState_new)
      BY <2>1, <2>6 DEF Hearing
    <2>13. ASSUME h.shown \/ h.clean PROVE OfLife(state.cache, key, d.life, h.rates)
      <3>1. CASE below \/ known = ExporterState_new
        <4>1. state.cache = TemplateCache_new
          BY <2>4, <2>7, <3>1
        <4> QED BY <4>1, NewOfLife
      <3>2. CASE ~below /\ known # ExporterState_new
        <4>1. heardOf.life = d.life /\ (heardOf.shown \/ heardOf.clean)
          BY <2>12, <2>13, <3>2
        <4>2. key \in DOMAIN exporters /\ state.cache = exporters[key].cache
          BY <2>3, <2>7, <3>2
        <4>3. OfLife(state.cache, key, d.life, heardOf.rates)
          BY <2>1, <4>1, <4>2 DEF CollectorInv, Heeded
        <4> QED BY <2>12, <4>1, <4>3, OfMoreRates
      <3> QED BY <3>1, <3>2
    <2>14. ASSUME h.shown \/ h.clean
           PROVE  OfLife(cache, key, h.life, h.rates) /\ ~Misread(decoded) /\ ~Misscaled(decoded, h.rates)
      <3>1. OfLife(cache, key, d.life, h.rates) /\ AllRight(decoded.records, d.rate)
        BY <2>1, <2>8, <2>9, <2>12, <2>13, <2>14, DecodeOfLife
      <3>2. decoded.cache.sampling \in h.rates \cup {Nothing}
        BY <2>1, <3>1 DEF OfLife
      <3> QED BY <2>12, <3>1, <3>2, FlowsRight
    <2>15. CachesAccounted'
      BY <2>2, <2>10, <2>11 DEF CollectorInv, CachesAccounted
    <2>16. key \in Keys
      BY <1>4, <2>1 DEF Genuine
    <2>17. HeardOK'
      BY <2>2, <2>16 DEF CollectorInv, HeardOK
    <2>18. Heeded'
      <3> SUFFICES ASSUME NEW k \in DOMAIN exporters', heard'[k].shown \/ heard'[k].clean
                   PROVE  OfLife(exporters'[k].cache, k, heard'[k].life, heard'[k].rates)
        BY DEF Heeded
      <3>1. CASE k = key
        <4>1. exporters'[k] = entry /\ heard'[k] = h
          BY <2>2, <2>16, <3>1 DEF CollectorInv, HeardOK
        <4> QED BY <2>11, <2>14, <3>1, <4>1
      <3>2. CASE k # key
        <4>1. k \in DOMAIN exporters /\ k \in Keys
          BY <2>2, <3>2 DEF CollectorInv, HeardOK
        <4>2. exporters'[k] = exporters[k] /\ heard'[k] = heard[k]
          BY <2>2, <3>2, <4>1 DEF CollectorInv, HeardOK
        <4> QED BY <4>1, <4>2 DEF CollectorInv, Heeded
      <3> QED BY <3>1, <3>2
    <2>19. misread' = FALSE
      BY <2>2, <2>14 DEF CollectorInv
    <2> QED BY <1>4, <1>5, <2>15, <2>17, <2>18, <2>19 DEF CollectorInv
  <1> QED BY <1>6, <1>7

LEMMA CollectorInductive == CollectorSpec => []CollectorInv
  <1>1. CollectorInit => CollectorInv
    BY CollectorStarts
  <1>2. CollectorInv /\ [CollectorNext]_cvars => CollectorInv'
    <2> SUFFICES ASSUME CollectorInv, [CollectorNext]_cvars PROVE CollectorInv'
      OBVIOUS
    <2>1. CASE UNCHANGED cvars
      BY <2>1 DEF cvars, CollectorInv, RoutersLive, Sent, CachesAccounted, HeardOK, Heeded
    <2>2. CASE CollectorNext
      BY <2>2, SendKeeps, RestartKeeps, LoseKeeps, ReceiveKeeps, ProcessKeeps, IdleKeeps DEF CollectorNext
    <2> QED BY <2>1, <2>2
  <1> QED BY <1>1, <1>2, PTL DEF CollectorSpec

\* Nothing a router sends, however its datagrams are lost, its sets malformed, its templates
\* redefined, withdrawn or refused, and whenever it restarts or falls silent, makes a cache
\* count other fields than those it holds, or hold more than its limits
\* (template_cache.rs insert, remove, clear; decoder.rs parse_template_records).
THEOREM CacheIsAccounted == CollectorSpec => []CacheAccounted
  <1>1. CollectorInv => CacheAccounted
    BY DEF CollectorInv, CachesAccounted, Accounted, CacheAccounted
  <1> QED BY <1>1, CollectorInductive, PTL

\* Whatever is lost, withdrawn or broken off, and however often a router restarts: once a
\* sequence number has shown the restart, no record is read with a template of a former life
\* and no flow is scaled by a rate that only a former life announced (exporter.rs
\* observe_sequence clears templates and sampling together).
THEOREM RestartIsHeeded == CollectorSpec => []RestartShownIsHeeded
  <1>1. CollectorInv => RestartShownIsHeeded
    BY DEF CollectorInv, RestartShownIsHeeded
  <1> QED BY <1>1, CollectorInductive, PTL
==============================================================================
