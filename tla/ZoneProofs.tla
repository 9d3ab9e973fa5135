----------------------------- MODULE ZoneProofs -----------------------------
(***************************************************************************)
(* What the self-test's report and the paged listing promise, for any      *)
(* zones, page size and number of records.                                 *)
(***************************************************************************)
EXTENDS ZoneRecords, SequenceTheorems, TLAPS

-----------------------------------------------------------------------------
(* A sequence with an element more, or less: where the others are.         *)

LEMMA Joined ==
  ASSUME NEW s \in Seq(Nat), NEW t \in Seq(Nat)
  PROVE  /\ s \o t \in Seq(Nat)
         /\ Len(s \o t) = Len(s) + Len(t)
         /\ \A j \in Nat \ {0} : j <= Len(s) => (s \o t)[j] = s[j]
         /\ \A j \in Nat : Len(s) < j /\ j <= Len(s) + Len(t) => (s \o t)[j] = t[j - Len(s)]
<1>1. Len(s) \in Nat /\ Len(t) \in Nat
  OBVIOUS
<1>2. /\ s \o t \in Seq(Nat)
      /\ Len(s \o t) = Len(s) + Len(t)
      /\ \A j \in 1 .. Len(s) + Len(t) : (s \o t)[j] = IF j <= Len(s) THEN s[j] ELSE t[j - Len(s)]
  BY ConcatProperties
<1> QED BY <1>1, <1>2

LEMMA Inserted ==
  ASSUME NEW s \in Seq(Nat), NEW k \in 1 .. Len(s) + 1, NEW e \in Nat
  PROVE  /\ InsertAt(s, k, e) \in Seq(Nat)
         /\ Len(InsertAt(s, k, e)) = Len(s) + 1
         /\ \A j \in 1 .. Len(s) + 1 :
              InsertAt(s, k, e)[j] = IF j < k THEN s[j] ELSE IF j = k THEN e ELSE s[j - 1]
<1> DEFINE a == SubSeq(s, 1, k - 1)
           b == SubSeq(s, k, Len(s))
           t == (a \o <<e>>) \o b
<1>1. Len(s) \in Nat /\ k \in Nat /\ 1 <= k /\ k <= Len(s) + 1
  OBVIOUS
<1>2. a \in Seq(Nat) /\ Len(a) = k - 1 /\ \A j \in 1 .. k - 1 : a[j] = s[j]
  BY <1>1, SubSeqProperties
<1>3. b \in Seq(Nat) /\ Len(b) = Len(s) - k + 1
      /\ \A j \in 1 .. Len(s) - k + 1 : b[j] = s[k + j - 1]
  BY <1>1, SubSeqProperties
<1>4. <<e>> \in Seq(Nat) /\ Len(<<e>>) = 1 /\ <<e>>[1] = e
  OBVIOUS
<1>5. InsertAt(s, k, e) = t
  BY DEF InsertAt
<1> DEFINE c == a \o <<e>>
<1> HIDE DEF a, b
<1>6. c \in Seq(Nat) /\ Len(c) = k /\ c[k] = e /\ \A j \in 1 .. k - 1 : c[j] = a[j]
  <2> DEFINE o == <<e>>
  <2>1. o \in Seq(Nat) /\ Len(o) = 1 /\ o[1] = e /\ c = a \o o
    BY <1>4
  <2> HIDE DEF c, o
  <2>2. /\ c \in Seq(Nat) /\ Len(c) = Len(a) + Len(o)
        /\ \A j \in Nat \ {0} : j <= Len(a) => c[j] = a[j]
        /\ \A j \in Nat : Len(a) < j /\ j <= Len(a) + Len(o) => c[j] = o[j - Len(a)]
    BY <1>2, <2>1, Joined, ZenonT(40)
  <2>3. Len(a) = k - 1 /\ Len(o) = 1
    BY <1>2, <2>1
  <2>4. Len(a) + Len(o) = k /\ Len(a) < k /\ k - Len(a) = 1
    BY <1>1, <2>3
  <2>5. c[k] = e
    BY <1>1, <2>1, <2>2, <2>4
  <2>6. \A j \in 1 .. k - 1 : c[j] = a[j]
    BY <1>1, <2>2, <2>3
  <2> QED BY <2>2, <2>4, <2>5, <2>6
<1>7. t = c \o b
  OBVIOUS
<1> HIDE DEF c, t
<1>8. /\ t \in Seq(Nat) /\ Len(t) = Len(s) + 1
      /\ \A j \in Nat \ {0} : j <= k => t[j] = c[j]
      /\ \A j \in Nat : k < j /\ j <= Len(s) + 1 => t[j] = b[j - k]
  <2>1. /\ t \in Seq(Nat) /\ Len(t) = Len(c) + Len(b)
        /\ \A j \in Nat \ {0} : j <= Len(c) => t[j] = c[j]
        /\ \A j \in Nat : Len(c) < j /\ j <= Len(c) + Len(b) => t[j] = b[j - Len(c)]
    BY <1>3, <1>6, <1>7, Joined, ZenonT(40)
  <2>2. Len(c) + Len(b) = Len(s) + 1
    <3>1. Len(c) = k /\ Len(b) = Len(s) - k + 1
      BY <1>3, <1>6
    <3> QED BY <1>1, <3>1
  <2> QED BY <1>6, <2>1, <2>2
<1>9. ASSUME NEW j \in 1 .. Len(s) + 1
      PROVE  t[j] = IF j < k THEN s[j] ELSE IF j = k THEN e ELSE s[j - 1]
  <2>1. CASE j < k
    <3>1. j \in 1 .. k - 1 /\ j \in Nat \ {0} /\ j <= k
      BY <1>1, <2>1
    <3>2. t[j] = c[j]
      BY <1>8, <3>1
    <3>3. c[j] = a[j] /\ a[j] = s[j]
      BY <1>2, <1>6, <3>1
    <3> QED BY <2>1, <3>2, <3>3
  <2>2. CASE j = k
    BY <1>1, <1>6, <1>8, <2>2
  <2>3. CASE k < j
    <3>1. j - k \in 1 .. Len(s) - k + 1 /\ k + (j - k) - 1 = j - 1
      BY <1>1, <2>3
    <3>2. t[j] = b[j - k]
      <4>1. j \in Nat /\ k < j /\ j <= Len(s) + 1
        BY <1>1, <2>3
      <4> QED BY <1>8, <4>1
    <3>3. b[j - k] = s[k + (j - k) - 1]
      BY <1>3, <3>1
    <3>4. ~(j < k) /\ j # k
      BY <1>1, <2>3
    <3> QED BY <3>1, <3>2, <3>3, <3>4
  <2> QED BY <1>1, <2>1, <2>2, <2>3
<1> QED BY <1>5, <1>8, <1>9

LEMMA Removed ==
  ASSUME NEW s \in Seq(Nat), NEW k \in 1 .. Len(s)
  PROVE  /\ RemoveAt(s, k) \in Seq(Nat)
         /\ Len(RemoveAt(s, k)) = Len(s) - 1
         /\ \A j \in 1 .. Len(s) - 1 :
              RemoveAt(s, k)[j] = IF j < k THEN s[j] ELSE s[j + 1]
<1> DEFINE a == SubSeq(s, 1, k - 1)
           b == SubSeq(s, k + 1, Len(s))
           t == a \o b
<1>1. Len(s) \in Nat /\ k \in Nat /\ 1 <= k /\ k <= Len(s)
  OBVIOUS
<1>2. a \in Seq(Nat) /\ Len(a) = k - 1 /\ \A j \in 1 .. k - 1 : a[j] = s[j]
  BY <1>1, SubSeqProperties
<1>3. b \in Seq(Nat) /\ Len(b) = Len(s) - k /\ \A j \in 1 .. Len(s) - k : b[j] = s[k + j]
  BY <1>1, SubSeqProperties
<1>4. RemoveAt(s, k) = t
  BY DEF RemoveAt
<1> HIDE DEF a, b
<1>5. t = a \o b
  OBVIOUS
<1> HIDE DEF t
<1>6. /\ t \in Seq(Nat) /\ Len(t) = Len(s) - 1
      /\ \A j \in Nat \ {0} : j <= k - 1 => t[j] = a[j]
      /\ \A j \in Nat : k - 1 < j /\ j <= Len(s) - 1 => t[j] = b[j - (k - 1)]
  <2>1. /\ t \in Seq(Nat) /\ Len(t) = Len(a) + Len(b)
        /\ \A j \in Nat \ {0} : j <= Len(a) => t[j] = a[j]
        /\ \A j \in Nat : Len(a) < j /\ j <= Len(a) + Len(b) => t[j] = b[j - Len(a)]
    BY <1>2, <1>3, <1>5, Joined, ZenonT(40)
  <2>2. Len(a) + Len(b) = Len(s) - 1
    <3>1. Len(a) = k - 1 /\ Len(b) = Len(s) - k
      BY <1>2, <1>3
    <3> QED BY <1>1, <3>1
  <2> QED BY <1>2, <2>1, <2>2
<1>7. ASSUME NEW j \in 1 .. Len(s) - 1 PROVE t[j] = IF j < k THEN s[j] ELSE s[j + 1]
  <2>1. CASE j < k
    <3>1. j \in 1 .. k - 1 /\ j \in Nat \ {0} /\ j <= k - 1
      BY <1>1, <2>1
    <3>2. t[j] = a[j]
      BY <1>6, <3>1
    <3>3. a[j] = s[j]
      BY <1>2, <3>1
    <3> QED BY <2>1, <3>2, <3>3
  <2>2. CASE k <= j
    <3>1. j - (k - 1) \in 1 .. Len(s) - k /\ k + (j - (k - 1)) = j + 1
      BY <1>1, <2>2
    <3>2. t[j] = b[j - (k - 1)]
      <4>1. j \in Nat /\ k - 1 < j /\ j <= Len(s) - 1
        BY <1>1, <2>2
      <4> QED BY <1>6, <4>1
    <3>3. b[j - (k - 1)] = s[k + (j - (k - 1))]
      BY <1>3, <3>1
    <3>4. ~(j < k)
      BY <1>1, <2>2
    <3> QED BY <3>1, <3>2, <3>3, <3>4
  <2> QED BY <1>1, <2>1, <2>2
<1> QED BY <1>4, <1>6, <1>7

LEMMA Within == ASSUME NEW s \in Seq(Nat) PROVE DOMAIN s = 1 .. Len(s) /\ Len(s) \in Nat
  OBVIOUS

-----------------------------------------------------------------------------
(* The invariant. *)

(* Every record was created, and is in one place of one zone.              *)
IdsOnce ==
  /\ \A z \in Zones : \A k \in DOMAIN records[z] : records[z][k] \in 1 .. made
  /\ \A y, z \in Zones : \A j \in DOMAIN records[y], k \in DOMAIN records[z] :
       records[y][j] = records[z][k] => y = z /\ j = k

(* Once its deletion has been answered, the test's record is nowhere, and  *)
(* no later record has its id.                                             *)
TestGone ==
  /\ test.id \in 0 .. made
  /\ test.pc \in {"check", "report"} =>
       \A z \in Zones : \A k \in DOMAIN records[z] : records[z][k] # test.id

(* What a listing has not got yet is on the page it asks for next, or on a *)
(* later one, unless the zone has lost records.                            *)
Ahead(r) ==
  /\ list.pc = "page"
  /\ \E k \in DOMAIN records[list.zone] :
       k > PageSize * (list.page - 1) /\ records[list.zone][k] = r

ListGoesOn ==
  list.pc # "idle" =>
    /\ list.zone \in Zones /\ list.page >= 1
    /\ list.whole => \A r \in list.there : r \in list.got \/ Ahead(r)

ZoneInv == ZoneTypeOK /\ IdsOnce /\ TestGone /\ ListGoesOn

(* A zone in which a record has been created: the new one is there, and    *)
(* the others are where they were or one place further.                    *)
LEMMA CreatedShape ==
  ASSUME NEW z, Created(z), records \in [Zones -> Seq(Nat)], made \in Nat
  PROVE  /\ z \in Zones /\ made' = made + 1 /\ records' \in [Zones -> Seq(Nat)]
         /\ \A y \in Zones \ {z} : records'[y] = records[y]
         /\ \E k \in 1 .. Len(records[z]) + 1 :
              /\ Len(records'[z]) = Len(records[z]) + 1
              /\ \A j \in 1 .. Len(records[z]) + 1 :
                   records'[z][j] = IF j < k THEN records[z][j]
                                    ELSE IF j = k THEN made + 1 ELSE records[z][j - 1]
<1>1. PICK k \in 1 .. Len(records[z]) + 1 :
           z \in Zones /\ records' = [records EXCEPT ![z] = InsertAt(@, k, made + 1)]
  BY DEF Created
<1>2. records[z] \in Seq(Nat) /\ made + 1 \in Nat
  BY <1>1
<1>3. records'[z] = InsertAt(records[z], k, made + 1)
  BY <1>1
<1>4. /\ records'[z] \in Seq(Nat) /\ Len(records'[z]) = Len(records[z]) + 1
      /\ \A j \in 1 .. Len(records[z]) + 1 :
           records'[z][j] = IF j < k THEN records[z][j]
                            ELSE IF j = k THEN made + 1 ELSE records[z][j - 1]
  <2> DEFINE s == records[z]
             e == made + 1
             t == InsertAt(s, k, e)
  <2>1. s \in Seq(Nat) /\ k \in 1 .. Len(s) + 1 /\ e \in Nat /\ records'[z] = t
    BY <1>2, <1>3
  <2> HIDE DEF s, e
  <2>2. /\ t \in Seq(Nat) /\ Len(t) = Len(s) + 1
        /\ \A j \in 1 .. Len(s) + 1 :
             t[j] = IF j < k THEN s[j] ELSE IF j = k THEN e ELSE s[j - 1]
    BY <2>1, Inserted, SMTT(30)
  <2> HIDE DEF t
  <2> QED BY <2>1, <2>2 DEF s, e
<1>5. records' \in [Zones -> Seq(Nat)] /\ \A y \in Zones \ {z} : records'[y] = records[y]
  BY <1>1, <1>3, <1>4
<1> QED BY <1>1, <1>4, <1>5 DEF Created

(* A zone from which a record has been deleted: it is gone, and the others *)
(* are where they were or one place nearer.                                *)
LEMMA DeletedShape ==
  ASSUME NEW z, NEW r, Deleted(z, r), records \in [Zones -> Seq(Nat)]
  PROVE  /\ z \in Zones /\ records' \in [Zones -> Seq(Nat)]
         /\ \A y \in Zones \ {z} : records'[y] = records[y]
         /\ \E k \in 1 .. Len(records[z]) :
              /\ records[z][k] = r
              /\ Len(records'[z]) = Len(records[z]) - 1
              /\ \A j \in 1 .. Len(records[z]) - 1 :
                   records'[z][j] = IF j < k THEN records[z][j] ELSE records[z][j + 1]
<1>1. PICK k \in DOMAIN records[z] :
           /\ z \in Zones /\ records[z][k] = r
           /\ records' = [records EXCEPT ![z] = RemoveAt(@, k)]
  BY DEF Deleted
<1>2. records[z] \in Seq(Nat) /\ k \in 1 .. Len(records[z])
  BY <1>1
<1>3. records'[z] = RemoveAt(records[z], k)
  BY <1>1
<1>4. /\ records'[z] \in Seq(Nat) /\ Len(records'[z]) = Len(records[z]) - 1
      /\ \A j \in 1 .. Len(records[z]) - 1 :
           records'[z][j] = IF j < k THEN records[z][j] ELSE records[z][j + 1]
  BY <1>2, <1>3, Removed
<1>5. records' \in [Zones -> Seq(Nat)] /\ \A y \in Zones \ {z} : records'[y] = records[y]
  BY <1>1, <1>3, <1>4
<1> QED BY <1>1, <1>2, <1>4, <1>5

(* Every record that is there afterwards was there, unless it is new; each *)
(* is still in one place.                                                  *)
LEMMA CreatedOnce ==
  ASSUME NEW z, Created(z), records \in [Zones -> Seq(Nat)], made \in Nat, IdsOnce
  PROVE  IdsOnce'
<1>1. /\ z \in Zones /\ made' = made + 1 /\ records' \in [Zones -> Seq(Nat)]
      /\ \A y \in Zones \ {z} : records'[y] = records[y]
  BY CreatedShape
<1>2. PICK k \in 1 .. Len(records[z]) + 1 :
           /\ Len(records'[z]) = Len(records[z]) + 1
           /\ \A j \in 1 .. Len(records[z]) + 1 :
                records'[z][j] = IF j < k THEN records[z][j]
                                 ELSE IF j = k THEN made + 1 ELSE records[z][j - 1]
  BY CreatedShape
<1> DEFINE n == Len(records[z])
           Old(j) == IF j < k THEN j ELSE j - 1
<1>3. /\ n \in Nat /\ DOMAIN records[z] = 1 .. n /\ DOMAIN records'[z] = 1 .. n + 1
      /\ k \in 1 .. n + 1
  BY <1>1, <1>2, Within
<1>4. \A j \in 1 .. n + 1 : records'[z][j] = IF j = k THEN made + 1 ELSE records[z][Old(j)]
  BY <1>2, <1>3
<1>5. \A j \in 1 .. n + 1 : j # k => Old(j) \in 1 .. n
  BY <1>3
<1>6. \A i, j \in 1 .. n + 1 : i # k /\ j # k /\ Old(i) = Old(j) => i = j
  BY <1>3
<1> HIDE DEF n, Old
<1>7. \A y \in Zones : \A j \in DOMAIN records[y] : records[y][j] \in 1 .. made /\ records[y][j] # made + 1
  BY DEF IdsOnce
<1>8. ASSUME NEW y \in Zones, NEW j \in DOMAIN records'[y]
      PROVE  records'[y][j] \in 1 .. made'
  <2>1. CASE y = z
    <3>1. CASE j = k
      BY <1>1, <1>3, <1>4, <2>1, <3>1
    <3>2. CASE j # k
      <4>1. Old(j) \in DOMAIN records[z] /\ records'[z][j] = records[z][Old(j)]
        BY <1>3, <1>4, <1>5, <1>8, <2>1, <3>2
      <4>2. records[z][Old(j)] \in 1 .. made
        BY <1>1, <1>7, <4>1
      <4> QED BY <1>1, <2>1, <4>1, <4>2
    <3> QED BY <3>1, <3>2
  <2>2. CASE y # z
    <3>1. records'[y] = records[y]
      BY <1>1, <2>2
    <3>2. records[y][j] \in 1 .. made
      BY <1>7, <1>8, <3>1
    <3> QED BY <1>1, <3>1, <3>2
  <2> QED BY <2>1, <2>2
<1>9. ASSUME NEW x \in Zones, NEW y \in Zones, NEW i \in DOMAIN records'[x],
             NEW j \in DOMAIN records'[y], records'[x][i] = records'[y][j]
      PROVE  x = y /\ i = j
  <2>1. CASE x # z /\ y # z
    <3>1. records'[x] = records[x] /\ records'[y] = records[y]
      BY <1>1, <2>1
    <3> QED BY <1>9, <3>1 DEF IdsOnce
  <2>2. CASE x = z /\ y = z
    <3>1. i \in 1 .. n + 1 /\ j \in 1 .. n + 1
      BY <1>3, <2>2
    <3>2. CASE i = k \/ j = k
      <4>1. \A h \in 1 .. n + 1 : h # k => records'[z][h] # made + 1
        BY <1>1, <1>3, <1>4, <1>5, <1>7
      <4>2. records'[z][k] = made + 1
        BY <1>3, <1>4
      <4> QED BY <1>9, <2>2, <3>1, <3>2, <4>1, <4>2
    <3>3. CASE i # k /\ j # k
      <4>1. Old(i) \in DOMAIN records[z] /\ Old(j) \in DOMAIN records[z]
        BY <1>3, <1>5, <3>1, <3>3
      <4>2. records[z][Old(i)] = records[z][Old(j)]
        BY <1>4, <1>9, <2>2, <3>1, <3>3
      <4>3. Old(i) = Old(j)
        BY <1>1, <4>1, <4>2 DEF IdsOnce
      <4> QED BY <1>6, <2>2, <3>1, <3>3, <4>3
    <3> QED BY <3>2, <3>3
  <2>3. ASSUME NEW u \in Zones, u # z, NEW g \in DOMAIN records'[u], NEW h \in DOMAIN records'[z]
        PROVE  records'[u][g] # records'[z][h]
    <3>1. records'[u] = records[u] /\ records[u][g] # made + 1
      BY <1>1, <1>7, <2>3
    <3>2. h \in 1 .. n + 1
      BY <1>3, <2>3
    <3>3. CASE h = k
      BY <1>4, <3>1, <3>2, <3>3
    <3>4. CASE h # k
      <4>1. records'[z][h] = records[z][Old(h)] /\ Old(h) \in DOMAIN records[z]
        BY <1>3, <1>4, <1>5, <3>2, <3>4
      <4> QED BY <1>1, <2>3, <3>1, <4>1 DEF IdsOnce
    <3> QED BY <3>3, <3>4
  <2> QED BY <1>9, <2>1, <2>2, <2>3
<1> QED BY <1>8, <1>9 DEF IdsOnce

LEMMA DeletedOnce ==
  ASSUME NEW z, NEW r, Deleted(z, r), records \in [Zones -> Seq(Nat)], IdsOnce, made' = made
  PROVE  /\ IdsOnce'
         /\ \A y \in Zones : \A j \in DOMAIN records'[y] :
              records'[y][j] # r /\ \E i \in DOMAIN records[y] : records[y][i] = records'[y][j]
<1>1. /\ z \in Zones /\ records' \in [Zones -> Seq(Nat)]
      /\ \A y \in Zones \ {z} : records'[y] = records[y]
  BY DeletedShape
<1>2. PICK k \in 1 .. Len(records[z]) :
           /\ records[z][k] = r
           /\ Len(records'[z]) = Len(records[z]) - 1
           /\ \A j \in 1 .. Len(records[z]) - 1 :
                records'[z][j] = IF j < k THEN records[z][j] ELSE records[z][j + 1]
  BY DeletedShape
<1> DEFINE Was(y, j) == IF y # z \/ j < k THEN j ELSE j + 1
<1>3. ASSUME NEW y \in Zones, NEW j \in DOMAIN records'[y]
      PROVE  /\ Was(y, j) \in DOMAIN records[y] /\ records'[y][j] = records[y][Was(y, j)]
             /\ y = z => Was(y, j) # k
  <2>1. CASE y # z
    BY <1>1, <1>3, <2>1
  <2>2. CASE y = z
    <3>1. /\ Len(records[z]) \in Nat /\ DOMAIN records[z] = 1 .. Len(records[z])
          /\ DOMAIN records'[z] = 1 .. Len(records[z]) - 1 /\ k \in 1 .. Len(records[z])
      BY <1>1, <1>2, Within
    <3>2. /\ j \in 1 .. Len(records[z]) - 1
          /\ records'[z][j] = IF j < k THEN records[z][j] ELSE records[z][j + 1]
      BY <1>2, <1>3, <2>2, <3>1
    <3>3. CASE j < k
      BY <2>2, <3>1, <3>2, <3>3
    <3>4. CASE ~(j < k)
      <4>1. Was(y, j) = j + 1 /\ j + 1 \in 1 .. Len(records[z]) /\ j + 1 # k
        BY <2>2, <3>1, <3>2, <3>4
      <4> QED BY <2>2, <3>1, <3>2, <3>4, <4>1
    <3> QED BY <3>3, <3>4
  <2> QED BY <2>1, <2>2
<1>4. ASSUME NEW y \in Zones, NEW i \in DOMAIN records'[y], NEW j \in DOMAIN records'[y],
             Was(y, i) = Was(y, j)
      PROVE  i = j
  <2>1. CASE y # z
    BY <1>4, <2>1
  <2>2. CASE y = z
    <3>1. i \in Nat /\ j \in Nat /\ k \in Nat
      BY <1>1, <1>2, <1>4, Within
    <3> QED BY <1>4, <2>2, <3>1
  <2> QED BY <2>1, <2>2
<1> HIDE DEF Was
<1>5. k \in DOMAIN records[z]
  BY <1>1, <1>2, Within
<1>6. IdsOnce'
  <2>1. ASSUME NEW y \in Zones, NEW j \in DOMAIN records'[y] PROVE records'[y][j] \in 1 .. made'
    BY <1>3, <2>1 DEF IdsOnce
  <2>2. ASSUME NEW x \in Zones, NEW y \in Zones, NEW i \in DOMAIN records'[x],
               NEW j \in DOMAIN records'[y], records'[x][i] = records'[y][j]
        PROVE  x = y /\ i = j
    <3>1. x = y /\ Was(x, i) = Was(y, j)
      BY <1>3, <2>2 DEF IdsOnce
    <3> QED BY <1>4, <2>2, <3>1
  <2> QED BY <2>1, <2>2 DEF IdsOnce
<1>7. ASSUME NEW y \in Zones, NEW j \in DOMAIN records'[y]
      PROVE  records'[y][j] # r
  <2>1. /\ Was(y, j) \in DOMAIN records[y] /\ records'[y][j] = records[y][Was(y, j)]
        /\ y = z => Was(y, j) # k
    BY <1>3, <1>7
  <2>2. records[y][Was(y, j)] = records[z][k] => y = z /\ Was(y, j) = k
    BY <1>1, <1>5, <2>1 DEF IdsOnce
  <2> QED BY <1>2, <2>1, <2>2
<1> QED BY <1>3, <1>6, <1>7

(* What a listing has still to get stays ahead of it when a record is      *)
(* created, and when one is deleted from another zone.                     *)
LEMMA StillAhead ==
  ASSUME NEW z, Created(z), records \in [Zones -> Seq(Nat)], made \in Nat,
         list.zone \in Zones, list.page \in Nat, list.page >= 1, list' = list,
         NEW r, Ahead(r)
  PROVE  Ahead(r)'
<1>1. /\ z \in Zones /\ made' = made + 1 /\ records' \in [Zones -> Seq(Nat)]
      /\ \A y \in Zones \ {z} : records'[y] = records[y]
  BY CreatedShape
<1>2. PICK k \in 1 .. Len(records[z]) + 1 :
           /\ Len(records'[z]) = Len(records[z]) + 1
           /\ \A j \in 1 .. Len(records[z]) + 1 :
                records'[z][j] = IF j < k THEN records[z][j]
                                 ELSE IF j = k THEN made + 1 ELSE records[z][j - 1]
  BY CreatedShape
<1> DEFINE p == PageSize * (list.page - 1)
<1>3. p \in Nat
  BY ZoneAssumption
<1>4. PICK i \in DOMAIN records[list.zone] : i > p /\ records[list.zone][i] = r
  BY DEF Ahead
<1>5. list.pc = "page"
  BY DEF Ahead
<1> HIDE DEF p
<1>6. \E j \in DOMAIN records'[list.zone] : j > p /\ records'[list.zone][j] = r
  <2>1. CASE list.zone # z
    BY <1>1, <1>4, <2>1
  <2>2. CASE list.zone = z
    <3>1. /\ Len(records[z]) \in Nat /\ DOMAIN records[z] = 1 .. Len(records[z])
          /\ DOMAIN records'[z] = 1 .. Len(records[z]) + 1
      BY <1>1, <1>2, Within
    <3>2. i \in 1 .. Len(records[z]) /\ i + 1 \in 1 .. Len(records[z]) + 1 /\ i + 1 > p
          /\ i \in 1 .. Len(records[z]) + 1
      BY <1>3, <1>4, <2>2, <3>1
    <3>3. CASE i < k
      <4>1. records'[z][i] = records[z][i]
        BY <1>2, <3>2, <3>3
      <4> QED BY <1>4, <2>2, <3>1, <3>2, <4>1
    <3>4. CASE ~(i < k)
      <4>1. ~(i + 1 < k) /\ i + 1 # k /\ (i + 1) - 1 = i
        BY <3>2, <3>4
      <4> DEFINE j == i + 1
      <4>2. j \in 1 .. Len(records[z]) + 1 /\ ~(j < k) /\ j # k /\ j - 1 = i
        BY <3>2, <4>1
      <4> HIDE DEF j
      <4>3. records'[z][j] = records[z][j - 1]
        BY <1>2, <4>2
      <4>4. records'[z][i + 1] = records[z][i]
        BY <4>2, <4>3 DEF j
      <4> QED BY <1>4, <2>2, <3>1, <3>2, <4>4
    <3> QED BY <3>3, <3>4
  <2> QED BY <2>1, <2>2
<1> QED BY <1>5, <1>6 DEF Ahead, p

(* A page brings what is on it, and puts what comes after it ahead of the  *)
(* next; after the last one nothing is left.                               *)
LEMMA PageTaken ==
  ASSUME ZoneTypeOK, ListGoesOn, ListPage, list.whole, NEW r \in list.there
  PROVE  r \in list'.got \/ Ahead(r)'
<1> DEFINE s == records[list.zone]
           p == PageSize * (list.page - 1)
           q == PageSize * list.page
<1>1. /\ list.pc = "page" /\ list.zone \in Zones /\ list.page \in Nat /\ list.page >= 1
      /\ (r \in list.got \/ Ahead(r)) /\ records' = records
      /\ list' = WithPage(s)
  BY DEF ListPage, ListGoesOn, ZoneTypeOK
<1>2. /\ list'.got = list.got \cup PageOf(s, list.page)
      /\ list'.pc = (IF LastPage(s, list.page) THEN "done" ELSE "page")
      /\ list'.page = (IF LastPage(s, list.page) THEN list.page ELSE list.page + 1)
      /\ list'.zone = list.zone
  BY <1>1 DEF WithPage, ZoneTypeOK
<1>3. CASE r \in list.got
  BY <1>2, <1>3
<1>4. CASE Ahead(r)
  <2>1. PICK k \in DOMAIN s : k > p /\ s[k] = r
    BY <1>4 DEF Ahead
  <2>2. s \in Seq(Nat) /\ p \in Nat /\ q \in Nat /\ q = p + PageSize
        /\ list.page * PageSize = q
    <3>1. s \in Seq(Nat)
      BY <1>1 DEF ZoneTypeOK
    <3> DEFINE m == list.page
    <3>2. m \in Nat /\ m >= 1 /\ PageSize \in Nat
      BY <1>1, ZoneAssumption
    <3> HIDE DEF m
    <3>3. /\ PageSize * (m - 1) \in Nat /\ PageSize * m \in Nat
          /\ PageSize * m = PageSize * (m - 1) + PageSize /\ m * PageSize = PageSize * m
      BY <3>2
    <3> QED BY <3>1, <3>3 DEF m
  <2>3. DOMAIN s = 1 .. Len(s) /\ Len(s) \in Nat
    BY <2>2, Within
  <2>4. CASE k <= q
    <3>1. k \in (p + 1 .. q) \cap DOMAIN s
      BY <2>1, <2>2, <2>3, <2>4
    <3>2. r \in PageOf(s, list.page)
      BY <2>1, <3>1 DEF PageOf
    <3> QED BY <1>2, <3>2
  <2>5. CASE k > q
    <3>1. ~LastPage(s, list.page)
      BY <2>1, <2>2, <2>3, <2>5 DEF LastPage
    <3>2. list'.pc = "page" /\ list'.page = list.page + 1 /\ (list.page + 1) - 1 = list.page
      BY <1>1, <1>2, <3>1
    <3>3. PageSize * (list'.page - 1) = q
      BY <3>2
    <3> QED BY <1>1, <1>2, <2>1, <2>5, <3>2, <3>3 DEF Ahead
  <2> QED BY <2>1, <2>2, <2>3, <2>4, <2>5
<1> QED BY <1>1, <1>3, <1>4

-----------------------------------------------------------------------------
(* Every step keeps the invariant. *)

(* A record is created: the zones, and what is not there still is not.     *)
LEMMA CreationKeeps ==
  ASSUME ZoneInv, NEW z, Created(z), list' = list
  PROVE  /\ records' \in [Zones -> Seq(Nat)] /\ made' = made + 1
         /\ IdsOnce' /\ ListGoesOn'
         /\ \A y \in Zones : \A j \in DOMAIN records'[y] :
              records'[y][j] = made + 1 \/ \E i \in DOMAIN records[y] : records[y][i] = records'[y][j]
<1>1. /\ ZoneTypeOK /\ IdsOnce /\ ListGoesOn
      /\ records \in [Zones -> Seq(Nat)] /\ made \in Nat
  BY DEF ZoneInv, ZoneTypeOK
<1>2. /\ z \in Zones /\ made' = made + 1 /\ records' \in [Zones -> Seq(Nat)]
      /\ \A y \in Zones \ {z} : records'[y] = records[y]
  BY <1>1, CreatedShape
<1>3. IdsOnce'
  BY <1>1, CreatedOnce
<1>4. ListGoesOn'
  <2>1. ASSUME list.pc # "idle", list.whole, NEW r \in list.there, Ahead(r) PROVE Ahead(r)'
    <3>1. list.zone \in Zones /\ list.page \in Nat /\ list.page >= 1
      BY <1>1, <2>1 DEF ListGoesOn, ZoneTypeOK
    <3> QED BY <1>1, <2>1, <3>1, StillAhead
  <2> QED BY <1>1, <2>1 DEF ListGoesOn
<1>5. ASSUME NEW y \in Zones, NEW j \in DOMAIN records'[y]
      PROVE  records'[y][j] = made + 1 \/ \E i \in DOMAIN records[y] : records[y][i] = records'[y][j]
  <2>1. CASE y # z
    BY <1>2, <1>5, <2>1
  <2>2. CASE y = z
    <3>1. PICK k \in 1 .. Len(records[z]) + 1 :
               /\ Len(records'[z]) = Len(records[z]) + 1
               /\ \A h \in 1 .. Len(records[z]) + 1 :
                    records'[z][h] = IF h < k THEN records[z][h]
                                     ELSE IF h = k THEN made + 1 ELSE records[z][h - 1]
      BY <1>1, CreatedShape
    <3>2. /\ Len(records[z]) \in Nat /\ DOMAIN records[z] = 1 .. Len(records[z])
          /\ j \in 1 .. Len(records[z]) + 1
      BY <1>1, <1>2, <1>5, <2>2, <3>1, Within
    <3>3. \/ j < k /\ j \in 1 .. Len(records[z])
          \/ j = k
          \/ ~(j < k) /\ j # k /\ j - 1 \in 1 .. Len(records[z])
      BY <3>2
    <3>4. CASE j < k /\ j \in 1 .. Len(records[z])
      BY <2>2, <3>1, <3>2, <3>4
    <3>5. CASE j = k
      BY <2>2, <3>1, <3>2, <3>5
    <3>6. CASE ~(j < k) /\ j # k /\ j - 1 \in 1 .. Len(records[z])
      BY <2>2, <3>1, <3>2, <3>6
    <3> QED BY <3>3, <3>4, <3>5, <3>6
  <2> QED BY <2>1, <2>2
<1> QED BY <1>2, <1>3, <1>4, <1>5

(* A record is deleted: it is nowhere, and nothing else appears.           *)
LEMMA DeletionKeeps ==
  ASSUME ZoneInv, NEW z, NEW r, Deleted(z, r), made' = made
  PROVE  /\ records' \in [Zones -> Seq(Nat)]
         /\ list' \in [pc : {"idle", "page", "done"}, zone : Zones \cup {None}, page : Nat,
                       got : SUBSET Nat, there : SUBSET Nat, whole : BOOLEAN]
         /\ IdsOnce' /\ ListGoesOn'
         /\ \A y \in Zones : \A j \in DOMAIN records'[y] :
              records'[y][j] # r /\ \E i \in DOMAIN records[y] : records[y][i] = records'[y][j]
<1>1. /\ ZoneTypeOK /\ IdsOnce /\ ListGoesOn /\ records \in [Zones -> Seq(Nat)]
  BY DEF ZoneInv, ZoneTypeOK
<1>2. /\ z \in Zones /\ records' \in [Zones -> Seq(Nat)]
      /\ \A y \in Zones \ {z} : records'[y] = records[y]
  BY <1>1, DeletedShape
<1>3. /\ IdsOnce'
      /\ \A y \in Zones : \A j \in DOMAIN records'[y] :
           records'[y][j] # r /\ \E i \in DOMAIN records[y] : records[y][i] = records'[y][j]
  BY <1>1, DeletedOnce
<1>4. list' = IF list.pc # "idle" /\ list.zone = z THEN [list EXCEPT !.whole = FALSE] ELSE list
  BY DEF Deleted
<1>5. /\ list'.pc = list.pc /\ list'.zone = list.zone /\ list'.page = list.page
      /\ list'.got = list.got /\ list'.there = list.there
      /\ list'.whole => list.whole /\ (list.pc = "idle" \/ list.zone # z)
      /\ list' \in [pc : {"idle", "page", "done"}, zone : Zones \cup {None}, page : Nat,
                    got : SUBSET Nat, there : SUBSET Nat, whole : BOOLEAN]
  BY <1>1, <1>4 DEF ZoneTypeOK
<1>6. ListGoesOn'
  <2>1. ASSUME list.pc # "idle", list'.whole, NEW u \in list.there, Ahead(u) PROVE Ahead(u)'
    <3>1. records'[list.zone] = records[list.zone]
      BY <1>1, <1>2, <1>5, <2>1 DEF ListGoesOn
    <3> QED BY <1>5, <2>1, <3>1 DEF Ahead
  <2>2. ASSUME list.pc # "idle" PROVE list.zone \in Zones /\ list.page >= 1
    BY <1>1, <2>2 DEF ListGoesOn
  <2>3. ASSUME list'.pc # "idle", list'.whole, NEW u \in list'.there
        PROVE  u \in list'.got \/ Ahead(u)'
    BY <1>1, <1>5, <2>1, <2>3 DEF ListGoesOn
  <2> QED BY <1>5, <2>2, <2>3 DEF ListGoesOn
<1> QED BY <1>2, <1>3, <1>5, <1>6

(* A test that goes on with its record is no further than its deletion.    *)
LEMMA TestMoves ==
  ASSUME ZoneInv, test' \in {NoTest} \cup {[test EXCEPT !.pc = c] : c \in {"update", "delete", "cleanup"}},
         UNCHANGED made
  PROVE  /\ test' \in [pc : {"idle", "create", "get", "update", "cleanup", "delete", "check", "report"},
                       id : Nat, absent : BOOLEAN]
         /\ TestGone'
<1>1. ZoneTypeOK /\ TestGone
  BY DEF ZoneInv
<1>2. CASE test' = NoTest
  BY <1>1, <1>2 DEF ZoneTypeOK, TestGone, NoTest
<1>3. CASE test' # NoTest
  <2>1. PICK c \in {"update", "delete", "cleanup"} : test' = [test EXCEPT !.pc = c]
    BY <1>3
  <2>2. test'.pc = c /\ test'.id = test.id
        /\ test' \in [pc : {"idle", "create", "get", "update", "cleanup", "delete", "check", "report"},
                      id : Nat, absent : BOOLEAN]
    BY <1>1, <2>1 DEF ZoneTypeOK
  <2> QED BY <1>1, <2>1, <2>2 DEF TestGone
<1> QED BY <1>2, <1>3

LEMMA ZoneStep == ZoneInv /\ [ZoneNext]_zoneVars => ZoneInv'
<1> SUFFICES ASSUME ZoneInv, [ZoneNext]_zoneVars PROVE ZoneInv'
  OBVIOUS
<1> DEFINE Tests == [pc : {"idle", "create", "get", "update", "cleanup", "delete", "check", "report"},
                     id : Nat, absent : BOOLEAN]
           Lists == [pc : {"idle", "page", "done"}, zone : Zones \cup {None}, page : Nat,
                     got : SUBSET Nat, there : SUBSET Nat, whole : BOOLEAN]
<1>0. /\ ZoneTypeOK /\ IdsOnce /\ TestGone /\ ListGoesOn
      /\ records \in [Zones -> Seq(Nat)] /\ made \in Nat /\ live \in Zones \cup {None}
      /\ test \in Tests /\ list \in Lists
  BY DEF ZoneInv, ZoneTypeOK
<1>a. ASSUME records' \in [Zones -> Seq(Nat)], made' \in Nat, live' \in Zones \cup {None},
             test' \in Tests, list' \in Lists
      PROVE  ZoneTypeOK'
  BY <1>a DEF ZoneTypeOK
<1>b. ASSUME UNCHANGED <<records, made>> PROVE IdsOnce'
  BY <1>0, <1>b DEF IdsOnce
<1>c. ASSUME UNCHANGED <<records, list>> PROVE ListGoesOn'
  BY <1>0, <1>c DEF ListGoesOn, Ahead
<1>d. ASSUME UNCHANGED <<records, made, test>> PROVE TestGone'
  BY <1>0, <1>d DEF TestGone
<1>e. /\ NoTest \in Tests /\ NoTest.id = 0 /\ NoTest.pc = "idle"
      /\ NoList \in Lists /\ NoList.pc = "idle"
  BY DEF NoTest, NoList
<1> HIDE DEF Tests, Lists
<1>1. CASE Reconfigured
  <2>1. live' \in Zones \cup {None} /\ UNCHANGED <<records, made, test, list>>
    BY <1>1 DEF Reconfigured
  <2> QED BY <1>0, <1>a, <1>b, <1>c, <1>d, <2>1 DEF ZoneInv
<1>2. CASE OthersCreate
  <2>1. PICK z \in Zones : Created(z)
    BY <1>2 DEF OthersCreate
  <2>2. UNCHANGED <<live, test, list>>
    BY <1>2 DEF OthersCreate
  <2>3. /\ records' \in [Zones -> Seq(Nat)] /\ made' = made + 1
        /\ IdsOnce' /\ ListGoesOn'
        /\ \A y \in Zones : \A j \in DOMAIN records'[y] :
             records'[y][j] = made + 1 \/ \E i \in DOMAIN records[y] : records[y][i] = records'[y][j]
    BY <2>1, <2>2, CreationKeeps
  <2>4. test'.id \in 0 .. made /\ made + 1 # test.id /\ test'.id \in 0 .. made'
    BY <1>0, <2>2, <2>3 DEF TestGone
  <2>5. ASSUME test'.pc \in {"check", "report"}, NEW y \in Zones, NEW j \in DOMAIN records'[y]
        PROVE  records'[y][j] # test'.id
    BY <1>0, <2>2, <2>3, <2>4, <2>5 DEF TestGone
  <2>6. TestGone'
    BY <2>4, <2>5 DEF TestGone
  <2> QED BY <1>0, <1>a, <2>2, <2>3, <2>6 DEF ZoneInv
<1>3. CASE OthersDelete
  <2>1. PICK z \in Zones, r \in Ids : Deleted(z, r)
    BY <1>3 DEF OthersDelete
  <2>2. UNCHANGED <<made, live, test>>
    BY <1>3 DEF OthersDelete
  <2>3. /\ records' \in [Zones -> Seq(Nat)] /\ list' \in Lists /\ IdsOnce' /\ ListGoesOn'
        /\ \A y \in Zones : \A j \in DOMAIN records'[y] :
             \E i \in DOMAIN records[y] : records[y][i] = records'[y][j]
    BY <2>1, <2>2, DeletionKeeps DEF Lists
  <2>4. TestGone'
    BY <1>0, <2>2, <2>3 DEF TestGone
  <2> QED BY <1>0, <1>a, <2>2, <2>3, <2>4 DEF ZoneInv
<1>4. CASE TestBegins
  <2>1. test' = [NoTest EXCEPT !.pc = "create"] /\ UNCHANGED <<records, made, live, list>>
    BY <1>4 DEF TestBegins
  <2>2. test' \in Tests /\ test'.id = 0 /\ test'.pc = "create"
    BY <2>1 DEF NoTest, Tests
  <2>3. TestGone'
    BY <1>0, <2>1, <2>2 DEF TestGone
  <2> QED BY <1>0, <1>a, <1>b, <1>c, <2>1, <2>2, <2>3 DEF ZoneInv
<1>5. CASE TestCreates
  <2>1. Created(live) /\ UNCHANGED <<live, list>>
        /\ test' \in {NoTest, [test EXCEPT !.pc = "get", !.id = made']}
    BY <1>5 DEF TestCreates
  <2>2. /\ records' \in [Zones -> Seq(Nat)] /\ made' = made + 1 /\ IdsOnce' /\ ListGoesOn'
    BY <2>1, CreationKeeps
  <2>3. test' \in Tests /\ test'.id \in 0 .. made' /\ test'.pc \in {"idle", "get"}
    <3>1. CASE test' = NoTest
      <4>1. 0 \in 0 .. made'
        BY <1>0, <2>2
      <4> QED BY <1>e, <3>1, <4>1
    <3>2. CASE test' = [test EXCEPT !.pc = "get", !.id = made']
      <4>1. made' \in Nat /\ made' \in 0 .. made'
        BY <1>0, <2>2
      <4>2. test' \in Tests /\ test'.id = made' /\ test'.pc = "get"
        BY <1>0, <3>2, <4>1 DEF Tests
      <4> QED BY <4>1, <4>2
    <3> QED BY <2>1, <3>1, <3>2
  <2>4. TestGone'
    BY <2>3 DEF TestGone
  <2> QED BY <1>0, <1>a, <2>1, <2>2, <2>3, <2>4 DEF ZoneInv
<1>6. ASSUME TestGets \/ TestUpdates \/ TestDropped PROVE ZoneInv'
  <2>1. /\ test' \in {NoTest} \cup {[test EXCEPT !.pc = c] : c \in {"update", "delete", "cleanup"}}
        /\ UNCHANGED <<records, made, live, list>>
    BY <1>6 DEF TestGets, TestUpdates, TestDropped
  <2>2. test' \in Tests /\ TestGone'
    BY <2>1, TestMoves DEF Tests
  <2> QED BY <1>0, <1>a, <1>b, <1>c, <2>1, <2>2 DEF ZoneInv
<1>7. CASE TestCleansUp
  <2>1. /\ test' = NoTest /\ UNCHANGED <<made, live>>
        /\ Deleted(live, test.id) \/ UNCHANGED <<records, list>>
    BY <1>7 DEF TestCleansUp
  <2>2. records' \in [Zones -> Seq(Nat)] /\ list' \in Lists /\ IdsOnce' /\ ListGoesOn'
    BY <1>0, <1>b, <1>c, <2>1, DeletionKeeps DEF Lists
  <2>3. test' \in Tests /\ TestGone'
    BY <1>0, <2>1 DEF NoTest, TestGone, Tests
  <2> QED BY <1>0, <1>a, <2>1, <2>2, <2>3 DEF ZoneInv
<1>8. CASE TestDeletes
  <2>1. /\ Deleted(live, test.id) /\ UNCHANGED <<made, live>>
        /\ test' \in {NoTest, [test EXCEPT !.pc = "check"]}
    BY <1>8 DEF TestDeletes
  <2>2. /\ records' \in [Zones -> Seq(Nat)] /\ list' \in Lists /\ IdsOnce' /\ ListGoesOn'
        /\ \A y \in Zones : \A j \in DOMAIN records'[y] : records'[y][j] # test.id
    BY <2>1, DeletionKeeps DEF Lists
  <2>3. test' \in Tests /\ (test' = NoTest \/ test'.id = test.id)
    <3>1. CASE test' = [test EXCEPT !.pc = "check"]
      BY <1>0, <3>1 DEF Tests
    <3> QED BY <1>e, <2>1, <3>1
  <2>4. TestGone'
    BY <1>0, <1>e, <2>1, <2>2, <2>3 DEF TestGone
  <2> QED BY <1>0, <1>a, <2>1, <2>2, <2>3, <2>4 DEF ZoneInv
<1>9. CASE TestChecks
  <2>1. /\ test.pc = "check" /\ UNCHANGED <<records, made, live, list>>
        /\ test' = [test EXCEPT !.pc = "report", !.absent = ~Contains(records[live], test.id)]
    BY <1>9 DEF TestChecks
  <2>2. test' \in Tests /\ test'.id = test.id
    BY <1>0, <2>1 DEF Tests
  <2>3. TestGone'
    BY <1>0, <2>1, <2>2 DEF TestGone
  <2> QED BY <1>0, <1>a, <1>b, <1>c, <2>1, <2>2, <2>3 DEF ZoneInv
<1>10. CASE TestAnswers
  <2>1. test' = NoTest /\ UNCHANGED <<records, made, live, list>>
    BY <1>10 DEF TestAnswers
  <2>2. test' \in Tests /\ TestGone'
    BY <2>1, TestMoves DEF Tests
  <2> QED BY <1>0, <1>a, <1>b, <1>c, <2>1, <2>2 DEF ZoneInv
<1>11. CASE ListBegins
  <2>1. /\ live \in Zones /\ UNCHANGED <<records, made, live, test>>
        /\ list' = [NoList EXCEPT !.pc = "page", !.zone = live, !.page = 1,
                                  !.there = ToSet(records[live])]
    BY <1>11 DEF ListBegins
  <2>2. records[live] \in Seq(Nat)
    BY <1>0, <2>1
  <2>3. ToSet(records[live]) = {records[live][k] : k \in DOMAIN records[live]}
    BY DEF ToSet
  <2>4. /\ list'.pc = "page" /\ list'.zone = live /\ list'.page = 1
        /\ list'.there = {records[live][k] : k \in DOMAIN records[live]}
    BY <2>1, <2>3 DEF NoList
  <2>5. list' \in Lists
    <3>1. {records[live][k] : k \in DOMAIN records[live]} \in SUBSET Nat
      BY <2>2
    <3> QED BY <2>1, <2>3, <3>1 DEF NoList, Lists
  <2>6. ASSUME NEW r \in list'.there PROVE Ahead(r)'
    <3>1. PICK k \in DOMAIN records[live] : r = records[live][k]
      BY <2>4, <2>6
    <3>2. PageSize * (1 - 1) = 0
      BY ZoneAssumption
    <3>3. k > PageSize * (list'.page - 1)
      BY <2>2, <2>4, <3>1, <3>2, Within
    <3> QED BY <2>1, <2>4, <3>1, <3>3 DEF Ahead
  <2>7. ListGoesOn'
    BY <2>1, <2>4, <2>6 DEF ListGoesOn
  <2> QED BY <1>0, <1>a, <1>b, <1>d, <2>1, <2>5, <2>7 DEF ZoneInv
<1>12. CASE ListPage
  <2> DEFINE s == records[list.zone]
  <2>1. /\ list.pc = "page" /\ list' = WithPage(s) /\ UNCHANGED <<records, made, live, test>>
    BY <1>12 DEF ListPage
  <2>2. list.zone \in Zones /\ list.page \in Nat /\ list.page >= 1 /\ s \in Seq(Nat)
    BY <1>0, <2>1 DEF ListGoesOn, ZoneTypeOK
  <2>3. PageOf(s, list.page) \in SUBSET Nat
    BY <2>2 DEF PageOf
  <2> HIDE DEF s
  <2>4. /\ list' \in Lists /\ list'.zone = list.zone /\ list'.page >= 1
        /\ list'.there = list.there /\ list'.whole = list.whole
    <3>1. list.got \cup PageOf(s, list.page) \in SUBSET Nat
      BY <1>0, <2>3 DEF Lists
    <3>2. CASE LastPage(s, list.page)
      <4>1. list' = [list EXCEPT !.got = @ \cup PageOf(s, list.page), !.pc = "done", !.page = @]
        BY <2>1, <3>2 DEF WithPage, s
      <4> QED BY <1>0, <2>2, <3>1, <4>1 DEF Lists
    <3>3. CASE ~LastPage(s, list.page)
      <4>1. list' = [list EXCEPT !.got = @ \cup PageOf(s, list.page), !.pc = "page", !.page = @ + 1]
        BY <2>1, <3>3 DEF WithPage, s
      <4> DEFINE n == list.page + 1
                 g == list.got \cup PageOf(s, list.page)
      <4>2. n \in Nat /\ n >= 1 /\ g \in SUBSET Nat
        BY <2>2, <3>1
      <4>3. list' = [list EXCEPT !.got = g, !.pc = "page", !.page = n]
        BY <4>1
      <4> HIDE DEF n, g
      <4>4. list' \in Lists /\ list'.page = n /\ list'.zone = list.zone
            /\ list'.there = list.there /\ list'.whole = list.whole
        BY <1>0, <4>2, <4>3 DEF Lists
      <4> QED BY <4>2, <4>4
    <3> QED BY <3>2, <3>3
  <2>5. \A r \in list.there : list.whole => r \in list'.got \/ Ahead(r)'
    BY <1>0, <1>12, PageTaken
  <2>6. ListGoesOn'
    BY <2>2, <2>4, <2>5 DEF ListGoesOn
  <2> QED BY <1>0, <1>a, <1>b, <1>d, <2>1, <2>4, <2>6 DEF ZoneInv
<1>13. CASE ListEnds
  <2>1. list' = NoList /\ UNCHANGED <<records, made, live, test>>
    BY <1>13 DEF ListEnds
  <2>2. list' \in Lists /\ ListGoesOn'
    BY <2>1 DEF NoList, Lists, ListGoesOn
  <2> QED BY <1>0, <1>a, <1>b, <1>d, <2>1, <2>2 DEF ZoneInv
<1>14. CASE UNCHANGED zoneVars
  BY <1>0, <1>a, <1>b, <1>c, <1>d, <1>14 DEF zoneVars, ZoneInv
<1> QED BY <1>1, <1>2, <1>3, <1>4, <1>5, <1>6, <1>7, <1>8, <1>9, <1>10, <1>11, <1>12, <1>13, <1>14
        DEF ZoneNext, TestStep

LEMMA ZoneInvariant == ZoneSpec => []ZoneInv
<1>1. ASSUME Init PROVE ZoneInv
  <2>1. /\ records = [z \in Zones |-> <<>>] /\ made = 0
        /\ live = None /\ test = NoTest /\ list = NoList
    BY <1>1 DEF Init
  <2>2. \A z \in Zones : records[z] = <<>> /\ DOMAIN records[z] = {}
    BY <2>1
  <2>3. ZoneTypeOK
    BY <2>1 DEF ZoneTypeOK, NoTest, NoList
  <2>4. IdsOnce /\ TestGone /\ ListGoesOn
    BY <2>1, <2>2 DEF IdsOnce, TestGone, ListGoesOn, NoTest, NoList
  <2> QED BY <2>3, <2>4 DEF ZoneInv
<1> QED BY <1>1, ZoneStep, PTL DEF ZoneSpec

-----------------------------------------------------------------------------

(* The client and the self-test keep to their types, with any number of    *)
(* zones and records.                                                      *)
THEOREM ZoneTyped == ZoneSpec => []ZoneTypeOK
<1>1. ZoneInv => ZoneTypeOK
  BY DEF ZoneInv
<1> QED BY <1>1, ZoneInvariant, PTL

(* dns_diagnostics: a report that the temporary record is absent is true   *)
(* of every zone, whatever happened to the settings meanwhile.             *)
THEOREM CleanReports == ZoneSpec => []CleanReportIsClean
<1>1. ASSUME ZoneInv, test.pc = "report", NEW z \in Zones PROVE ~Contains(records[z], test.id)
  <2>1. records[z] \in Seq(Nat) /\ \A k \in DOMAIN records[z] : records[z][k] # test.id
    BY <1>1 DEF ZoneInv, ZoneTypeOK, TestGone
  <2> QED BY <2>1, Within DEF Contains
<1>2. ZoneInv => CleanReportIsClean
  BY <1>1 DEF CleanReportIsClean
<1> QED BY <1>2, ZoneInvariant, PTL

(* list_dns_records: with any page size and any number of pages, a listing *)
(* misses no record of its zone, unless the zone lost one.                 *)
THEOREM ListingsComplete == ZoneSpec => []ListingComplete
<1>1. ZoneInv => ListingComplete
  BY DEF ZoneInv, ListGoesOn, Ahead, ListingComplete
<1> QED BY <1>1, ZoneInvariant, PTL
=============================================================================
