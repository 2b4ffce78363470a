---------------------------- MODULE ConfigProofs ----------------------------
(***************************************************************************)
(* The configuration, for any partitions, keys, values and number of       *)
(* places, whatever is called and wherever the power or a write fails.     *)
(***************************************************************************)
EXTENDS Config, TLAPS, FiniteSetTheorems

\* An image whose keys in use can each be found in one place and have a value.
Whole(img) ==
  /\ img \in ConfigPartition
  /\ \A i \in Used(img) : img.values[i] # None
  /\ \A i, j \in Used(img) : img.keys[i] = img.keys[j] /\ img.keys[i] \in ShortKey => i = j

------------------------------------------------------------------------------
(* The operators on an image. *)

\* find and get of a key that is there (configuration.rs find).
LEMMA FindOne ==
  ASSUME NEW img, Whole(img), NEW k, NEW i \in Find(img, k)
  PROVE  /\ Find(img, k) = {i} /\ Place(img, k) = i
         /\ Get(img, k) = img.values[i] /\ Get(img, k) # None
<1>1. Find(img, k) = {i}
  BY DEF Find, Whole
<1>2. Place(img, k) = i
  BY <1>1 DEF Place, Find, Used, Slot
<1> QED
  BY <1>1, <1>2 DEF Get, Find, Whole

\* find and get of a key that is not (configuration.rs find).
LEMMA FindNone ==
  ASSUME NEW img, NEW k, Find(img, k) = {}
  PROVE  Place(img, k) = img.num + 1 /\ Get(img, k) = None
BY DEF Place, Get

\* A key is found if and only if get has a value for it.
LEMMA FoundHasValue ==
  ASSUME NEW img, Whole(img), NEW k
  PROVE  Find(img, k) = {} <=> Get(img, k) = None
BY FindOne, FindNone

\* Two images with the same count that agree on the places in use look alike.
LEMMA SameVisible ==
  ASSUME NEW a, NEW b, Whole(a), Whole(b), a.num = b.num,
         \A i \in Used(a) : a.keys[i] = b.keys[i] /\ a.values[i] = b.values[i]
  PROVE  Visible(a) = Visible(b)
<1> SUFFICES ASSUME NEW k \in ShortKey PROVE Get(a, k) = Get(b, k)
  BY DEF Visible
<1>1. Find(a, k) = Find(b, k)
  BY DEF Find, Used
<1>2. CASE Find(a, k) = {}
  BY <1>1, <1>2, FindNone
<1>3. ASSUME NEW i \in Find(a, k) PROVE Get(a, k) = Get(b, k)
  BY <1>1, <1>3, FindOne DEF Find
<1> QED
  BY <1>2, <1>3

\* Where a key goes is one of the places, unless the partition is full.
LEMMA PlaceType ==
  ASSUME NEW img, Whole(img), NEW k, Find(img, k) = {} => ~Full(img)
  PROVE  Place(img, k) \in Slot /\ Place(img, k) <= img.num + 1
<1>1. img.num \in 0..MAX_NUM_KV /\ MAX_NUM_KV \in Nat
  BY ConfigAssumption DEF Whole, ConfigPartition
<1>2. CASE Find(img, k) = {}
  BY <1>1, <1>2, FindNone DEF Full, Slot
<1>3. ASSUME NEW i \in Find(img, k) PROVE Place(img, k) \in Slot /\ Place(img, k) <= img.num + 1
  BY <1>1, <1>3, FindOne DEF Find, Used, Slot
<1> QED
  BY <1>2, <1>3

\* A key stored at its place is the only one that changes (set_cbor, set_typed).
LEMMA StoredVisible ==
  ASSUME NEW img, Whole(img), NEW k \in ShortKey \cup LongKey, NEW v \in Value,
         Find(img, k) = {} => ~Full(img)
  PROVE  /\ Whole(Stored(img, k, v)) /\ Stored(img, k, v).needs_commit
         /\ Visible(Stored(img, k, v)) = IF k \in ShortKey THEN [Visible(img) EXCEPT ![k] = v]
                                         ELSE Visible(img)
<1> DEFINE new == Stored(img, k, v)
           i == Place(img, k)
<1>1. i \in Slot /\ i <= img.num + 1 /\ img.num \in 0..MAX_NUM_KV /\ MAX_NUM_KV \in Nat
  BY PlaceType, ConfigAssumption DEF Whole, ConfigPartition
<1>2. /\ new \in ConfigPartition
      /\ new.keys = [img.keys EXCEPT ![i] = k] /\ new.values = [img.values EXCEPT ![i] = v]
      /\ new.num = (IF i > img.num THEN i ELSE img.num) /\ new.needs_commit = TRUE
  <2> DEFINE keys == [img.keys EXCEPT ![i] = k]
             values == [img.values EXCEPT ![i] = v]
             num == IF i > img.num THEN i ELSE img.num
  <2>1. img.crc \in {None} \cup ((0..MAX_NUM_KV) \X Keys \X Values)
    BY DEF Whole, ConfigPartition
  <2>2. keys \in Keys /\ values \in Values
    BY <1>1 DEF Whole, ConfigPartition, Keys, Values, Key
  <2>3. num \in 0..MAX_NUM_KV
    BY <1>1 DEF Slot
  <2>4. /\ new.keys = keys /\ new.values = values /\ new.num = num /\ new.needs_commit = TRUE
    BY DEF Stored, Whole, ConfigPartition
  <2>5. new = [img EXCEPT !.keys = keys, !.values = values, !.num = num, !.needs_commit = TRUE]
    BY DEF Stored
  <2> HIDE DEF keys, values, num, new
  <2>6. new \in ConfigPartition
    BY <2>1, <2>2, <2>3, <2>5 DEF Whole, ConfigPartition
  <2> QED
    BY <2>4, <2>6 DEF keys, values, num
<1> HIDE DEF new
<1>3. img.keys \in [Slot -> Key \cup {None}] /\ img.values \in [Slot -> Value \cup {None, Spoilt}]
  BY DEF Whole, ConfigPartition, Keys, Values
<1>4. \A j \in Used(new) : j = i \/ j \in Used(img)
  BY <1>1, <1>2 DEF Used, Slot
<1>5. \A j \in Used(img) : j # i /\ img.keys[j] \in ShortKey => img.keys[j] # k
  <2>1. CASE Find(img, k) = {}
    BY <2>1 DEF Find
  <2>2. ASSUME NEW f \in Find(img, k)
        PROVE  \A j \in Used(img) : j # i /\ img.keys[j] \in ShortKey => img.keys[j] # k
    <3>1. Find(img, k) = {f} /\ i = f
      BY <2>2, FindOne
    <3> QED
      BY <3>1 DEF Find
  <2> QED
    BY <2>1, <2>2
<1>6. Whole(new)
  <2>1. \A j \in Used(new) : new.values[j] # None
    BY <1>1, <1>2, <1>3, <1>4, ConfigAssumption DEF Whole, Used
  <2>2. ASSUME NEW a \in Used(new), NEW b \in Used(new), new.keys[a] = new.keys[b],
               new.keys[a] \in ShortKey
        PROVE  a = b
    <3>1. a \in Slot /\ b \in Slot
      BY DEF Used
    <3>2. CASE a = i \/ b = i
      BY <1>1, <1>2, <1>3, <1>4, <1>5, <2>2, <3>1, <3>2
    <3>3. CASE a # i /\ b # i
      BY <1>1, <1>2, <1>3, <1>4, <2>2, <3>1, <3>3 DEF Whole
    <3> QED
      BY <3>2, <3>3
  <2> QED
    BY <1>2, <2>1, <2>2 DEF Whole
<1>7. ASSUME NEW l \in ShortKey, l # k
      PROVE  Get(new, l) = Get(img, l)
  <2>1. Find(new, l) = Find(img, l)
    <3>1. ASSUME NEW j \in Find(new, l) PROVE j \in Find(img, l)
      BY <1>1, <1>2, <1>3, <1>4, <1>7, <3>1 DEF Find, Used
    <3>2. ASSUME NEW j \in Find(img, l) PROVE j \in Find(new, l)
      <4>1. j \in Used(img) /\ img.keys[j] = l /\ j \in Slot
        BY <3>2 DEF Find, Used
      <4>2. j # i
        <5>1. CASE Find(img, k) = {}
          BY <1>1, <4>1, <5>1, FindNone DEF Used, Slot
        <5>2. ASSUME NEW f \in Find(img, k) PROVE j # i
          BY <1>7, <4>1, <5>2, FindOne DEF Find
        <5> QED
          BY <5>1, <5>2
      <4> QED
        BY <1>1, <1>2, <1>3, <4>1, <4>2 DEF Find, Used, Slot
    <3> QED
      BY <3>1, <3>2
  <2>2. CASE Find(img, l) = {}
    BY <2>1, <2>2, FindNone
  <2>3. ASSUME NEW j \in Find(img, l) PROVE Get(new, l) = Get(img, l)
    <3>1. Get(img, l) = img.values[j] /\ Get(new, l) = new.values[j]
      BY <1>6, <2>1, <2>3, FindOne
    <3>2. j # i
      <4>1. j \in Find(new, l) /\ j \in Slot
        BY <2>1, <2>3 DEF Find, Used
      <4> QED
        BY <1>1, <1>2, <1>3, <1>7, <4>1 DEF Find
    <3> QED
      BY <1>1, <1>2, <1>3, <2>3, <3>1, <3>2 DEF Find, Used
  <2> QED
    BY <2>2, <2>3
<1>8. k \in ShortKey => Get(new, k) = v
  <2>1. ASSUME k \in ShortKey PROVE i \in Find(new, k)
    BY <1>1, <1>2, <1>3, <2>1 DEF Find, Used, Slot
  <2>2. ASSUME k \in ShortKey PROVE Get(new, k) = new.values[i]
    BY <1>6, <2>1, <2>2, FindOne
  <2> QED
    BY <1>1, <1>2, <1>3, <2>2
<1>9. CASE k \in ShortKey
  <2>1. Visible(new) = [Visible(img) EXCEPT ![k] = v]
    BY <1>7, <1>8, <1>9 DEF Visible
  <2> QED
    BY <1>2, <1>6, <1>9, <2>1 DEF new
<1>10. CASE k \notin ShortKey
  <2>1. Visible(new) = Visible(img)
    BY <1>7, <1>10 DEF Visible
  <2> QED
    BY <1>2, <1>6, <1>10, <2>1 DEF new
<1> QED
  BY <1>9, <1>10

\* What a refused set writes past the keys in use is not seen, and what it
\* writes over a key is that key's value (set_cbor, set_typed).
LEMMA RefusedVisible ==
  ASSUME NEW img, Whole(img), NEW k \in ShortKey \cup LongKey, Find(img, k) = {}, ~Full(img),
         NEW v \in Value \cup {None, Spoilt}
  PROVE  LET new == [img EXCEPT !.keys[Place(img, k)] = k, !.values[Place(img, k)] = v]
         IN  Whole(new) /\ new.needs_commit = img.needs_commit /\ Visible(new) = Visible(img)
<1> DEFINE i == Place(img, k)
           keys == [img.keys EXCEPT ![i] = k]
           values == [img.values EXCEPT ![i] = v]
           new == [img EXCEPT !.keys[i] = k, !.values[i] = v]
<1>1. i \in Slot /\ i = img.num + 1 /\ img.num \in 0..MAX_NUM_KV /\ MAX_NUM_KV \in Nat
  BY PlaceType, FindNone, ConfigAssumption DEF Whole, ConfigPartition
<1>2. keys \in Keys /\ values \in Values
  BY <1>1 DEF Whole, ConfigPartition, Keys, Values, Key
<1>3. /\ new.keys = keys /\ new.values = values /\ new.num = img.num
      /\ new.needs_commit = img.needs_commit
  BY DEF Whole, ConfigPartition
<1>4. new = [img EXCEPT !.keys = keys, !.values = values]
  OBVIOUS
<1>5. \A j \in Used(img) : keys[j] = img.keys[j] /\ values[j] = img.values[j]
  BY <1>1 DEF Whole, ConfigPartition, Keys, Values, Used, Slot
<1> HIDE DEF new, keys, values
<1>6. new \in ConfigPartition
  BY <1>2, <1>4 DEF Whole, ConfigPartition
<1>7. Used(new) = Used(img)
  BY <1>3 DEF Used
<1>8. Whole(new)
  BY <1>3, <1>5, <1>6, <1>7 DEF Whole
<1>9. Visible(new) = Visible(img)
  BY <1>3, <1>5, <1>8, SameVisible
<1> QED
  BY <1>3, <1>8, <1>9 DEF new

\* The same where only the key is written (set_cbor).
LEMMA NamedVisible ==
  ASSUME NEW img, Whole(img), NEW k \in ShortKey \cup LongKey, Find(img, k) = {}, ~Full(img)
  PROVE  LET new == [img EXCEPT !.keys[Place(img, k)] = k]
         IN  Whole(new) /\ new.needs_commit = img.needs_commit /\ Visible(new) = Visible(img)
<1> DEFINE i == Place(img, k)
           keys == [img.keys EXCEPT ![i] = k]
           new == [img EXCEPT !.keys[i] = k]
<1>1. i \in Slot /\ i = img.num + 1 /\ img.num \in 0..MAX_NUM_KV /\ MAX_NUM_KV \in Nat
  BY PlaceType, FindNone, ConfigAssumption DEF Whole, ConfigPartition
<1>2. keys \in Keys
  BY <1>1 DEF Whole, ConfigPartition, Keys, Key
<1>3. /\ new.keys = keys /\ new.values = img.values /\ new.num = img.num
      /\ new.needs_commit = img.needs_commit
  BY DEF Whole, ConfigPartition
<1>4. new = [img EXCEPT !.keys = keys]
  OBVIOUS
<1>5. \A j \in Used(img) : keys[j] = img.keys[j]
  BY <1>1 DEF Whole, ConfigPartition, Keys, Used, Slot
<1> HIDE DEF new, keys
<1>6. new \in ConfigPartition
  BY <1>2, <1>4 DEF Whole, ConfigPartition
<1>7. Used(new) = Used(img)
  BY <1>3 DEF Used
<1>8. Whole(new)
  BY <1>3, <1>5, <1>6, <1>7 DEF Whole
<1>9. Visible(new) = Visible(img)
  BY <1>3, <1>5, <1>8, SameVisible
<1> QED
  BY <1>3, <1>8, <1>9 DEF new

\* The start of a value too long spoils the key it is written over (set_typed).
LEMMA SpoiltVisible ==
  ASSUME NEW img, Whole(img), NEW k \in ShortKey, Find(img, k) # {}
  PROVE  LET new == [img EXCEPT !.keys[Place(img, k)] = k, !.values[Place(img, k)] = Spoilt]
         IN  /\ Whole(new) /\ new.needs_commit = img.needs_commit
             /\ Visible(new) = [Visible(img) EXCEPT ![k] = Spoilt]
<1> DEFINE i == Place(img, k)
           keys == [img.keys EXCEPT ![i] = k]
           values == [img.values EXCEPT ![i] = Spoilt]
           new == [img EXCEPT !.keys[i] = k, !.values[i] = Spoilt]
<1>1. i \in Find(img, k) /\ i \in Slot /\ i \in Used(img) /\ img.keys[i] = k
  BY FindOne DEF Find, Used
<1>2. keys = img.keys /\ keys \in Keys /\ values \in Values
  BY <1>1 DEF Whole, ConfigPartition, Keys, Values, Key
<1>3. /\ new.keys = keys /\ new.values = values /\ new.num = img.num
      /\ new.needs_commit = img.needs_commit
  BY DEF Whole, ConfigPartition
<1>4. new = [img EXCEPT !.keys = keys, !.values = values]
  OBVIOUS
<1>5. \A j \in Used(img) : values[j] = IF j = i THEN Spoilt ELSE img.values[j]
  BY <1>1 DEF Whole, ConfigPartition, Values, Used
<1> HIDE DEF new, keys, values
<1>6. new \in ConfigPartition
  BY <1>2, <1>4 DEF Whole, ConfigPartition
<1>7. Used(new) = Used(img) /\ \A l : Find(new, l) = Find(img, l)
  BY <1>2, <1>3 DEF Used, Find
<1>8. Whole(new)
  BY <1>2, <1>3, <1>5, <1>6, <1>7, ConfigAssumption DEF Whole
<1>9. ASSUME NEW l \in ShortKey
      PROVE  Get(new, l) = IF l = k THEN Spoilt ELSE Get(img, l)
  <2>1. CASE Find(img, l) = {}
    <3>1. l # k
      BY <2>1
    <3> QED
      BY <1>7, <2>1, <3>1, FindNone
  <2>2. ASSUME NEW j \in Find(img, l) PROVE Get(new, l) = IF l = k THEN Spoilt ELSE Get(img, l)
    <3>1. Get(img, l) = img.values[j] /\ Get(new, l) = values[j] /\ j \in Used(img)
      BY <1>3, <1>7, <1>8, <2>2, FindOne DEF Find
    <3>2. j = i <=> l = k
      <4>1. img.keys[j] = l
        BY <2>2 DEF Find
      <4>2. l = k => Find(img, k) = {j} /\ Find(img, k) = {i}
        BY <1>1, <2>2, FindOne
      <4> QED
        BY <1>1, <4>1, <4>2
    <3> QED
      BY <1>5, <3>1, <3>2
  <2> QED
    BY <2>1, <2>2
<1>10. Visible(new) = [Visible(img) EXCEPT ![k] = Spoilt]
  BY <1>9 DEF Visible
<1> QED
  BY <1>3, <1>8, <1>10 DEF new

\* remove_key takes one key away and moves the others, in order (remove_key).
LEMMA RemovedVisible ==
  ASSUME NEW img, Whole(img), NEW k, Find(img, k) # {}
  PROVE  LET new == RemoveKey(img, k)
         IN  /\ Whole(new) /\ new.needs_commit /\ Find(new, k) = {} /\ k \in ShortKey
             /\ Visible(new) = [Visible(img) EXCEPT ![k] = None]
<1> DEFINE i == Place(img, k)
           keys == Shifted(img.keys, i, img.num)
           values == Shifted(img.values, i, img.num)
           new == RemoveKey(img, k)
           \* Where a place's key comes from, and where it goes.
           From(j) == IF i <= j THEN j + 1 ELSE j
           To(j) == IF i < j THEN j - 1 ELSE j
<1>1. /\ i \in Find(img, k) /\ i \in Slot /\ i \in Used(img) /\ img.keys[i] = k /\ k \in ShortKey
      /\ Find(img, k) = {i}
  BY FindOne DEF Find, Used
<1>2. img.num \in 1..MAX_NUM_KV /\ i \in 1..img.num /\ MAX_NUM_KV \in Nat
  BY <1>1, ConfigAssumption DEF Whole, ConfigPartition, Used, Slot
<1>3. keys \in Keys /\ values \in Values
  BY <1>2 DEF Shifted, Whole, ConfigPartition, Keys, Values, Slot
<1>4. /\ new.keys = keys /\ new.values = values /\ new.num = img.num - 1 /\ new.needs_commit = TRUE
  BY DEF RemoveKey, Whole, ConfigPartition
<1>5. new = [img EXCEPT !.keys = keys, !.values = values, !.num = img.num - 1,
                        !.needs_commit = TRUE]
  BY DEF RemoveKey
<1>6. \A j \in Slot : j <= img.num - 1 =>
        /\ From(j) \in Used(img) /\ From(j) # i
        /\ keys[j] = img.keys[From(j)] /\ values[j] = img.values[From(j)]
  BY <1>2 DEF Shifted, Used, Slot
<1> HIDE DEF keys, values, new
<1>7. new \in ConfigPartition
  <2>1. img.num - 1 \in 0..MAX_NUM_KV
    BY <1>2
  <2> QED
    BY <1>3, <1>5, <2>1 DEF Whole, ConfigPartition
<1>8. Used(new) = {j \in Slot : j <= img.num - 1}
  BY <1>4 DEF Used
<1>9. Whole(new)
  <2>1. \A j \in Used(new) : new.values[j] # None
    BY <1>4, <1>6, <1>8 DEF Whole
  <2>2. ASSUME NEW a \in Used(new), NEW b \in Used(new), new.keys[a] = new.keys[b],
               new.keys[a] \in ShortKey
        PROVE  a = b
    <3>1. a \in Slot /\ b \in Slot /\ a <= img.num - 1 /\ b <= img.num - 1
      BY <1>8
    <3>2. From(a) = From(b)
      BY <1>4, <1>6, <2>2, <3>1 DEF Whole
    <3> QED
      BY <1>2, <3>1, <3>2 DEF Slot
  <2> QED
    BY <1>7, <2>1, <2>2 DEF Whole
<1>10. Find(new, k) = {}
  <2> SUFFICES ASSUME NEW j \in Find(new, k) PROVE FALSE
    OBVIOUS
  <2>1. j \in Slot /\ j <= img.num - 1 /\ new.keys[j] = k
    BY <1>8 DEF Find
  <2>2. From(j) \in Find(img, k) /\ From(j) # i
    BY <1>1, <1>4, <1>6, <2>1 DEF Find
  <2> QED
    BY <1>1, <2>2
<1>11. ASSUME NEW l \in ShortKey, l # k
       PROVE  Get(new, l) = Get(img, l)
  <2>1. ASSUME NEW j \in Find(img, l) PROVE Get(new, l) = Get(img, l)
    <3>1. j \in Slot /\ j <= img.num /\ img.keys[j] = l /\ j # i
      BY <1>1, <1>11, <2>1 DEF Find, Used
    <3>2. To(j) \in Slot /\ To(j) <= img.num - 1 /\ From(To(j)) = j
      BY <1>2, <3>1 DEF Slot
    <3>3. keys[To(j)] = img.keys[j] /\ values[To(j)] = img.values[j]
      BY <1>6, <3>2
    <3>4. To(j) \in Find(new, l)
      BY <1>4, <1>8, <1>11, <3>1, <3>2, <3>3 DEF Find
    <3>5. Get(new, l) = new.values[To(j)] /\ Get(img, l) = img.values[j]
      BY <1>9, <2>1, <3>4, FindOne
    <3> QED
      BY <1>4, <3>3, <3>5
  <2>2. CASE Find(img, l) = {}
    <3>1. ASSUME NEW j \in Find(new, l) PROVE FALSE
      <4>1. j \in Slot /\ j <= img.num - 1 /\ new.keys[j] = l
        BY <1>8, <3>1 DEF Find
      <4>2. From(j) \in Find(img, l)
        BY <1>4, <1>6, <1>11, <4>1 DEF Find
      <4> QED
        BY <2>2, <4>2
    <3> QED
      BY <2>2, <3>1, FindNone
  <2> QED
    BY <2>1, <2>2
<1>12. Visible(new) = [Visible(img) EXCEPT ![k] = None]
  BY <1>1, <1>10, <1>11, FindNone DEF Visible
<1> QED
  BY <1>1, <1>4, <1>9, <1>10, <1>12 DEF new

\* A cleared partition, and one that could not be read (clear_partition).
LEMMA BlankVisible ==
  /\ Whole(Cleared) /\ Cleared.needs_commit
  /\ Whole(NewImage) /\ ~NewImage.needs_commit
  /\ Visible(Cleared) = [k \in ShortKey |-> None] /\ Visible(NewImage) = [k \in ShortKey |-> None]
<1>1. Blank \in Keys /\ Blank \in Values
  BY DEF Blank, Keys, Values
<1>2. Cleared \in ConfigPartition
  BY <1>1, ConfigAssumption DEF Cleared, ConfigPartition
<1>3. NewImage.num = 0 /\ NewImage.needs_commit = FALSE
  BY DEF NewImage, Cleared
<1>4. NewImage \in ConfigPartition
  BY <1>2 DEF NewImage, ConfigPartition
<1>5. Used(Cleared) = {} /\ Used(NewImage) = {}
  BY <1>3, ConfigAssumption DEF Used, Cleared, Slot
<1>6. \A k : Find(Cleared, k) = {} /\ Find(NewImage, k) = {}
  BY <1>5 DEF Find
<1> QED
  BY <1>2, <1>3, <1>4, <1>5, <1>6, FindNone DEF Whole, Visible, Cleared

\* seal changes nothing a lookup sees (seal).
LEMMA SealedVisible ==
  ASSUME NEW img, Whole(img)
  PROVE  /\ Whole(Sealed(img)) /\ Visible(Sealed(img)) = Visible(img)
         /\ Sealed(img).crc = Digest(Sealed(img)) /\ Sealed(img).needs_commit = img.needs_commit
<1> DEFINE new == Sealed(img)
<1>1. /\ new.crc = <<img.num, img.keys, img.values>> /\ new.num = img.num /\ new.keys = img.keys
      /\ new.values = img.values /\ new.needs_commit = img.needs_commit
  BY DEF Sealed, Digest, Whole, ConfigPartition
<1>2. Digest(img) \in (0..MAX_NUM_KV) \X Keys \X Values
  BY DEF Digest, Whole, ConfigPartition
<1>3. new \in ConfigPartition
  BY <1>2 DEF Sealed, Whole, ConfigPartition
<1> HIDE DEF new
<1>4. Whole(new)
  BY <1>1, <1>3 DEF Whole, Used
<1>5. Visible(new) = Visible(img)
  BY <1>1, <1>4, SameVisible DEF Used
<1> QED
  BY <1>1, <1>4, <1>5 DEF Digest, new

------------------------------------------------------------------------------
(* The flash. *)

\* What the two sectors of a partition may hold: the checksum in the first is
\* of some image, which need not be the one whose values the second holds.
Filed(fs) ==
  /\ fs = [s \in Sectors |-> fs[s]]
  /\ \/ fs[1] = Erased
     \/ \E img : Whole(img) /\ img.crc = Digest(img) /\ fs[1] = Piece(img, 1)
  /\ \/ fs[2] = Erased
     \/ \E img : Whole(img) /\ fs[2] = Piece(img, 2)

\* What is read is an image, but for the count (load_with).
LEMMA ReadType ==
  ASSUME NEW fs, Filed(fs)
  PROVE  /\ Read(fs).crc \in {None} \cup ((0..MAX_NUM_KV) \X Keys \X Values)
         /\ Read(fs).keys \in Keys /\ Read(fs).values \in Values
         /\ Read(fs).num \in Nat /\ Read(fs).needs_commit = FALSE
<1>1. Blank \in Keys /\ Blank \in Values
  BY DEF Blank, Keys, Values
<1>2. /\ Read(fs).crc \in {None} \cup ((0..MAX_NUM_KV) \X Keys \X Values)
      /\ Read(fs).keys \in Keys /\ Read(fs).num \in Nat
  <2>1. CASE fs[1] = Erased
    BY <1>1, <2>1, ConfigAssumption DEF Read, Erased
  <2>2. ASSUME NEW img, Whole(img), fs[1] = Piece(img, 1)
        PROVE  /\ Read(fs).crc \in {None} \cup ((0..MAX_NUM_KV) \X Keys \X Values)
               /\ Read(fs).keys \in Keys /\ Read(fs).num \in Nat
    <3>1. /\ fs[1].erased = FALSE /\ fs[1].crc = img.crc /\ fs[1].num = img.num
          /\ fs[1].keys = img.keys
      BY <2>2 DEF Piece
    <3>2. Read(fs).crc = img.crc /\ Read(fs).num = img.num /\ Read(fs).keys = img.keys
      BY <3>1 DEF Read
    <3> QED
      BY <2>2, <3>2, ConfigAssumption DEF Whole, ConfigPartition
  <2> QED
    BY <2>1, <2>2 DEF Filed
<1>3. Read(fs).values \in Values
  <2>1. CASE fs[2] = Erased
    BY <1>1, <2>1 DEF Read, Erased
  <2>2. ASSUME NEW img, Whole(img), fs[2] = Piece(img, 2) PROVE Read(fs).values \in Values
    <3>1. fs[2].erased = FALSE /\ fs[2].values = img.values
      BY <2>2 DEF Piece
    <3>2. Read(fs).values = img.values
      BY <3>1 DEF Read
    <3> QED
      BY <2>2, <3>2 DEF Whole, ConfigPartition
  <2> QED
    BY <2>1, <2>2 DEF Filed
<1> QED
  BY <1>2, <1>3 DEF Read

\* A partition loads as the image its first sector was written from, or with
\* no keys (load_with).
LEMMA LoadEither ==
  ASSUME NEW fs, Filed(fs)
  PROVE  /\ Whole(LoadWith(fs)) /\ ~LoadWith(fs).needs_commit
         /\ \/ Visible(LoadWith(fs)) = [k \in ShortKey |-> None]
            \/ \E img : /\ Whole(img) /\ img.crc = Digest(img) /\ fs[1] = Piece(img, 1)
                        /\ Visible(LoadWith(fs)) = Visible(img)
<1> DEFINE read == Read(fs)
           new == LoadWith(fs)
<1>1. /\ read.crc \in {None} \cup ((0..MAX_NUM_KV) \X Keys \X Values)
      /\ read.keys \in Keys /\ read.values \in Values /\ read.num \in Nat
      /\ read.needs_commit = FALSE
  BY ReadType
<1>2. read = [crc |-> read.crc, num |-> read.num, keys |-> read.keys, values |-> read.values,
              needs_commit |-> FALSE]
  BY DEF Read
<1>3. CASE ~Checks(read)
  <2>1. new = [read EXCEPT !.num = 0]
    BY <1>3 DEF LoadWith
  <2>2. PICK c, n, ks, vs : /\ c = read.crc /\ n = read.num /\ ks = read.keys /\ vs = read.values
    OBVIOUS
  <2>3. new = [crc |-> c, num |-> 0, keys |-> ks, values |-> vs, needs_commit |-> FALSE]
    <3>1. read = [crc |-> c, num |-> n, keys |-> ks, values |-> vs, needs_commit |-> FALSE]
      BY <1>2, <2>2
    <3> HIDE DEF read
    <3> QED
      BY <2>1, <3>1
  <2> HIDE DEF new, read
  <2>4. new \in ConfigPartition /\ new.num = 0 /\ new.needs_commit = FALSE
    BY <1>1, <2>2, <2>3, ConfigAssumption DEF ConfigPartition
  <2>5. Used(new) = {}
    BY <2>4, ConfigAssumption DEF Used, Slot
  <2>6. \A k : Get(new, k) = None
    BY <2>5, FindNone DEF Find
  <2> QED
    BY <2>4, <2>5, <2>6 DEF Whole, Visible, new
<1>4. CASE Checks(read)
  <2>1. new = read /\ read.num <= MAX_NUM_KV /\ read.crc = <<read.num, read.keys, read.values>>
    BY <1>4 DEF LoadWith, Checks, Digest
  <2>2. fs[1] # Erased
    <3> SUFFICES ASSUME fs[1] = Erased PROVE FALSE
      OBVIOUS
    <3>1. read.num = MAX_NUM_KV + 1
      BY DEF Read, Erased
    <3> QED
      BY <2>1, <3>1, ConfigAssumption
  <2>3. PICK img : Whole(img) /\ img.crc = Digest(img) /\ fs[1] = Piece(img, 1)
    BY <2>2 DEF Filed
  <2>4. /\ fs[1].erased = FALSE /\ fs[1].crc = img.crc /\ fs[1].num = img.num
        /\ fs[1].keys = img.keys
    BY <2>3 DEF Piece
  <2>5. read.crc = img.crc /\ read.num = img.num /\ read.keys = img.keys
    BY <2>4 DEF Read
  <2> HIDE DEF new, read
  <2>6. <<read.num, read.keys, read.values>> = <<img.num, img.keys, img.values>>
    BY <2>1, <2>3, <2>5 DEF Digest
  <2>7. read.values = img.values
    BY <2>6
  <2>8. img.num \in 0..MAX_NUM_KV
    BY <2>3 DEF Whole, ConfigPartition
  <2>9. read \in ConfigPartition
    BY <1>1, <1>2, <2>5, <2>8 DEF ConfigPartition
  <2>10. Whole(read)
    BY <2>3, <2>5, <2>7, <2>9 DEF Whole, Used
  <2>11. Visible(read) = Visible(img)
    BY <2>3, <2>5, <2>7, <2>10, SameVisible
  <2> QED
    BY <1>1, <2>1, <2>3, <2>10, <2>11 DEF new
<1> QED
  BY <1>3, <1>4

\* While a partition is written, it loads as it is written or with no keys.
LEMMA LoadHalfWritten ==
  ASSUME NEW fs, Filed(fs), NEW img, Whole(img), img.crc = Digest(img), fs[1] = Piece(img, 1)
  PROVE  Visible(LoadWith(fs)) \in {Visible(img), [k \in ShortKey |-> None]}
<1> SUFFICES ASSUME NEW old, Whole(old), old.crc = Digest(old), fs[1] = Piece(old, 1)
             PROVE  Visible(old) = Visible(img)
  BY LoadEither
<1>1. Piece(old, 1).crc = old.crc /\ Piece(img, 1).crc = img.crc
  BY DEF Piece
<1>2. <<old.num, old.keys, old.values>> = <<img.num, img.keys, img.values>>
  BY <1>1 DEF Digest
<1>3. old.num = img.num /\ old.keys = img.keys /\ old.values = img.values
  BY <1>2
<1> QED
  BY <1>3, SameVisible

\* A partition whose first sector is blank loads with no keys.
LEMMA LoadErased ==
  ASSUME NEW fs, fs[1] = Erased, Filed(fs)
  PROVE  Visible(LoadWith(fs)) = [k \in ShortKey |-> None]
<1>1. \A img : fs[1] # Piece(img, 1)
  <2> SUFFICES ASSUME NEW img, fs[1] = Piece(img, 1) PROVE FALSE
    OBVIOUS
  <2>1. fs[1].erased = TRUE
    BY DEF Erased
  <2>2. fs[1].erased = FALSE
    BY DEF Piece
  <2> QED
    BY <2>1, <2>2
<1> QED
  BY <1>1, LoadEither

\* A partition that was written whole loads as it was.
LEMMA LoadSaved ==
  ASSUME NEW fs, Filed(fs), NEW img, Whole(img), img.crc = Digest(img),
         fs[1] = Piece(img, 1), fs[2] = Piece(img, 2)
  PROVE  Visible(LoadWith(fs)) = Visible(img)
<1> DEFINE read == Read(fs)
<1>1. /\ fs[1].erased = FALSE /\ fs[1].crc = img.crc /\ fs[1].num = img.num
      /\ fs[1].keys = img.keys /\ fs[2].erased = FALSE /\ fs[2].values = img.values
  BY DEF Piece
<1>2. /\ read.crc = img.crc /\ read.num = img.num /\ read.keys = img.keys
      /\ read.values = img.values
  BY <1>1 DEF Read
<1>3. img.num <= MAX_NUM_KV
  BY ConfigAssumption DEF Whole, ConfigPartition
<1>4. Checks(read)
  BY <1>2, <1>3 DEF Checks, Digest
<1>5. LoadWith(fs) = read
  BY <1>4 DEF LoadWith
<1>6. Whole(LoadWith(fs))
  BY LoadEither
<1> HIDE DEF read
<1> QED
  BY <1>2, <1>5, <1>6, SameVisible

------------------------------------------------------------------------------
(* The calls, each with what a lookup sees of it. *)

\* An image that changed in nothing a lookup or a status request sees.
Alike(new, old) ==
  Whole(new) /\ new.needs_commit = old.needs_commit /\ Visible(new) = Visible(old)
\* An image that asks to be committed and differs in one key at most.
SetTo(new, old, k, v) ==
  /\ Whole(new) /\ new.needs_commit
  /\ Visible(new) = IF k \in ShortKey THEN [Visible(old) EXCEPT ![k] = v] ELSE Visible(old)

\* set_cbor sets its key or leaves all as it was (set_cbor).
LEMMA SetCborVisible ==
  ASSUME NEW img, Whole(img), NEW k \in Key, NEW v \in Value \cup {OddValue}
  PROVE  /\ SetCborOk(img, k, v) => SetTo(SetCbor(img, k, v), img, k, v) /\ v \in Value
         /\ ~SetCborOk(img, k, v) => Alike(SetCbor(img, k, v), img)
<1>1. CASE SetCborOk(img, k, v)
  <2>1. k \in ShortKey \cup LongKey /\ v \in Value /\ (Find(img, k) = {} => ~Full(img))
    BY <1>1 DEF SetCborOk, Key
  <2>2. SetCbor(img, k, v) = Stored(img, k, v)
    BY <1>1 DEF SetCbor
  <2> QED
    BY <1>1, <2>1, <2>2, StoredVisible DEF SetTo
<1>2. CASE ~SetCborOk(img, k, v) /\ k \notin BadKey /\ Find(img, k) = {} /\ ~Full(img)
  <2>1. k \in ShortKey \cup LongKey
    BY <1>2 DEF Key
  <2>2. SetCbor(img, k, v) = [img EXCEPT !.keys[Place(img, k)] = k]
    BY <1>2 DEF SetCbor
  <2> QED
    BY <1>2, <2>1, <2>2, NamedVisible DEF Alike
<1>3. CASE ~SetCborOk(img, k, v) /\ ~(k \notin BadKey /\ Find(img, k) = {} /\ ~Full(img))
  BY <1>3 DEF SetCbor, Alike
<1> QED
  BY <1>1, <1>2, <1>3

\* set_uint to set_buffer set their key, spoil it or leave all as it was
\* (set_typed).
LEMMA SetTypedVisible ==
  ASSUME NEW img, Whole(img), NEW k \in Key, NEW v \in Value \cup {TooLong}
  PROVE  LET new == SetTyped(img, k, v)
         IN  \/ v \in Value /\ SetTo(new, img, k, v)
             \/ /\ v = TooLong /\ ~Full(img) /\ Find(img, k) # {} /\ k \in ShortKey
                /\ Whole(new) /\ Visible(new) = [Visible(img) EXCEPT ![k] = Spoilt]
             \/ Alike(new, img)
<1> DEFINE new == SetTyped(img, k, v)
<1>1. CASE SetTypedOk(img, k, v)
  <2>1. k \in ShortKey \cup LongKey /\ v \in Value /\ ~Full(img)
    BY <1>1 DEF SetTypedOk, Key
  <2>2. new = Stored(img, k, v)
    BY <1>1 DEF SetTyped
  <2> QED
    BY <2>1, <2>2, StoredVisible DEF SetTo
<1>2. CASE ~SetTypedOk(img, k, v) /\ k \notin BadKey /\ ~Full(img)
  <2>1. new = [img EXCEPT !.keys[Place(img, k)] = k, !.values[Place(img, k)] = Spoilt]
    BY <1>2 DEF SetTyped
  <2>2. k \in ShortKey \cup LongKey /\ v = TooLong
    BY <1>2 DEF SetTypedOk, Key
  <2> HIDE DEF new
  <2>3. CASE Find(img, k) = {}
    <3>1. Alike(new, img)
      BY <1>2, <2>1, <2>2, <2>3, RefusedVisible DEF Alike
    <3> QED
      BY <3>1 DEF new
  <2>4. CASE Find(img, k) # {}
    <3>1. k \in ShortKey
      BY <2>4 DEF Find
    <3>2. Whole(new) /\ Visible(new) = [Visible(img) EXCEPT ![k] = Spoilt]
      BY <2>1, <2>4, <3>1, SpoiltVisible
    <3> QED
      BY <1>2, <2>2, <2>4, <3>1, <3>2 DEF new
  <2> QED
    BY <2>3, <2>4
<1>3. CASE ~SetTypedOk(img, k, v) /\ ~(k \notin BadKey /\ ~Full(img))
  BY <1>3 DEF SetTyped, Alike
<1> QED
  BY <1>1, <1>2, <1>3

------------------------------------------------------------------------------
(* The invariant. *)

\* The images in memory and in the flash.
ImageInv ==
  /\ mix \in Mixes
  /\ ram = [p \in Partition |-> ram[p]] /\ \A p \in Partition : Whole(ram[p])
  /\ flash = [p \in Partition |-> flash[p]] /\ \A p \in Partition : Filed(flash[p])
  /\ readable \subseteq Partition /\ unnoticed \subseteq Partition

\* While a partition is written it stays sealed, what is written of it stays
\* in the flash, and no answer waits to be sent.
WriteInv ==
  writing # NoWrite =>
    /\ writing \in [part : Partition, sector : 1..3, blank : BOOLEAN, restart : BOOLEAN]
    /\ ram[writing.part].crc = Digest(ram[writing.part])
    /\ writing.sector >= 2 => flash[writing.part][1] = Piece(ram[writing.part], 1)
    /\ reply = Nothing

\* CleanIsStored, also for the partitions not being written while one is.
CleanInv ==
  \A p \in readable \ unnoticed :
    /\ writing = NoWrite \/ p # writing.part
    /\ ~ram[p].needs_commit
    => Visible(ram[p]) = Visible(LoadWith(flash[p]))

Inv == ImageInv /\ WriteInv /\ CleanInv

\* A call that changes one partition in memory.
LEMMA CallKeepsInv ==
  ASSUME Inv, NEW q \in Partition, NEW img, Whole(img), ram' = [ram EXCEPT ![q] = img],
         writing = NoWrite, UNCHANGED <<flash, writing, readable, mix>>,
         unnoticed \subseteq unnoticed', unnoticed' \subseteq Partition,
         q \in unnoticed' \/ img.needs_commit \/ Alike(img, ram[q])
  PROVE  Inv'
<1>1. \A p \in Partition : ram'[p] = IF p = q THEN img ELSE ram[p]
  BY DEF Inv, ImageInv
<1>2. ram' = [p \in Partition |-> ram'[p]]
  BY DEF Inv, ImageInv
<1>3. ImageInv'
  BY <1>1, <1>2 DEF Inv, ImageInv
<1>4. WriteInv'
  BY DEF Inv, WriteInv
<1>5. CleanInv'
  <2> SUFFICES ASSUME NEW p \in readable \ unnoticed', ~ram'[p].needs_commit
               PROVE  Visible(ram'[p]) = Visible(LoadWith(flash[p]))
    BY DEF CleanInv
  <2>1. p \in Partition /\ p \in readable \ unnoticed
    BY DEF Inv, ImageInv
  <2>2. CASE p = q
    BY <1>1, <2>1, <2>2 DEF Inv, CleanInv, Alike
  <2>3. CASE p # q
    BY <1>1, <2>1, <2>3 DEF Inv, CleanInv
  <2> QED
    BY <2>2, <2>3
<1> QED
  BY <1>3, <1>4, <1>5 DEF Inv

\* What the assumption on the traffic says of a call.
LEMMA CallType ==
  ASSUME Inv, NEW c \in mix.calls
  PROVE  /\ c.op # "clear" => c.part \in Partition
         /\ c.op \in {"set_cbor", "set_typed", "get", "remove_key"} => c.key \in Key
         /\ c.op = "set_cbor" => c.value \in Value \cup {OddValue}
         /\ c.op = "set_typed" => c.value \in Value \cup {TooLong}
         /\ c.op = "commit" => c.restart \in BOOLEAN
BY ConfigAssumption DEF Inv, ImageInv

\* Each call keeps the invariant.
LEMMA CallStep ==
  ASSUME Inv, NEW c \in mix.calls,
         \/ CallSetCbor(c) \/ CallSetTyped(c) \/ CallGet(c) \/ CallRemoveKey(c) \/ CallClear(c)
         \/ CallStatus(c)
  PROVE  Inv'
<1> DEFINE q == c.part
<1>1. writing = NoWrite /\ UNCHANGED <<flash, writing, readable, mix>>
  BY DEF CallSetCbor, CallSetTyped, CallGet, CallRemoveKey, CallClear, CallStatus, Calls, Still
<1>2. unnoticed \subseteq Partition
  BY DEF Inv, ImageInv
<1>3. CASE CallSetCbor(c)
  <2>1. q \in Partition /\ c.key \in Key /\ c.value \in Value \cup {OddValue}
    BY <1>3, CallType DEF CallSetCbor, Calls
  <2>2. ram' = [ram EXCEPT ![q] = SetCbor(ram[q], c.key, c.value)] /\ unnoticed' = unnoticed
    BY <1>3 DEF CallSetCbor, Change
  <2>3. Whole(ram[q])
    BY <2>1 DEF Inv, ImageInv
  <2>4. LET new == SetCbor(ram[q], c.key, c.value)
        IN  Whole(new) /\ (new.needs_commit \/ Alike(new, ram[q]))
    BY <2>1, <2>3, SetCborVisible DEF SetTo, Alike
  <2> QED
    BY <1>1, <1>2, <2>1, <2>2, <2>4, CallKeepsInv
<1>4. CASE CallSetTyped(c)
  <2>1. q \in Partition /\ c.key \in Key /\ c.value \in Value \cup {TooLong}
    BY <1>4, CallType DEF CallSetTyped, Calls
  <2>2. /\ ram' = [ram EXCEPT ![q] = SetTyped(ram[q], c.key, c.value)]
        /\ unnoticed' = IF c.value = TooLong /\ ~Full(ram[q]) /\ Find(ram[q], c.key) # {}
                        THEN unnoticed \cup {q} ELSE unnoticed
    BY <1>4 DEF CallSetTyped, Change
  <2>3. Whole(ram[q])
    BY <2>1 DEF Inv, ImageInv
  <2>4. LET new == SetTyped(ram[q], c.key, c.value)
        IN  Whole(new) /\ (q \in unnoticed' \/ new.needs_commit \/ Alike(new, ram[q]))
    <3> DEFINE new == SetTyped(ram[q], c.key, c.value)
    <3>1. \/ SetTo(new, ram[q], c.key, c.value)
          \/ /\ c.value = TooLong /\ ~Full(ram[q]) /\ Find(ram[q], c.key) # {} /\ Whole(new)
          \/ Alike(new, ram[q])
      BY <2>1, <2>3, SetTypedVisible
    <3> HIDE DEF new
    <3>2. Whole(new) /\ (q \in unnoticed' \/ new.needs_commit \/ Alike(new, ram[q]))
      BY <2>2, <3>1 DEF SetTo, Alike
    <3> QED
      BY <3>2 DEF new
  <2> QED
    BY <1>1, <1>2, <2>1, <2>2, <2>4, CallKeepsInv
<1>5. CASE CallGet(c) \/ CallStatus(c)
  <2>1. ram' = ram /\ unnoticed' = unnoticed
    BY <1>5 DEF CallGet, CallStatus
  <2> QED
    BY <1>1, <2>1 DEF Inv, ImageInv, WriteInv, CleanInv
<1>6. CASE CallRemoveKey(c)
  <2>1. q \in Partition /\ c.key \in Key
    BY <1>6, CallType DEF CallRemoveKey, Calls
  <2>2. ram' = [ram EXCEPT ![q] = RemoveKey(ram[q], c.key)] /\ unnoticed' = unnoticed
    BY <1>6 DEF CallRemoveKey, Change
  <2>3. Whole(ram[q])
    BY <2>1 DEF Inv, ImageInv
  <2>4. LET new == RemoveKey(ram[q], c.key)
        IN  Whole(new) /\ (new.needs_commit \/ Alike(new, ram[q]))
    <3>1. CASE Find(ram[q], c.key) = {}
      BY <2>3, <3>1 DEF RemoveKey, Alike
    <3>2. CASE Find(ram[q], c.key) # {}
      BY <2>3, <3>2, RemovedVisible
    <3> QED
      BY <3>1, <3>2
  <2> QED
    BY <1>1, <1>2, <2>1, <2>2, <2>4, CallKeepsInv
<1>7. CASE CallClear(c)
  <2>1. ram' = [p \in Partition |-> IF p = q THEN Cleared ELSE ram[p]] /\ unnoticed' = unnoticed
    BY <1>7 DEF CallClear
  <2>2. CASE q \in Partition
    <3>1. ram' = [ram EXCEPT ![q] = Cleared]
      BY <2>1, <2>2 DEF Inv, ImageInv
    <3> QED
      BY <1>1, <1>2, <2>1, <2>2, <3>1, BlankVisible, CallKeepsInv
  <2>3. CASE q \notin Partition
    <3>1. ram' = ram
      BY <2>1, <2>3 DEF Inv, ImageInv
    <3> QED
      BY <1>1, <2>1, <3>1 DEF Inv, ImageInv, WriteInv, CleanInv
  <2> QED
    BY <2>2, <2>3
<1> QED
  BY <1>3, <1>4, <1>5, <1>6, <1>7

\* Starting a commit keeps the invariant (save_config, seal).
LEMMA CommitStep ==
  ASSUME Inv, NEW c \in mix.calls, CallCommit(c)
  PROVE  Inv'
<1> DEFINE q == c.part
<1>1. q \in Partition /\ c.restart \in BOOLEAN
  BY CallType DEF CallCommit, Calls
<1>2. /\ ram' = [ram EXCEPT ![q] = Sealed(ram[q])] /\ writing = NoWrite /\ reply' = Nothing
      /\ writing' = [part |-> q, sector |-> 1, blank |-> FALSE, restart |-> c.restart]
      /\ flash' = flash /\ readable' = readable /\ unnoticed' = unnoticed /\ mix' = mix
  BY DEF CallCommit, Change, Calls
<1>3. /\ Whole(Sealed(ram[q])) /\ Sealed(ram[q]).crc = Digest(Sealed(ram[q]))
  BY <1>1, SealedVisible DEF Inv, ImageInv
<1>4. /\ \A p \in Partition : ram'[p] = IF p = q THEN Sealed(ram[q]) ELSE ram[p]
      /\ ram' = [p \in Partition |-> ram'[p]]
  BY <1>2 DEF Inv, ImageInv
<1>5. ImageInv'
  BY <1>2, <1>3, <1>4 DEF Inv, ImageInv
<1>6. WriteInv'
  <2>1. /\ writing'.part = q /\ writing'.sector = 1
        /\ writing' \in [part : Partition, sector : 1..3, blank : BOOLEAN, restart : BOOLEAN]
    BY <1>1, <1>2
  <2> QED
    BY <1>1, <1>2, <1>3, <1>4, <2>1 DEF WriteInv
<1>7. CleanInv'
  <2>1. writing' # NoWrite /\ writing'.part = q
    BY <1>2 DEF NoWrite
  <2> QED
    BY <1>2, <1>4, <2>1 DEF Inv, ImageInv, CleanInv
<1> QED
  BY <1>5, <1>6, <1>7 DEF Inv

\* What the flash holds after a write to one sector.
SectorSet(q, s, piece) == flash' = [flash EXCEPT ![q][s] = piece]
LEMMA SectorType ==
  ASSUME Inv, NEW q \in Partition, NEW s \in Sectors, NEW piece, SectorSet(q, s, piece),
         \/ piece = Erased
         \/ piece = Piece(ram[q], s) /\ ram[q].crc = Digest(ram[q])
  PROVE  /\ flash' = [p \in Partition |-> flash'[p]] /\ \A p \in Partition : Filed(flash'[p])
         /\ \A p \in Partition : p # q => flash'[p] = flash[p]
         /\ flash'[q][s] = piece /\ \A r \in Sectors : r # s => flash'[q][r] = flash[q][r]
<1>1. flash[q] = [r \in Sectors |-> flash[q][r]] /\ Filed(flash[q]) /\ Whole(ram[q])
  BY DEF Inv, ImageInv, Filed
<1>2. /\ flash' = [p \in Partition |-> flash'[p]]
      /\ flash'[q] = [flash[q] EXCEPT ![s] = piece]
      /\ \A p \in Partition : p # q => flash'[p] = flash[p]
  BY DEF Inv, ImageInv, SectorSet
<1>3. /\ flash'[q] = [r \in Sectors |-> flash'[q][r]]
      /\ flash'[q][s] = piece /\ \A r \in Sectors : r # s => flash'[q][r] = flash[q][r]
  BY <1>1, <1>2
<1>4. Filed(flash'[q])
  <2>1. CASE s = 1
    BY <1>1, <1>3, <2>1 DEF Filed, Sectors
  <2>2. CASE s = 2
    BY <1>1, <1>3, <2>2 DEF Filed, Sectors
  <2> QED
    BY <2>1, <2>2 DEF Sectors
<1> QED
  BY <1>2, <1>3, <1>4 DEF Inv, ImageInv

\* A restart keeps the invariant: it uses what it can read (load_with).
LEMMA RestartStep ==
  ASSUME Inv, NEW ok \in SUBSET Partition, Restarts(ok), flash' = flash, mix' = mix
  PROVE  Inv'
<1>1. /\ ram' = [p \in Partition |-> IF p \in ok THEN LoadWith(flash[p]) ELSE NewImage]
      /\ readable' = ok /\ unnoticed' = {} /\ writing' = NoWrite
  BY DEF Restarts
<1>2. \A p \in Partition : Whole(LoadWith(flash[p]))
  BY LoadEither DEF Inv, ImageInv
<1>3. ImageInv'
  BY <1>1, <1>2, BlankVisible DEF Inv, ImageInv
<1> QED
  BY <1>1, <1>3 DEF Inv, WriteInv, CleanInv

\* Each step of the write keeps the invariant (w25.rs write).
LEMMA WriteStep ==
  ASSUME Inv, EraseSector \/ ProgramSector \/ Finish
  PROVE  Inv'
<1> DEFINE q == writing.part
<1>1. /\ writing # NoWrite /\ q \in Partition /\ reply = Nothing
      /\ writing \in [part : Partition, sector : 1..3, blank : BOOLEAN, restart : BOOLEAN]
      /\ ram[q].crc = Digest(ram[q])
      /\ writing.sector >= 2 => flash[q][1] = Piece(ram[q], 1)
  BY DEF EraseSector, ProgramSector, Finish, Inv, WriteInv
<1>2. reply' = reply /\ readable' = readable /\ mix' = mix
  BY DEF EraseSector, ProgramSector, Finish
<1>3. NoWrite.sector = 0
  BY DEF NoWrite
<1>4. CASE EraseSector
  <2> DEFINE s == writing.sector
  <2>1. /\ s \in Sectors /\ SectorSet(q, s, Erased) /\ ram' = ram
        /\ writing' = [writing EXCEPT !.blank = TRUE] /\ unnoticed' = unnoticed
    BY <1>4 DEF EraseSector, SectorSet
  <2>2. /\ flash' = [p \in Partition |-> flash'[p]] /\ \A p \in Partition : Filed(flash'[p])
        /\ \A p \in Partition : p # q => flash'[p] = flash[p]
        /\ \A r \in Sectors : r # s => flash'[q][r] = flash[q][r]
    BY <1>1, <2>1, SectorType
  <2>3. /\ writing' \in [part : Partition, sector : 1..3, blank : BOOLEAN, restart : BOOLEAN]
        /\ writing'.part = q /\ writing'.sector = s
    BY <1>1, <2>1
  <2>4. s >= 2 => flash'[q][1] = flash[q][1]
    BY <2>1, <2>2 DEF Sectors
  <2>5. ImageInv'
    BY <1>2, <2>1, <2>2 DEF Inv, ImageInv
  <2>6. WriteInv'
    BY <1>1, <1>2, <2>1, <2>3, <2>4 DEF WriteInv
  <2>7. CleanInv'
    <3>1. writing' # NoWrite
      BY <1>3, <2>1, <2>3 DEF Sectors
    <3> QED
      BY <1>2, <2>1, <2>2, <2>3, <3>1 DEF Inv, ImageInv, CleanInv
  <2> QED
    BY <2>5, <2>6, <2>7 DEF Inv
<1>5. CASE ProgramSector
  <2>1. /\ writing.sector = 1 /\ SectorSet(q, 1, Piece(ram[q], 1)) /\ ram' = ram
        /\ writing' = [writing EXCEPT !.sector = writing.sector + 1, !.blank = FALSE]
        /\ unnoticed' = unnoticed
    <3>1. writing.sector = 1
      BY <1>5 DEF ProgramSector, Sectors
    <3>2. /\ ram' = ram /\ unnoticed' = unnoticed
          /\ writing' = [writing EXCEPT !.sector = writing.sector + 1, !.blank = FALSE]
      BY <1>5 DEF ProgramSector
    <3>3. flash' = [flash EXCEPT ![q][1] = Piece(ram[q], 1)]
      BY <1>5, <3>1 DEF ProgramSector, Written
    <3> QED
      BY <3>1, <3>2, <3>3 DEF SectorSet
  <2>2. /\ flash' = [p \in Partition |-> flash'[p]] /\ \A p \in Partition : Filed(flash'[p])
        /\ \A p \in Partition : p # q => flash'[p] = flash[p]
        /\ flash'[q][1] = Piece(ram[q], 1)
    BY <1>1, <2>1, SectorType DEF Sectors
  <2>3. /\ writing' \in [part : Partition, sector : 1..3, blank : BOOLEAN, restart : BOOLEAN]
        /\ writing'.part = q /\ writing'.sector = 2
    <3>1. writing.sector + 1 \in 1..3 /\ writing.sector + 1 = 2
      BY <2>1
    <3> QED
      BY <1>1, <2>1, <3>1
  <2>4. ImageInv'
    BY <1>2, <2>1, <2>2 DEF Inv, ImageInv
  <2>5. WriteInv'
    BY <1>1, <1>2, <2>1, <2>2, <2>3 DEF WriteInv
  <2>6. CleanInv'
    <3>1. writing' # NoWrite
      BY <1>3, <2>3
    <3> QED
      BY <1>2, <2>1, <2>2, <2>3, <3>1 DEF Inv, ImageInv, CleanInv
  <2> QED
    BY <2>4, <2>5, <2>6 DEF Inv
<1>6. CASE Finish
  <2>1. writing.sector = 2 /\ SectorSet(q, 2, Piece(ram[q], 2))
    BY <1>6 DEF Finish, Written, SectorSet
  <2>2. /\ flash' = [p \in Partition |-> flash'[p]] /\ \A p \in Partition : Filed(flash'[p])
        /\ \A p \in Partition : p # q => flash'[p] = flash[p]
        /\ flash'[q][2] = Piece(ram[q], 2) /\ flash'[q][1] = Piece(ram[q], 1)
    BY <1>1, <2>1, SectorType DEF Sectors
  <2>3. CASE writing.restart
    <3>1. writing' = [writing EXCEPT !.sector = 3] /\ ram' = ram /\ unnoticed' = unnoticed
      BY <1>6, <2>3 DEF Finish
    <3>2. /\ writing' \in [part : Partition, sector : 1..3, blank : BOOLEAN, restart : BOOLEAN]
          /\ writing'.part = q /\ writing'.sector = 3
      BY <1>1, <3>1
    <3>3. ImageInv'
      BY <1>2, <2>2, <3>1 DEF Inv, ImageInv
    <3>4. WriteInv'
      BY <1>1, <1>2, <2>2, <3>1, <3>2 DEF WriteInv
    <3>5. CleanInv'
      <4>1. writing' # NoWrite
        BY <1>3, <3>2
      <4> QED
        BY <1>2, <2>2, <3>1, <3>2, <4>1 DEF Inv, ImageInv, CleanInv
    <3> QED
      BY <3>3, <3>4, <3>5 DEF Inv
  <2>4. CASE ~writing.restart
    <3>1. /\ writing' = NoWrite /\ ram' = [ram EXCEPT ![q].needs_commit = FALSE]
          /\ unnoticed' = unnoticed \ {q}
      BY <1>6, <2>4 DEF Finish
    <3>2. /\ ram' = [p \in Partition |-> ram'[p]]
          /\ \A p \in Partition : p # q => ram'[p] = ram[p]
          /\ ram'[q] = [ram[q] EXCEPT !.needs_commit = FALSE]
      BY <1>1, <3>1 DEF Inv, ImageInv
    <3>3. Whole(ram'[q]) /\ Visible(ram'[q]) = Visible(ram[q])
      <4>1. Whole(ram[q])
        BY <1>1 DEF Inv, ImageInv
      <4> DEFINE old == ram[q]
                 new == ram'[q]
      <4>2. /\ new \in ConfigPartition /\ new.num = old.num /\ new.keys = old.keys
            /\ new.values = old.values
        BY <3>2, <4>1 DEF Whole, ConfigPartition
      <4> HIDE DEF old, new
      <4>3. Whole(new)
        BY <4>1, <4>2 DEF Whole, Used, old
      <4>4. Visible(new) = Visible(old)
        BY <4>1, <4>2, <4>3, SameVisible DEF old
      <4> QED
        BY <4>3, <4>4 DEF old, new
    <3>4. ImageInv'
      BY <1>2, <2>2, <3>1, <3>2, <3>3 DEF Inv, ImageInv
    <3>5. WriteInv'
      BY <3>1 DEF WriteInv
    <3>6. CleanInv'
      <4> SUFFICES ASSUME NEW p \in readable \ unnoticed', ~ram'[p].needs_commit
                   PROVE  Visible(ram'[p]) = Visible(LoadWith(flash'[p]))
        BY <1>2, <3>1 DEF CleanInv
      <4>1. p \in Partition
        BY DEF Inv, ImageInv
      <4>2. CASE p = q
        <5>1. Visible(LoadWith(flash'[q])) = Visible(ram[q])
          BY <1>1, <2>2, LoadSaved DEF Inv, ImageInv
        <5> QED
          BY <3>3, <4>2, <5>1
      <4>3. CASE p # q
        BY <2>2, <3>1, <3>2, <4>1, <4>3 DEF Inv, CleanInv
      <4> QED
        BY <4>2, <4>3
    <3> QED
      BY <3>4, <3>5, <3>6 DEF Inv
  <2> QED
    BY <2>3, <2>4
<1> QED
  BY <1>4, <1>5, <1>6

\* The invariant holds from the start and is kept by every step.
LEMMA InvInit == Init => Inv
<1> SUFFICES ASSUME Init PROVE Inv
  OBVIOUS
<1>1. \A p \in Partition : Filed(flash[p])
  <2> SUFFICES ASSUME NEW p \in Partition PROVE Filed(flash[p])
    OBVIOUS
  <2>1. flash[p] = [s \in Sectors |-> Erased]
    BY DEF Init
  <2> QED
    BY <2>1 DEF Filed, Sectors
<1>2. \A p \in Partition : Whole(LoadWith(flash[p]))
  BY <1>1, LoadEither
<1>3. ImageInv
  BY <1>1, <1>2 DEF Init, ImageInv
<1>4. WriteInv /\ CleanInv
  BY DEF Init, WriteInv, CleanInv
<1> QED
  BY <1>3, <1>4 DEF Inv

LEMMA InvStep ==
  ASSUME Inv, [Next]_vars
  PROVE  Inv'
<1>1. CASE UNCHANGED vars
  BY <1>1 DEF vars, Inv, ImageInv, WriteInv, CleanInv
<1>2. CASE Call
  BY <1>2, CallStep, CommitStep DEF Call
<1>3. CASE EraseSector \/ ProgramSector \/ Finish
  BY <1>3, WriteStep
<1>4. CASE Reset \/ PowerFails
  <2>1. PICK lost : Restarts(Partition \ lost) /\ flash' = flash /\ mix' = mix
    BY <1>4 DEF Reset, PowerFails
  <2> QED
    BY <2>1, RestartStep
<1>5. CASE WriteFails
  <2>1. /\ writing' = NoWrite /\ unnoticed' = unnoticed \cup {writing.part} /\ writing # NoWrite
        /\ ram' = ram /\ flash' = flash /\ readable' = readable /\ mix' = mix
    BY <1>5 DEF WriteFails
  <2>2. writing.part \in Partition
    BY <2>1 DEF Inv, WriteInv
  <2> QED
    BY <2>1, <2>2 DEF Inv, ImageInv, WriteInv, CleanInv
<1> QED
  BY <1>1, <1>2, <1>3, <1>4, <1>5 DEF Next

\* What is answered is true of the partition, and stays so until the next
\* answer (node/config.rs process_config).
LEMMA AnswerStep ==
  ASSUME Inv, AnswerIsTrue, [Next]_vars
  PROVE  AnswerIsTrue'
<1>1. reply' = Nothing => AnswerIsTrue'
  BY DEF AnswerIsTrue, Nothing
<1>2. CASE UNCHANGED vars
  BY <1>2 DEF vars, AnswerIsTrue, Get, Find, Place, Used
<1>3. CASE EraseSector \/ ProgramSector \/ Finish \/ Reset \/ WriteFails
  <2>1. writing # NoWrite /\ reply' = reply
    BY <1>3 DEF EraseSector, ProgramSector, Finish, Reset, WriteFails
  <2> QED
    BY <1>1, <2>1 DEF Inv, WriteInv
<1>4. CASE PowerFails
  BY <1>1, <1>4 DEF PowerFails
<1>5. ASSUME NEW c \in mix.calls, CallSetCbor(c)
      PROVE  AnswerIsTrue'
  <2> DEFINE q == c.part
             new == SetCbor(ram[q], c.key, c.value)
  <2>1. q \in Partition /\ c.key \in Key /\ c.value \in Value \cup {OddValue}
    BY <1>5, CallType DEF CallSetCbor, Calls
  <2>2. ram'[q] = new /\ Whole(ram[q])
    BY <1>5, <2>1 DEF CallSetCbor, Change, Inv, ImageInv
  <2>3. CASE reply' # Nothing
    <3>1. /\ SetCborOk(ram[q], c.key, c.value) /\ reply'.type = "CONFIG_VALUE"
          /\ reply'.part = q /\ reply'.key = c.key /\ reply'.value = c.value
      BY <1>5, <2>3 DEF CallSetCbor, Answer
    <3>2. c.key \in ShortKey => Get(new, c.key) = c.value
      <4>1. c.key \in ShortKey => Visible(new) = [Visible(ram[q]) EXCEPT ![c.key] = c.value]
        BY <2>1, <2>2, <3>1, SetCborVisible DEF SetTo
      <4>2. c.key \in ShortKey => Visible(new)[c.key] = c.value
        BY <4>1 DEF Visible
      <4> QED
        BY <4>2 DEF Visible
    <3> QED
      BY <2>2, <3>1, <3>2 DEF AnswerIsTrue
  <2> QED
    BY <1>1, <2>3
<1>6. ASSUME NEW c \in mix.calls, CallGet(c)
      PROVE  AnswerIsTrue'
  <2>1. ram' = ram
    BY <1>6 DEF CallGet
  <2>2. CASE reply' # Nothing
    <3>1. /\ reply'.type = "CONFIG_VALUE" /\ reply'.part = c.part /\ reply'.key = c.key
          /\ reply'.value = Get(ram[c.part], c.key)
      BY <1>6, <2>2 DEF CallGet, Answer
    <3> QED
      BY <2>1, <3>1 DEF AnswerIsTrue
  <2> QED
    BY <1>1, <2>2
<1>7. ASSUME NEW c \in mix.calls, CallRemoveKey(c)
      PROVE  AnswerIsTrue'
  <2> DEFINE q == c.part
             new == RemoveKey(ram[q], c.key)
  <2>1. q \in Partition
    BY <1>7, CallType DEF CallRemoveKey, Calls
  <2>2. ram'[q] = new /\ Whole(ram[q])
    BY <1>7, <2>1 DEF CallRemoveKey, Change, Inv, ImageInv
  <2>3. Find(new, c.key) = {}
    <3>1. CASE Find(ram[q], c.key) = {}
      BY <3>1 DEF RemoveKey
    <3>2. CASE Find(ram[q], c.key) # {}
      BY <2>2, <3>2, RemovedVisible
    <3> QED
      BY <3>1, <3>2
  <2>4. CASE reply' # Nothing
    <3>1. reply'.type = "CONFIG_DELETE_RESPONSE" /\ reply'.part = q /\ reply'.key = c.key
      BY <1>7, <2>4 DEF CallRemoveKey, Answer
    <3> QED
      BY <2>2, <2>3, <3>1 DEF AnswerIsTrue
  <2> QED
    BY <1>1, <2>4
<1>8. ASSUME NEW c \in mix.calls, CallClear(c) \/ CallStatus(c)
      PROVE  AnswerIsTrue'
  <2>1. CASE reply' # Nothing
    <3>1. reply'.type \in {"CONFIG_CLEAR_RESPONSE", "CONFIG_STATUS_RESPONSE"}
      BY <1>8, <2>1 DEF CallClear, CallStatus, Answer
    <3> QED
      BY <3>1 DEF AnswerIsTrue
  <2> QED
    BY <1>1, <2>1
<1>9. ASSUME NEW c \in mix.calls, CallSetTyped(c) \/ CallCommit(c)
      PROVE  AnswerIsTrue'
  BY <1>1, <1>9 DEF CallSetTyped, CallCommit
<1> QED
  BY <1>2, <1>3, <1>4, <1>5, <1>6, <1>7, <1>8, <1>9 DEF Next, Call

------------------------------------------------------------------------------
(* The promise of KeyStore. *)

Map == [p \in Partition |-> Visible(ram[p])]
KeptMap == [p \in Partition |-> Visible(LoadWith(flash[p]))]
EmptyMap == [k \in ShortKey |-> None]

\* A key with another value, in an image and in the map.
Differs(new, old, k, v) == Visible(new) = [Visible(old) EXCEPT ![k] = v]
MapSet(p, k, v) == Map' = [Map EXCEPT ![p][k] = v]

\* A call changes one key of one partition, or clears it, and keeps what is
\* kept (configuration.rs, set_cbor to clear_partition).
LEMMA CallKeepsPromise ==
  ASSUME Inv, NEW c \in mix.calls,
         \/ CallSetCbor(c) \/ CallSetTyped(c) \/ CallGet(c) \/ CallRemoveKey(c) \/ CallClear(c)
         \/ CallStatus(c) \/ CallCommit(c)
  PROVE  /\ KeptMap' = KeptMap
         /\ \/ Map' = Map
            \/ \E p \in Partition :
                 \/ \E k \in ShortKey :
                      \/ Map' = [Map EXCEPT ![p][k] = None]
                      \/ Map[p][k] # None /\ Map' = [Map EXCEPT ![p][k] = Spoilt]
                      \/ \E v \in Value : Map' = [Map EXCEPT ![p][k] = v]
                 \/ Map' = [Map EXCEPT ![p] = EmptyMap]
<1> DEFINE q == c.part
<1>1. flash' = flash
  BY DEF CallSetCbor, CallSetTyped, CallGet, CallRemoveKey, CallClear, CallStatus, CallCommit, Still
<1>2. KeptMap' = KeptMap
  BY <1>1 DEF KeptMap
<1>3. ASSUME NEW p \in Partition, NEW img, Change(p, img)
      PROVE  Map' = [Map EXCEPT ![p] = Visible(img)]
  BY <1>3 DEF Map, Inv, ImageInv, Change
<1>4. ASSUME NEW p \in Partition, NEW k \in ShortKey, NEW v, NEW img,
             Change(p, img), Differs(img, ram[p], k, v)
      PROVE  MapSet(p, k, v)
  <2>1. Map[p] = Visible(ram[p]) /\ Map' = [Map EXCEPT ![p] = Visible(img)]
    BY <1>3, <1>4 DEF Map
  <2> QED
    BY <1>4, <2>1 DEF Differs, MapSet
<1>5. ASSUME NEW p \in Partition, NEW img, Change(p, img),
             Visible(img) = Visible(ram[p])
      PROVE  Map' = Map
  <2>1. Map[p] = Visible(ram[p]) /\ Map' = [Map EXCEPT ![p] = Visible(img)]
    BY <1>3, <1>5 DEF Map
  <2> QED
    BY <1>5, <2>1 DEF Map
<1>6. CASE CallSetCbor(c)
  <2> DEFINE new == SetCbor(ram[q], c.key, c.value)
  <2>1. q \in Partition /\ c.key \in Key /\ c.value \in Value \cup {OddValue}
    BY <1>6, CallType DEF CallSetCbor, Calls
  <2>2. Change(q, new)
    BY <1>6 DEF CallSetCbor
  <2>3. \/ c.value \in Value /\ SetTo(new, ram[q], c.key, c.value)
        \/ Alike(new, ram[q])
    BY <2>1, SetCborVisible DEF Inv, ImageInv
  <2> HIDE DEF new
  <2>4. CASE c.value \in Value /\ c.key \in ShortKey /\ SetTo(new, ram[q], c.key, c.value)
    <3>1. Differs(new, ram[q], c.key, c.value)
      BY <2>4 DEF SetTo, Differs
    <3>2. MapSet(q, c.key, c.value)
      BY <1>4, <2>1, <2>2, <2>4, <3>1
    <3> QED
      BY <1>2, <2>1, <2>4, <3>2 DEF MapSet
  <2>5. CASE (c.key \notin ShortKey /\ SetTo(new, ram[q], c.key, c.value)) \/ Alike(new, ram[q])
    BY <1>2, <1>5, <2>1, <2>2, <2>5 DEF SetTo, Alike
  <2> QED
    BY <2>3, <2>4, <2>5
<1>7. CASE CallSetTyped(c)
  <2> DEFINE new == SetTyped(ram[q], c.key, c.value)
  <2>1. q \in Partition /\ c.key \in Key /\ c.value \in Value \cup {TooLong} /\ Whole(ram[q])
    BY <1>7, CallType DEF CallSetTyped, Calls, Inv, ImageInv
  <2>2. Change(q, new)
    BY <1>7 DEF CallSetTyped
  <2>3. \/ c.value \in Value /\ SetTo(new, ram[q], c.key, c.value)
        \/ /\ Find(ram[q], c.key) # {} /\ c.key \in ShortKey
           /\ Visible(new) = [Visible(ram[q]) EXCEPT ![c.key] = Spoilt]
        \/ Alike(new, ram[q])
    BY <2>1, SetTypedVisible
  <2> HIDE DEF new
  <2>4. CASE c.value \in Value /\ c.key \in ShortKey /\ SetTo(new, ram[q], c.key, c.value)
    <3>1. Differs(new, ram[q], c.key, c.value)
      BY <2>4 DEF SetTo, Differs
    <3>2. MapSet(q, c.key, c.value)
      BY <1>4, <2>1, <2>2, <2>4, <3>1
    <3> QED
      BY <1>2, <2>1, <2>4, <3>2 DEF MapSet
  <2>5. CASE (c.key \notin ShortKey /\ SetTo(new, ram[q], c.key, c.value)) \/ Alike(new, ram[q])
    BY <1>2, <1>5, <2>1, <2>2, <2>5 DEF SetTo, Alike
  <2>6. CASE /\ Find(ram[q], c.key) # {} /\ c.key \in ShortKey
             /\ Visible(new) = [Visible(ram[q]) EXCEPT ![c.key] = Spoilt]
    <3>1. Map[q][c.key] # None
      BY <2>1, <2>6, FoundHasValue DEF Map, Visible
    <3>2. Differs(new, ram[q], c.key, Spoilt)
      BY <2>6 DEF Differs
    <3>3. MapSet(q, c.key, Spoilt)
      BY <1>4, <2>1, <2>2, <2>6, <3>2
    <3> QED
      BY <1>2, <2>1, <2>6, <3>1, <3>3 DEF MapSet
  <2> QED
    BY <2>3, <2>4, <2>5, <2>6
<1>8. CASE CallGet(c) \/ CallStatus(c)
  BY <1>2, <1>8 DEF CallGet, CallStatus, Map
<1>9. CASE CallRemoveKey(c)
  <2> DEFINE new == RemoveKey(ram[q], c.key)
  <2>1. q \in Partition /\ Whole(ram[q])
    BY <1>9, CallType DEF CallRemoveKey, Calls, Inv, ImageInv
  <2>2. Change(q, new)
    BY <1>9 DEF CallRemoveKey
  <2>3. CASE Find(ram[q], c.key) = {}
    <3>1. new = ram[q]
      BY <2>3 DEF RemoveKey
    <3> QED
      BY <1>2, <1>5, <2>1, <2>2, <3>1
  <2>4. CASE Find(ram[q], c.key) # {}
    <3>1. c.key \in ShortKey /\ Differs(new, ram[q], c.key, None)
      BY <2>1, <2>4, RemovedVisible DEF Differs
    <3> HIDE DEF new
    <3>2. MapSet(q, c.key, None)
      BY <1>4, <2>1, <2>2, <3>1
    <3> QED
      BY <1>2, <2>1, <3>1, <3>2 DEF MapSet
  <2> QED
    BY <2>3, <2>4
<1>10. CASE CallClear(c)
  <2>1. ram' = [p \in Partition |-> IF p = q THEN Cleared ELSE ram[p]]
    BY <1>10 DEF CallClear
  <2>2. CASE q \in Partition
    <3>1. Change(q, Cleared)
      BY <2>1, <2>2 DEF Inv, ImageInv, Change
    <3>2. Visible(Cleared) = EmptyMap
      BY BlankVisible DEF EmptyMap
    <3> QED
      BY <1>2, <1>3, <2>2, <3>1, <3>2
  <2>3. CASE q \notin Partition
    BY <1>2, <2>1, <2>3 DEF Map, Inv, ImageInv
  <2> QED
    BY <2>2, <2>3
<1>11. CASE CallCommit(c)
  <2>1. q \in Partition /\ Whole(ram[q])
    BY <1>11, CallType DEF CallCommit, Calls, Inv, ImageInv
  <2>2. Change(q, Sealed(ram[q]))
    BY <1>11 DEF CallCommit
  <2> QED
    BY <1>2, <1>5, <2>1, <2>2, SealedVisible
<1> QED
  BY <1>6, <1>7, <1>8, <1>9, <1>10, <1>11

\* A write leaves the partition as it is in memory or with no keys, and the
\* other partitions alone (storage.rs, w25.rs write).
LEMMA WriteKeepsPromise ==
  ASSUME Inv, EraseSector \/ ProgramSector \/ Finish
  PROVE  /\ Map' = Map
         /\ \E p \in Partition : \E m \in {Map[p], EmptyMap} : KeptMap' = [KeptMap EXCEPT ![p] = m]
<1> DEFINE q == writing.part
           s == writing.sector
<1>1. /\ writing # NoWrite /\ q \in Partition /\ Whole(ram[q]) /\ ram[q].crc = Digest(ram[q])
      /\ s >= 2 => flash[q][1] = Piece(ram[q], 1)
  BY DEF EraseSector, ProgramSector, Finish, Inv, WriteInv, ImageInv
<1>2. Map' = Map
  <2>1. CASE ram' = ram
    BY <2>1 DEF Map
  <2>2. CASE ram' # ram
    <3>1. ram' = [ram EXCEPT ![q].needs_commit = FALSE]
      BY <2>2 DEF EraseSector, ProgramSector, Finish
    <3>2. /\ \A p \in Partition : p # q => ram'[p] = ram[p]
          /\ ram'[q] = [ram[q] EXCEPT !.needs_commit = FALSE]
      BY <1>1, <3>1 DEF Inv, ImageInv
    <3>3. Visible(ram'[q]) = Visible(ram[q])
      <4>1. /\ ram'[q].num = ram[q].num /\ ram'[q].keys = ram[q].keys
            /\ ram'[q].values = ram[q].values
        BY <1>1, <3>2 DEF Whole, ConfigPartition
      <4>2. Inv'
        BY WriteStep
      <4>3. Whole(ram'[q])
        BY <1>1, <4>2 DEF Inv, ImageInv
      <4> QED
        BY <1>1, <4>1, <4>3, SameVisible
    <3> QED
      BY <3>2, <3>3 DEF Map
  <2> QED
    BY <2>1, <2>2
<1>3. PICK r, piece :
        /\ r \in Sectors /\ SectorSet(q, r, piece) /\ r = s
        /\ piece = Erased \/ piece = Piece(ram[q], r)
  <2>1. CASE EraseSector
    BY <2>1 DEF EraseSector, SectorSet
  <2>2. CASE ProgramSector
    BY <2>2 DEF ProgramSector, Written, Sectors, SectorSet
  <2>3. CASE Finish
    <3>1. s = 2 /\ SectorSet(q, 2, Piece(ram[q], 2))
      BY <2>3 DEF Finish, Written, SectorSet
    <3> QED
      BY <3>1 DEF Sectors
  <2> QED
    BY <2>1, <2>2, <2>3
<1>4. /\ \A p \in Partition : p # q => flash'[p] = flash[p]
      /\ Filed(flash'[q]) /\ flash'[q][r] = piece
      /\ \A o \in Sectors : o # r => flash'[q][o] = flash[q][o]
  BY <1>1, <1>3, SectorType
<1>5. Visible(LoadWith(flash'[q])) \in {Visible(ram[q]), EmptyMap}
  <2>1. CASE r = 1 /\ piece = Erased
    BY <1>4, <2>1, LoadErased DEF EmptyMap
  <2>2. CASE r = 2 \/ piece # Erased
    <3>1. flash'[q][1] = Piece(ram[q], 1)
      BY <1>1, <1>3, <1>4, <2>2 DEF Sectors
    <3> QED
      BY <1>1, <1>4, <3>1, LoadHalfWritten DEF EmptyMap
  <2> QED
    BY <1>3, <2>1, <2>2 DEF Sectors
<1>6. KeptMap' = [KeptMap EXCEPT ![q] = Visible(LoadWith(flash'[q]))]
  BY <1>1, <1>4 DEF KeptMap
<1>7. Map[q] = Visible(ram[q])
  BY <1>1 DEF Map
<1> QED
  BY <1>1, <1>2, <1>5, <1>6, <1>7

\* A restart uses what is kept, where it can be read (load_with).
LEMMA RestartKeepsPromise ==
  ASSUME Inv, NEW ok \in SUBSET Partition, Restarts(ok), flash' = flash
  PROVE  /\ Map' = [p \in Partition |-> IF p \in ok THEN KeptMap[p] ELSE EmptyMap]
         /\ KeptMap' = KeptMap
<1>1. KeptMap' = KeptMap
  BY DEF KeptMap
<1>2. ram' = [p \in Partition |-> IF p \in ok THEN LoadWith(flash[p]) ELSE NewImage]
  BY DEF Restarts
<1>3. Visible(NewImage) = EmptyMap
  BY BlankVisible DEF EmptyMap
<1>4. \A p \in Partition : Visible(ram'[p]) = IF p \in ok THEN KeptMap[p] ELSE EmptyMap
  BY <1>2, <1>3 DEF KeptMap
<1> QED
  BY <1>1, <1>4 DEF Map

\* Every step is one of KeyStore's, or changes neither of its maps.
LEMMA PromiseStep ==
  ASSUME Inv, [Next]_vars
  PROVE  [Kept!Next]_<<Map, KeptMap>>
<1> USE DEF Map, KeptMap, EmptyMap, Kept!Next, Kept!Set, Kept!Spoil, Kept!Remove, Kept!Clear,
            Kept!Save, Kept!Restart, Kept!Empty
<1> HIDE DEF Map, KeptMap, EmptyMap
<1>1. CASE UNCHANGED vars
  BY <1>1 DEF vars, Map, KeptMap
<1>2. CASE Call
  <2>1. /\ KeptMap' = KeptMap
        /\ \/ Map' = Map
           \/ \E p \in Partition :
                \/ \E k \in ShortKey :
                     \/ Map' = [Map EXCEPT ![p][k] = None]
                     \/ Map[p][k] # None /\ Map' = [Map EXCEPT ![p][k] = Spoilt]
                     \/ \E v \in Value : Map' = [Map EXCEPT ![p][k] = v]
                \/ Map' = [Map EXCEPT ![p] = EmptyMap]
    BY <1>2, CallKeepsPromise DEF Call
  <2>2. CASE Map' = Map
    BY <2>1, <2>2
  <2>3. ASSUME NEW p \in Partition, NEW k \in ShortKey,
               \/ Map' = [Map EXCEPT ![p][k] = None]
               \/ Map[p][k] # None /\ Map' = [Map EXCEPT ![p][k] = Spoilt]
               \/ \E v \in Value : Map' = [Map EXCEPT ![p][k] = v]
        PROVE  Kept!Next
    <3>1. Kept!Remove(p, k) \/ Kept!Spoil(p, k) \/ \E v \in Value : Kept!Set(p, k, v)
      BY <2>1, <2>3 DEF Map, KeptMap
    <3> QED
      BY <3>1
  <2>4. ASSUME NEW p \in Partition, Map' = [Map EXCEPT ![p] = EmptyMap]
        PROVE  Kept!Next
    <3>1. Kept!Clear(p)
      BY <2>1, <2>4 DEF Map, KeptMap, EmptyMap
    <3> QED
      BY <3>1
  <2> QED
    BY <2>1, <2>2, <2>3, <2>4
<1>3. CASE EraseSector \/ ProgramSector \/ Finish
  <2>1. /\ Map' = Map
        /\ \E p \in Partition : \E m \in {Map[p], EmptyMap} : KeptMap' = [KeptMap EXCEPT ![p] = m]
    BY <1>3, WriteKeepsPromise
  <2> QED
    BY <2>1 DEF Map, KeptMap, EmptyMap
<1>4. CASE Reset \/ PowerFails
  <2>1. PICK lost : Restarts(Partition \ lost) /\ flash' = flash
    BY <1>4 DEF Reset, PowerFails
  <2>2. /\ Map' = [p \in Partition |-> IF p \in Partition \ lost THEN KeptMap[p] ELSE EmptyMap]
        /\ KeptMap' = KeptMap
    BY <2>1, RestartKeepsPromise
  <2>3. \E ok \in SUBSET Partition :
          Map' = [p \in Partition |-> IF p \in ok THEN KeptMap[p] ELSE EmptyMap]
    BY <2>2
  <2> QED
    BY <2>2, <2>3 DEF Map, KeptMap, EmptyMap
<1>5. CASE WriteFails
  BY <1>5 DEF WriteFails, Map, KeptMap
<1> QED
  BY <1>1, <1>2, <1>3, <1>4, <1>5 DEF Next

------------------------------------------------------------------------------
\* A partition has no more keys than places and none that can be found twice
\* (configuration.rs).
THEOREM TypeCorrect == Spec => []TypeOK
<1>1. Inv => TypeOK
  <2> SUFFICES ASSUME Inv PROVE TypeOK
    OBVIOUS
  <2>1. ASSUME NEW p \in Partition, NEW k \in ShortKey
        PROVE  Cardinality(Find(ram[p], k)) <= 1
    <3>1. Whole(ram[p])
      BY DEF Inv, ImageInv
    <3>2. CASE Find(ram[p], k) = {}
      BY <3>2, FS_EmptySet
    <3>3. ASSUME NEW i \in Find(ram[p], k)
          PROVE  Cardinality(Find(ram[p], k)) <= 1
      <4>1. Find(ram[p], k) = {i}
        BY <3>1, <3>3, FindOne
      <4> QED
        BY <4>1, FS_Singleton
    <3> QED
      BY <3>2, <3>3
  <2> QED
    BY <2>1 DEF TypeOK, Inv, ImageInv, Whole
<1> QED
  BY <1>1, InvInit, InvStep, PTL DEF Spec

\* A partition that does not ask to be committed is what a restart would load
\* (configuration.rs needs_commit, CONFIG_STATUS_RESPONSE).
THEOREM CleanStored == Spec => []CleanIsStored
<1>1. Inv => CleanIsStored
  BY DEF Inv, CleanInv, CleanIsStored
<1> QED
  BY <1>1, InvInit, InvStep, PTL DEF Spec

\* What a config message is answered is so (node/config.rs process_config).
THEOREM AnswersTrue == Spec => []AnswerIsTrue
<1>1. Init => AnswerIsTrue
  BY DEF Init, AnswerIsTrue, Nothing
<1>2. Inv /\ AnswerIsTrue /\ [Next]_vars => AnswerIsTrue'
  BY AnswerStep
<1> QED
  BY <1>1, <1>2, InvInit, InvStep, PTL DEF Spec

\* Wherever the power or a write fails, a key changes only by a call that names
\* it, and a partition comes back as it was committed or empty (configuration.rs,
\* storage.rs, w25.rs).
THEOREM Refines == Spec => KeepsPromise
<1>1. Init => Kept!Init
  <2> SUFFICES ASSUME Init PROVE Kept!Init
    OBVIOUS
  <2>1. \A p \in Partition : Visible(LoadWith(flash[p])) = [k \in ShortKey |-> None]
    <3> SUFFICES ASSUME NEW p \in Partition
                 PROVE  Visible(LoadWith(flash[p])) = [k \in ShortKey |-> None]
      OBVIOUS
    <3>1. flash[p][1] = Erased
      BY DEF Init, Sectors
    <3>2. Filed(flash[p])
      BY InvInit DEF Inv, ImageInv
    <3> QED
      BY <3>1, <3>2, LoadErased
  <2>2. \A p \in Partition : ram[p] = LoadWith(flash[p])
    BY DEF Init
  <2> QED
    BY <2>1, <2>2 DEF Kept!Init, Kept!Empty
<1>2. Inv /\ [Next]_vars => [Kept!Next]_<<Map, KeptMap>>
  BY PromiseStep
<1> QED
  BY <1>1, <1>2, InvInit, InvStep, PTL DEF Spec, KeepsPromise, Kept!Spec, Map, KeptMap
=============================================================================
