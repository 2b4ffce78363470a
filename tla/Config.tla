------------------------------- MODULE Config -------------------------------
(***************************************************************************)
(* A node's configuration: the partitions in memory (bm-wire               *)
(* configuration.rs), their commit to the external flash, sector by sector *)
(* (bm-stack config.rs, bm-devkit storage.rs and w25.rs), their load at    *)
(* the start, and the config messages that reach them (bm-stack            *)
(* node/config.rs).  Power may fail between any two writes to the flash.   *)
(*                                                                         *)
(* An image is the header with its checksum and count, the array of keys   *)
(* and the array of values; the arrays keep what earlier keys left there.  *)
(* The flash holds the header and the keys in one sector and the values in *)
(* the next.  The checksum is taken to be perfect.                         *)
(*                                                                         *)
(* A definition marked "slip" is a plausible mistake in the one after it;  *)
(* nothing uses it.                                                        *)
(***************************************************************************)
EXTENDS Integers, FiniteSets

CONSTANTS
  Partition,
  ShortKey,        \* keys the buffer holds with their NUL
  LongKey,         \* keys it does not: stored cut off, and so never found
  BadKey,          \* keys with other characters, or too long to accept
  OverKey,         \* those over MAX_KEY_LEN
  Value,
  OddValue,        \* CBOR that set_cbor refuses for its type
  TooLong,         \* a string or buffer longer than a slot
  Spoilt,          \* what writing one over a value leaves of it
  None,
  MAX_NUM_KV,
  Mixes            \* the calls, how many, and the faults

Key == ShortKey \cup LongKey \cup BadKey

ASSUME ConfigAssumption ==
  /\ MAX_NUM_KV \in Nat
  /\ None \notin Value /\ Spoilt \notin Value /\ TooLong \notin Value /\ OddValue \notin Value
  /\ None # Spoilt
  /\ OverKey \subseteq BadKey /\ ShortKey \cap LongKey = {} /\ BadKey \cap (ShortKey \cup LongKey) = {}
  \* What a call carries: only a clear may name a partition there is not.
  /\ \A x \in Mixes : \A c \in x.calls :
       /\ c.op # "clear" => c.part \in Partition
       /\ c.op \in {"set_cbor", "set_typed", "get", "remove_key"} => c.key \in Key
       /\ c.op = "set_cbor" => c.value \in Value \cup {OddValue}
       /\ c.op = "set_typed" => c.value \in Value \cup {TooLong}
       /\ c.op = "commit" => c.restart \in BOOLEAN

Nobody == "nobody"
NoWrite == [sector |-> 0]
Nothing == [type |-> "nothing"]

VARIABLES
  ram,        \* per partition: ConfigPartition
  flash,      \* per partition: its two sectors
  writing,    \* the write save_config is in the middle of
  reply,      \* what the last message was answered with
  readable,   \* history: the partitions the last load could read
  unnoticed,  \* history: partitions a refused set or a failed save has changed
  mix, calls

vars == <<ram, flash, writing, reply, readable, unnoticed, mix, calls>>

------------------------------------------------------------------------------
(* ConfigPartition: operators on an image. *)

Slot == 1..MAX_NUM_KV
Keys == [Slot -> Key \cup {None}]
Values == [Slot -> Value \cup {None, Spoilt}]
ConfigPartition ==
  [crc : {None} \cup ((0..MAX_NUM_KV) \X Keys \X Values),
   num : 0..MAX_NUM_KV, keys : Keys, values : Values, needs_commit : BOOLEAN]
Used(img) == {i \in Slot : i <= img.num}
Full(img) == img.num >= MAX_NUM_KV

\* find: the length and every byte, so a key that was cut off matches nothing.
Find(img, k) == {i \in Used(img) : img.keys[i] = k /\ k \in ShortKey}
\* Where a key goes: its own place, or the next one.
Place(img, k) ==
  IF Find(img, k) = {} THEN img.num + 1
  ELSE CHOOSE i \in Find(img, k) : \A j \in Find(img, k) : i <= j
Get(img, k) == IF Find(img, k) = {} THEN None ELSE img.values[Place(img, k)]

Stored(img, k, v) ==
  LET i == Place(img, k)
  IN  [img EXCEPT !.keys[i] = k, !.values[i] = v, !.num = IF i > @ THEN i ELSE @,
                  !.needs_commit = TRUE]

\* set_cbor: a key that is there may be set in a full partition.  A value of
\* no known type is refused after a new key's name was written.
FullNeverChecked(img, k, v) == k \notin BadKey /\ v # OddValue  \* slip
SetCborOk(img, k, v) ==
  k \notin BadKey /\ v # OddValue /\ (Find(img, k) = {} => ~Full(img))
SetCbor(img, k, v) ==
  IF SetCborOk(img, k, v) THEN Stored(img, k, v)
  ELSE IF k \notin BadKey /\ Find(img, k) = {} /\ ~Full(img)
  THEN [img EXCEPT !.keys[Place(img, k)] = k]
  ELSE img

\* set_typed: refused in a full partition also for a key that is there; the
\* name and the start of a value too long are written before it is refused.
SetTypedOk(img, k, v) == k \notin BadKey /\ v # TooLong /\ ~Full(img)
SetTyped(img, k, v) ==
  IF SetTypedOk(img, k, v) THEN Stored(img, k, v)
  ELSE IF k \notin BadKey /\ ~Full(img)
  THEN [img EXCEPT !.keys[Place(img, k)] = k, !.values[Place(img, k)] = Spoilt]
  ELSE img

\* remove_key: the keys and values after it move down by one.
Shifted(array, i, n) == [j \in Slot |-> IF i <= j /\ j < n THEN array[j + 1] ELSE array[j]]
RemovedLast(img, k) ==  \* slip
  IF Find(img, k) = {} THEN img ELSE [img EXCEPT !.num = @ - 1, !.needs_commit = TRUE]
RemovedQuietly(img, k) ==  \* slip
  IF Find(img, k) = {} THEN img
  ELSE [img EXCEPT !.keys = Shifted(@, Place(img, k), img.num),
                   !.values = Shifted(@, Place(img, k), img.num), !.num = @ - 1]
RemoveKey(img, k) ==
  IF Find(img, k) = {} THEN img
  ELSE [img EXCEPT !.keys = Shifted(@, Place(img, k), img.num),
                   !.values = Shifted(@, Place(img, k), img.num), !.num = @ - 1,
                   !.needs_commit = TRUE]

Blank == [i \in Slot |-> None]
Cleared == [crc |-> None, num |-> 0, keys |-> Blank, values |-> Blank, needs_commit |-> TRUE]

\* seal: over everything after the checksum itself.
DigestOfKeys(img) == <<img.num, img.keys>>  \* slip
Digest(img) == <<img.num, img.keys, img.values>>
Sealed(img) == [img EXCEPT !.crc = Digest(img)]

------------------------------------------------------------------------------
(* The flash. *)

Sectors == 1..2
Erased == [erased |-> TRUE]
Piece(img, s) ==
  IF s = 1 THEN [erased |-> FALSE, crc |-> img.crc, num |-> img.num, keys |-> img.keys]
  ELSE [erased |-> FALSE, values |-> img.values]
\* load_with: what fails to check keeps its bytes and has no keys.
Read(sectors) ==
  [crc |-> IF sectors[1].erased THEN None ELSE sectors[1].crc,
   num |-> IF sectors[1].erased THEN MAX_NUM_KV + 1 ELSE sectors[1].num,
   keys |-> IF sectors[1].erased THEN Blank ELSE sectors[1].keys,
   values |-> IF sectors[2].erased THEN Blank ELSE sectors[2].values,
   needs_commit |-> FALSE]
Checks(img) == img.num <= MAX_NUM_KV /\ img.crc = Digest(img)
LoadWith(sectors) == IF Checks(Read(sectors)) THEN Read(sectors) ELSE [Read(sectors) EXCEPT !.num = 0]
NewImage == [Cleared EXCEPT !.needs_commit = FALSE]

\* A restart, with the partitions that can be read this time.
Restarts(ok) ==
  /\ ram' = [p \in Partition |-> IF p \in ok THEN LoadWith(flash[p]) ELSE NewImage]
  /\ readable' = ok /\ unnoticed' = {} /\ writing' = NoWrite

------------------------------------------------------------------------------
(* Calls and messages.  A call comes from the application or, if it is of *)
(* the kinds messages carry, from another node, which is then answered.   *)

Calls(op, c) ==
  /\ writing = NoWrite /\ calls < mix.max /\ calls' = calls + 1
  /\ c \in mix.calls /\ c.op = op
Change(p, img) == ram' = [ram EXCEPT ![p] = img]
Answer(c, m) == reply' = IF c.by = Nobody THEN Nothing ELSE [m EXCEPT !.to = c.by]
Still == UNCHANGED <<flash, writing, readable, mix>>

\* What another node asks of this one.  A set or get of a key that is too long
\* is not sent; a removal is.
Request(op, p, by, k, v) == [op |-> op, part |-> p, by |-> by, key |-> k, value |-> v, restart |-> TRUE]
Sendable(c) == IF c.key \in OverKey THEN {} ELSE {c}
ConfigGet(p, by, k) == Sendable(Request("get", p, by, k, None))
ConfigSet(p, by, k, v) == Sendable(Request("set_cbor", p, by, k, v))
ConfigDeleteKey(p, by, k) == {Request("remove_key", p, by, k, None)}
ConfigPartitionRequest(op, p, by) == {Request(op, p, by, None, None)}
ConfigCommit(p, by) == ConfigPartitionRequest("commit", p, by)
ConfigStatusRequest(p, by) == ConfigPartitionRequest("status", p, by)
ConfigClearPartition(p, by) == ConfigPartitionRequest("clear", p, by)

\* CONFIG_SET, and set_cbor.
CallSetCbor(c) ==
  /\ Calls("set_cbor", c)
  /\ Change(c.part, SetCbor(ram[c.part], c.key, c.value))
  /\ IF SetCborOk(ram[c.part], c.key, c.value)
     THEN Answer(c, [type |-> "CONFIG_VALUE", to |-> c.by, part |-> c.part, key |-> c.key,
                     value |-> c.value])
     ELSE reply' = Nothing
  /\ Still /\ UNCHANGED unnoticed

\* set_uint, set_int, set_float, set_string and set_buffer.
CallSetTyped(c) ==
  /\ Calls("set_typed", c)
  /\ Change(c.part, SetTyped(ram[c.part], c.key, c.value))
  /\ unnoticed' = IF c.value = TooLong /\ ~Full(ram[c.part]) /\ Find(ram[c.part], c.key) # {}
               THEN unnoticed \cup {c.part} ELSE unnoticed
  /\ reply' = Nothing
  /\ Still

\* CONFIG_GET: answered if the key is there and its value parses.
CallGet(c) ==
  /\ Calls("get", c)
  /\ IF Get(ram[c.part], c.key) = None THEN reply' = Nothing
     ELSE Answer(c, [type |-> "CONFIG_VALUE", to |-> c.by, part |-> c.part, key |-> c.key,
                     value |-> Get(ram[c.part], c.key)])
  /\ Still /\ UNCHANGED <<ram, unnoticed>>

CallRemoveKey(c) ==
  /\ Calls("remove_key", c)
  /\ Change(c.part, RemoveKey(ram[c.part], c.key))
  /\ Answer(c, [type |-> "CONFIG_DELETE_RESPONSE", to |-> c.by, part |-> c.part, key |-> c.key,
                success |-> Find(ram[c.part], c.key) # {}])
  /\ Still /\ UNCHANGED unnoticed

\* CONFIG_CLEAR_REQUEST, the one answered also for a partition there is not.
CallClear(c) ==
  /\ Calls("clear", c)
  /\ ram' = [p \in Partition |-> IF p = c.part THEN Cleared ELSE ram[p]]
  /\ Answer(c, [type |-> "CONFIG_CLEAR_RESPONSE", to |-> c.by, part |-> c.part,
                success |-> c.part \in Partition])
  /\ Still /\ UNCHANGED unnoticed

\* CONFIG_STATUS_REQUEST: the names of the keys; `committed' carries needs_commit.
CallStatus(c) ==
  /\ Calls("status", c)
  /\ Answer(c, [type |-> "CONFIG_STATUS_RESPONSE", to |-> c.by, part |-> c.part,
                committed |-> ram[c.part].needs_commit,
                keys |-> {ram[c.part].keys[i] : i \in Used(ram[c.part])}])
  /\ Still /\ UNCHANGED <<ram, unnoticed>>

\* save_config, as far as the seal; CONFIG_COMMIT always restarts.
CallCommit(c) ==
  /\ Calls("commit", c)
  /\ Change(c.part, Sealed(ram[c.part]))
  /\ writing' = [part |-> c.part, sector |-> 1, blank |-> FALSE, restart |-> c.restart]
  /\ reply' = Nothing
  /\ UNCHANGED <<flash, readable, unnoticed, mix>>

------------------------------------------------------------------------------
(* W25::write: each sector is erased and then programmed. *)

EraseSector ==
  /\ writing # NoWrite /\ ~writing.blank /\ writing.sector \in Sectors
  /\ flash' = [flash EXCEPT ![writing.part][writing.sector] = Erased]
  /\ writing' = [writing EXCEPT !.blank = TRUE]
  /\ UNCHANGED <<ram, reply, readable, unnoticed, mix, calls>>
Written(p, s) == [flash EXCEPT ![p][s] = Piece(ram[p], s)]
ProgramSector ==
  /\ writing # NoWrite /\ writing.blank /\ writing.sector \in Sectors \ {2}
  /\ flash' = Written(writing.part, writing.sector)
  /\ writing' = [writing EXCEPT !.sector = @ + 1, !.blank = FALSE]
  /\ UNCHANGED <<ram, reply, readable, unnoticed, mix, calls>>
\* The last sector, and the rest of save_config: mark_saved, or a restart.
Finish ==
  /\ writing # NoWrite /\ writing.blank /\ writing.sector = 2
  /\ flash' = Written(writing.part, 2)
  /\ IF writing.restart
     THEN writing' = [writing EXCEPT !.sector = 3] /\ UNCHANGED <<ram, unnoticed>>
     ELSE /\ writing' = NoWrite
          /\ ram' = [ram EXCEPT ![writing.part].needs_commit = FALSE]
          /\ unnoticed' = unnoticed \ {writing.part}
  /\ UNCHANGED <<reply, readable, mix, calls>>
Unread == IF mix.faults THEN SUBSET Partition ELSE {{}}
Reset ==
  /\ writing # NoWrite /\ writing.sector = 3
  /\ \E lost \in Unread : Restarts(Partition \ lost)
  /\ UNCHANGED <<flash, reply, mix, calls>>
\* The flash does not answer: save_config gives up and all goes on.
WriteFails ==
  /\ writing # NoWrite /\ writing.sector \in Sectors /\ mix.faults
  /\ writing' = NoWrite /\ unnoticed' = unnoticed \cup {writing.part}
  /\ UNCHANGED <<ram, flash, reply, readable, mix, calls>>
\* Power fails, and at the start some partitions may not be read.
PowerFails ==
  /\ \E lost \in Unread : Restarts(Partition \ lost)
  /\ reply' = Nothing
  /\ UNCHANGED <<flash, mix, calls>>

------------------------------------------------------------------------------
Init ==
  /\ mix \in Mixes /\ calls = 0
  /\ flash = [p \in Partition |-> [s \in Sectors |-> Erased]]
  /\ ram = [p \in Partition |-> LoadWith(flash[p])]
  /\ writing = NoWrite /\ reply = Nothing /\ readable = Partition /\ unnoticed = {}

Call ==
  \E c \in mix.calls :
    \/ CallSetCbor(c) \/ CallSetTyped(c) \/ CallGet(c) \/ CallRemoveKey(c) \/ CallClear(c)
    \/ CallStatus(c) \/ CallCommit(c)
Next ==
  \/ Call \/ EraseSector \/ ProgramSector \/ Finish \/ Reset \/ WriteFails \/ PowerFails

Spec == Init /\ [][Next]_vars

------------------------------------------------------------------------------
\* A partition has no more keys than places, and no key that can be found twice.
TypeOK ==
  /\ \A p \in Partition :
       /\ ram[p] \in ConfigPartition
       /\ \A k \in ShortKey : Cardinality(Find(ram[p], k)) <= 1
  /\ readable \subseteq Partition /\ unnoticed \subseteq Partition

\* What a lookup sees of an image.
Visible(img) == [k \in ShortKey |-> Get(img, k)]
Kept == INSTANCE KeyStore
          WITH Key <- ShortKey, map <- [p \in Partition |-> Visible(ram[p])],
               kept <- [p \in Partition |-> Visible(LoadWith(flash[p]))]
\* The set, remove and clear of configuration.rs, and the write of w25.rs
\* between save_config and load_with: a key changes only by a call that names
\* it, and a partition comes back as it last was committed, as it was being
\* committed, or empty, never as a mix, and the others untouched.
KeepsPromise == Kept!Spec

\* needs_commit, which CONFIG_STATUS_RESPONSE reports: a partition that could
\* be loaded is what a restart would load unless it asks to be committed, or a
\* refused set or a failed save has changed one of the two without asking.
CleanIsStored ==
  writing = NoWrite =>
    \A p \in readable \ unnoticed :
      ~ram[p].needs_commit => Visible(ram[p]) = Visible(LoadWith(flash[p]))

\* process_config: a value that is reported is the one a later get returns,
\* and a key that is reported deleted is gone, not just moved.
AnswerIsTrue ==
  /\ reply.type = "CONFIG_VALUE" /\ reply.key \in ShortKey =>
       Get(ram[reply.part], reply.key) = reply.value
  /\ reply.type = "CONFIG_DELETE_RESPONSE" => Find(ram[reply.part], reply.key) = {}
=============================================================================
