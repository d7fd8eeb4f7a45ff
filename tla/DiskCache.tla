------------------------------ MODULE DiskCache ------------------------------
(***************************************************************************)
(* The response cache of proxy/cache/storage.py: an index in memory with   *)
(* LRU eviction by size, and one file per key that outlives the process.   *)
(* A call runs without an await and is one action; a write may fail part   *)
(* of the way, a file may not let itself be removed, and the process may   *)
(* be restarted between two calls.                                         *)
(***************************************************************************)
EXTENDS Naturals, Sequences, FiniteSets

CONSTANTS
    Keys,        \* cache keys
    Sizes,       \* sizes of the bodies stored
    MaxSize,     \* max_size
    MaxStores,   \* bound: calls of store()
    NoAnswer     \* no answer

ASSUME CacheAssumption == IsFiniteSet(Keys) /\ Sizes \subseteq Nat /\ MaxSize \in Nat

VARIABLES
    stored,      \* history: the calls of store(); a response is known by its number
    entries,     \* _entries: the response held for a key, 0 for none
    older,       \* <<j, k>>: keys of _entries, j with the earlier last_access
    size,        \* _current_size
    disk,        \* the file of a key: which response, and how much of it
    expired,     \* responses older than their ttl
    completed,   \* history: the last response stored for a key without an error
    answer       \* what retrieve() has just returned

cacheVars == <<stored, entries, older, size, disk, expired, completed, answer>>

NoFile == [id |-> 0, part |-> "none"]

SizeOf(id) == stored[id].size

Held == {k \in Keys : entries[k] # 0}

\* The bytes of the bodies in memory of some keys.
Bytes(keys) == UNION {{k} \X (1 .. SizeOf(entries[k])) : k \in keys \cap Held}

CacheInit ==
    /\ stored = <<>>
    /\ entries = [k \in Keys |-> 0]
    /\ older = {}
    /\ size = 0
    /\ disk = [k \in Keys |-> NoFile]
    /\ expired = {}
    /\ completed = [k \in Keys |-> 0]
    /\ answer = NoAnswer

-----------------------------------------------------------------------------

\* Where removing keys leaves _current_size: max(0, _current_size - entry.size)
\* for one after the other.
SizeWithout(keys) ==
    LET n == Cardinality(Bytes(keys)) IN IF size > n THEN size - n ELSE 0

\* The keys used least recently, up to some time.
Oldest(keys) == keys \subseteq Held /\ \A j \in Held, k \in keys : <<j, k>> \in older => j \in keys

\* Evicts, if store() evicted one at most.
EvictsAtMostOne(sz, gone) ==
    /\ Oldest(gone)
    /\ Cardinality(gone) = IF size + sz > MaxSize /\ Held # {} THEN 1 ELSE 0

Fits(sz, gone) == gone = Held \/ SizeWithout(gone) + sz <= MaxSize

\* store() evicts keys for a body of size sz: from the least recently used on,
\* until it fits or nothing is left.
Evicts(sz, gone) ==
    /\ Oldest(gone) /\ Fits(sz, gone)
    /\ \A few \in SUBSET gone : Oldest(few) /\ Fits(sz, few) => few = gone

\* The order of last_access among keys, and when k of them is used.
Among(keys) == older \cap (keys \X keys)

Accessed(keys, k) == Among(keys \ {k}) \cup ((keys \ {k}) \X {k})

Forgotten(f, gone, none) == [k \in Keys |-> IF k \in gone THEN none ELSE f[k]]

\* store(): evict, write, then enter the response, over one of the same key if
\* there is one, whose size stays counted.  An OSError leaves the file as it
\* was ("none"), cut in the header ("torn") or cut in the body ("short"); the
\* files of the evicted keys in stuck could not be removed.
Store(k, sz, part, gone, stuck) ==
    LET id == Len(stored) + 1
        kept == Forgotten(entries, gone, 0)
        files == Forgotten(disk, gone \ stuck, NoFile)
    IN  /\ id <= MaxStores /\ Evicts(sz, gone) /\ stuck \subseteq gone
        /\ stored' = Append(stored, [key |-> k, size |-> sz])
        /\ disk' = IF part = "none" THEN files
                   ELSE [files EXCEPT ![k] = [id |-> id, part |-> part]]
        /\ IF part = "whole"
           THEN /\ entries' = [kept EXCEPT ![k] = id]
                /\ older' = Accessed(Held \ gone, k)
                /\ size' = SizeWithout(gone) + sz
                /\ completed' = [completed EXCEPT ![k] = id]
           ELSE /\ entries' = kept
                /\ older' = Among(Held \ gone)
                /\ size' = SizeWithout(gone)
                /\ UNCHANGED completed
        /\ answer' = NoAnswer
        /\ UNCHANGED expired

\* _remove of several keys, from memory and, but for some, from the disk.
Removed(keys, stuck) ==
    /\ entries' = Forgotten(entries, keys, 0)
    /\ older' = Among(Held \ keys)
    /\ size' = SizeWithout(keys)
    /\ disk' = Forgotten(disk, keys \ stuck, NoFile)

\* retrieve() of a key in memory: an expired response is removed.
RetrieveEntry(k) ==
    /\ entries[k] # 0
    /\ \/ /\ entries[k] \in expired
          /\ \E stuck \in SUBSET {k} : Removed({k}, stuck)
          /\ answer' = NoAnswer
       \/ /\ entries[k] \notin expired
          /\ older' = Accessed(Held, k)
          /\ answer' = [key |-> k, id |-> entries[k], part |-> "whole"]
          /\ UNCHANGED <<entries, size, disk>>
    /\ UNCHANGED <<stored, expired, completed>>

\* RetrieveFile, if the time in the file's header were not looked at.
RetrieveFileOfAnyAge(k) ==
    /\ entries[k] = 0
    /\ answer' = IF disk[k].part \in {"none", "torn"} THEN NoAnswer
                 ELSE [key |-> k, id |-> disk[k].id, part |-> disk[k].part]
    /\ UNCHANGED <<stored, entries, older, size, disk, expired, completed>>

\* retrieve() of a key that is not: the file is read, and removed if expired;
\* it is not entered in memory.  A header that cannot be parsed is no answer.
RetrieveFile(k) ==
    /\ entries[k] = 0
    /\ \/ /\ disk[k].part \in {"none", "torn"}
          /\ answer' = NoAnswer
          /\ UNCHANGED disk
       \/ /\ disk[k].part \in {"short", "whole"} /\ disk[k].id \in expired
          /\ answer' = NoAnswer
          /\ disk' = [disk EXCEPT ![k] = NoFile] \/ UNCHANGED disk
       \/ /\ disk[k].part \in {"short", "whole"} /\ disk[k].id \notin expired
          /\ answer' = [key |-> k, id |-> disk[k].id, part |-> disk[k].part]
          /\ UNCHANGED disk
    /\ UNCHANGED <<stored, entries, older, size, expired, completed>>

\* purge() of the keys with some prefix; only those in memory are looked at.
Purge(keys) ==
    /\ LET held == {k \in keys : entries[k] # 0}
       IN  \E stuck \in SUBSET held : Removed(held, stuck)
    /\ answer' = NoAnswer
    /\ UNCHANGED <<stored, expired, completed>>

\* A new DiskCache on the same directory.
Restart ==
    /\ entries' = [k \in Keys |-> 0]
    /\ older' = {}
    /\ size' = 0
    /\ answer' = NoAnswer
    /\ UNCHANGED <<stored, disk, expired, completed>>

\* Time passes: the ttl of a response runs out.
Expire(id) ==
    /\ id \in 1 .. Len(stored)
    /\ expired' = expired \cup {id}
    /\ answer' = NoAnswer
    /\ UNCHANGED <<stored, entries, older, size, disk, completed>>

CacheNext ==
    \/ \E k \in Keys :
         \/ \E sz \in Sizes, part \in {"whole", "none", "torn", "short"} :
              \E gone, stuck \in SUBSET Keys : Store(k, sz, part, gone, stuck)
         \/ RetrieveEntry(k) \/ RetrieveFile(k)
    \/ \E keys \in SUBSET Keys : Purge(keys)
    \/ \E id \in 1 .. MaxStores : Expire(id)
    \/ Restart

CacheSpec == CacheInit /\ [][CacheNext]_cacheVars

-----------------------------------------------------------------------------
(* Properties                                                               *)

Total == Cardinality(Bytes(Held))

\* The bodies in memory stay within max_size, a single larger one excepted,
\* although _current_size drifts: it never falls below what is held (_remove,
\* and store(), which counts a replaced response on).  Each is on the disk too,
\* where only a newer one whose write failed can have taken its place.
MemorySound ==
    /\ Total <= size
    /\ Total <= MaxSize \/ Cardinality(Held) = 1
    /\ \A k \in Held :
         /\ disk[k].part # "none" /\ disk[k].id >= entries[k]
         /\ disk[k].id = entries[k] => disk[k].part = "whole"

\* retrieve() returns a response of that key within its ttl, not older than
\* the last one stored without an error, before a restart or after it; a body
\* cut short is one whose store() failed.
AnswersCurrent ==
    answer # NoAnswer =>
        /\ stored[answer.id].key = answer.key
        /\ answer.id \notin expired
        /\ answer.id >= completed[answer.key]
        /\ answer.part = "short" => answer.id > completed[answer.key]

=============================================================================
