-------------------------------- MODULE Cache --------------------------------
(***************************************************************************)
(* CacheService between its callers, Redis and the source the cached       *)
(* values come from.  getOrSet() and a method under @Cached take the same  *)
(* steps: get, the factory (the original method), set.  A caller that      *)
(* changes the source deletes the key afterwards (cache-aside, as the      *)
(* header of the class recommends); one may call invalidatePattern().      *)
(* The source is a version per key: some versions are null.  Redis is      *)
(* external: a command may fail before or after it took effect             *)
(* (commandTimeout), and an entry stored with a TTL lapses at some time.   *)
(***************************************************************************)
EXTENDS Naturals

CONSTANTS
    Key,
    Caller,
    NullVersion,    \* versions at which the source answers null
    MaxVersion,     \* bound: changes of the source, for each key
    Gone            \* no entry

ASSUME CacheAssumption ==
    /\ MaxVersion \in Nat
    /\ Gone \notin Nat

VARIABLES
    source,         \* version of the source, for each key
    entry,          \* version in Redis, under the key prefixed once
    lapses,         \* keys whose entry has a TTL
    at,             \* what each caller does next
    key,            \* the key it does it to
    value,          \* the version its factory returned
    matched,        \* names its scan has found
    overtaken,      \* history: callers whose value was changed after they computed it
    excused         \* history: keys whose entry an overtaken caller stored, or
                    \* whose deletion failed

cacheVars == <<source, entry, lapses, at, key, value, matched, overtaken, excused>>

Version == 0..MaxVersion
Step == {"idle", "get", "compute", "set", "change", "delete", "scan", "exec"}

\* A name in Redis: ioredis puts keyPrefix before the key of every command, but
\* not before the pattern of SCAN, and SCAN answers names as they are.
Name == (0..2) \X Key
Prefixed(name) == <<name[1] + 1, name[2]>>
BuildKey(k) == <<0, k>>
Present(name) == name[1] = 1 /\ entry[name[2]] # Gone

CacheTypeOK ==
    /\ source \in [Key -> Version]
    /\ entry \in [Key -> Version \cup {Gone}]
    /\ lapses \subseteq Key
    /\ at \in [Caller -> Step]
    /\ key \in [Caller -> Key]
    /\ value \in [Caller -> Version]
    /\ matched \in [Caller -> SUBSET Name]
    /\ overtaken \subseteq Caller
    /\ excused \subseteq Key

CacheInit ==
    /\ source = [k \in Key |-> 0]
    /\ entry = [k \in Key |-> Gone]
    /\ lapses = {}
    /\ at = [c \in Caller |-> "idle"]
    /\ key \in [Caller -> Key]
    /\ value = [c \in Caller |-> 0]
    /\ matched = [c \in Caller |-> {}]
    /\ overtaken = {}
    /\ excused = {}

Goto(c, step) == at' = [at EXCEPT ![c] = step]

\* A caller enters getOrSet(k), is about to change k's row, or invalidates.
Call(c, k, step) ==
    /\ at[c] = "idle"
    /\ Goto(c, step)
    /\ key' = [key EXCEPT ![c] = k]
    /\ UNCHANGED <<source, entry, lapses, value, matched, overtaken, excused>>

\* get(): a stored null reads as a miss; an error is thrown to the caller.
Get(c) ==
    /\ at[c] = "get"
    /\ LET e == entry[key[c]] IN
           \/ Goto(c, IF e \in NullVersion \cup {Gone} THEN "compute" ELSE "idle")
           \/ Goto(c, "idle")
    /\ UNCHANGED <<source, entry, lapses, key, value, matched, overtaken, excused>>

\* The factory reads the source, or throws.
Compute(c) ==
    /\ at[c] = "compute"
    /\ \/ /\ Goto(c, "set")
          /\ value' = [value EXCEPT ![c] = source[key[c]]]
          /\ overtaken' = overtaken \ {c}
       \/ Goto(c, "idle") /\ UNCHANGED <<value, overtaken>>
    /\ UNCHANGED <<source, entry, lapses, key, matched, excused>>

\* Mutant: the entry is stored without a TTL.
StoredForever(c) ==
    LET k == key[c] IN
    /\ entry' = [entry EXCEPT ![k] = value[c]]
    /\ lapses' = lapses \ {k}
    /\ excused' = IF c \in overtaken THEN excused \cup {k} ELSE excused \ {k}

\* SETEX as Redis runs it.
Stored(c) ==
    LET k == key[c] IN
    /\ entry' = [entry EXCEPT ![k] = value[c]]
    /\ lapses' = lapses \cup {k}
    /\ excused' = IF c \in overtaken THEN excused \cup {k} ELSE excused \ {k}

\* set(): getOrSet() then returns the value, or throws and the value is lost.
Set(c) ==
    /\ at[c] = "set"
    /\ Goto(c, "idle")
    /\ Stored(c) \/ UNCHANGED <<entry, lapses, excused>>
    /\ UNCHANGED <<source, key, value, matched, overtaken>>

\* Mutant: the key is not deleted after the change.
ChangeOnly(c) ==
    /\ at[c] = "change"
    /\ source[key[c]] < MaxVersion
    /\ source' = [source EXCEPT ![key[c]] = @ + 1]
    /\ overtaken' = overtaken \cup {d \in Caller : at[d] = "set" /\ key[d] = key[c]}
    /\ Goto(c, "idle")
    /\ UNCHANGED <<entry, lapses, key, value, matched, excused>>

\* The caller changes the source; its delete() comes after an await.
Change(c) ==
    /\ at[c] = "change"
    /\ source[key[c]] < MaxVersion
    /\ source' = [source EXCEPT ![key[c]] = @ + 1]
    /\ overtaken' = overtaken \cup {d \in Caller : at[d] = "set" /\ key[d] = key[c]}
    /\ Goto(c, "delete")
    /\ UNCHANGED <<entry, lapses, key, value, matched, excused>>

\* DEL of names as ioredis sends them.
Dropped(names) ==
    LET hit == {k \in Key : \E n \in names : Prefixed(n) = <<1, k>>} IN
    /\ entry' = [k \in Key |-> IF k \in hit THEN Gone ELSE entry[k]]
    /\ lapses' = lapses \ hit
    /\ excused' = excused \ hit

\* delete(): done, or failed with the entry still there.
Delete(c) ==
    /\ at[c] = "delete"
    /\ Goto(c, "idle")
    /\ \/ Dropped({BuildKey(key[c])})
       \/ excused' = excused \cup {key[c]} /\ UNCHANGED <<entry, lapses>>
    /\ UNCHANGED <<source, key, value, matched, overtaken>>

\* invalidatePattern(): the stream of SCAN, whose pattern may or may not allow
\* for the prefix, then the pipeline; errors are logged and nothing is thrown.
Scan(c) ==
    /\ at[c] = "scan"
    /\ Goto(c, "exec")
    /\ \E found \in {{}, {n \in Name : Present(n)}} :
           matched' = [matched EXCEPT ![c] = found]
    /\ UNCHANGED <<source, entry, lapses, key, value, overtaken, excused>>

Exec(c) ==
    /\ at[c] = "exec"
    /\ Goto(c, "idle")
    /\ Dropped(matched[c]) \/ UNCHANGED <<entry, lapses, excused>>
    /\ matched' = [matched EXCEPT ![c] = {}]
    /\ UNCHANGED <<source, key, value, overtaken>>

\* The TTL of an entry is over.
Lapse(k) ==
    /\ k \in lapses
    /\ entry' = [entry EXCEPT ![k] = Gone]
    /\ lapses' = lapses \ {k}
    /\ excused' = excused \ {k}
    /\ UNCHANGED <<source, at, key, value, matched, overtaken>>

Go(c) ==
    \/ Get(c) \/ Compute(c) \/ Set(c)
    \/ Change(c) \/ Delete(c)
    \/ Scan(c) \/ Exec(c)

CacheNext ==
    \/ \E c \in Caller :
           \/ Go(c)
           \/ \E k \in Key, step \in {"get", "change", "scan"} : Call(c, k, step)
    \/ \E k \in Key : Lapse(k)

\* Calls that were made go on, and Redis drops what has outlived its TTL.
CacheFairness ==
    /\ \A c \in Caller : WF_cacheVars(Go(c))
    /\ \A k \in Key : WF_cacheVars(Lapse(k))

CacheSpec == CacheInit /\ [][CacheNext]_cacheVars

-----------------------------------------------------------------------------
Stale(k) == entry[k] # Gone /\ entry[k] # source[k]

\* An entry that differs from its source has one of three causes: the caller
\* that changed the source has not deleted it yet, could not delete it, or a
\* getOrSet that had computed before the change stored after it (getOrSet
\* holds nothing between its get and its set).
StaleHasCause ==
    \A k \in Key :
        Stale(k) => \/ \E c \in Caller : at[c] = "delete" /\ key[c] = k
                    \/ k \in excused

\* Once the source is left alone the cache comes to agree with it for good,
\* whatever calls raced or failed, because set() never stores without a TTL.
CacheCatchesUp == <>[](\A k \in Key : ~Stale(k))

-----------------------------------------------------------------------------
(* The inductive invariant: a value about to be stored is the source's, or *)
(* known to be overtaken.                                                  *)

OvertakenKnown ==
    \A c \in Caller :
        at[c] = "set" /\ value[c] # source[key[c]] => c \in overtaken

CacheIInv == CacheTypeOK /\ OvertakenKnown /\ StaleHasCause

=============================================================================
