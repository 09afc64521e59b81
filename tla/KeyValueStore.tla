---------------------------- MODULE KeyValueStore ----------------------------
(***************************************************************************)
(* FileSystemKVStore (store/kvstore_fs.go): the keys of one session, each  *)
(* in a file of its own.  Every call holds the lock of the store, but a    *)
(* Get that meets an expired entry gives the lock back and takes it again  *)
(* before it removes the file.  The name of the file is the key with every *)
(* letter that is not ASCII replaced, so two keys may share one.           *)
(*                                                                         *)
(* An entry is as young as its life lasts: it is fresh, then (for a value  *)
(* that carries its own date) old, then expired.  An entry that was set    *)
(* for ever stays fresh; a write that fails leaves a file that does not    *)
(* parse.                                                                  *)
(***************************************************************************)
CONSTANTS
    Keys, Paths,
    PathOf,     \* the file of a key; sanitizeKey
    Values,     \* what may be stored
    NoValue,    \* what Get returns without an entry
    WritesFail  \* whether a write may fail

ASSUME StoreAssumption ==
    /\ PathOf \in [Keys -> Paths]
    /\ NoValue \notin Values
    /\ WritesFail \in BOOLEAN

VARIABLE entries    \* the file of each path: its state and its value

States == {"none", "fresh", "old", "expired", "broken"}
None   == [is |-> "none", value |-> NoValue]

StoreTypeOK ==
    entries \in [Paths -> [is: States, value: Values \cup {NoValue}]]

EmptyStore == entries = [f \in Paths |-> None]

-----------------------------------------------------------------------------
(* Set: the entry is replaced, whatever it was.                            *)
Set(key, value) ==
    \/ entries' = [entries EXCEPT ![PathOf[key]] = [is |-> "fresh", value |-> value]]
    \/ WritesFail /\ entries' = [entries EXCEPT ![PathOf[key]] = [is |-> "broken", value |-> NoValue]]

(* Get, up to the answer; an expired entry is answered like a missing one, *)
(* after a call of Remove under the other lock.                            *)
Expired(path) == entries[path].is = "expired"
Readable(path) == entries[path].is \in {"fresh", "old"}

(* The removal by Get, and Delete: the file goes, whatever it holds.       *)
Remove(path) == entries' = [entries EXCEPT ![path] = None]

(* ListKeys: the names of the files, expired ones too.                     *)
Listed == {f \in Paths : entries[f].is # "none"}

ClearSession == entries' = [f \in Paths |-> None]

(* Time passes for one entry.                                              *)
Age(path) ==
    /\ entries[path].is \in {"fresh", "old"}
    /\ entries' = [entries EXCEPT ![path].is =
                     IF entries[path].is = "fresh" THEN "old" ELSE "expired"]
=============================================================================
