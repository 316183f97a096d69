------------------------------- MODULE KVStore -------------------------------
(***************************************************************************)
(* What KVStorage (mace/public/mace_runtime.h) is to its callers once the  *)
(* locking inside FileStorage is forgotten: a map in memory, filled from a *)
(* file when the process starts, extended by Insert and written back by    *)
(* Flush, each operation at one instant; only Flush takes two, because the *)
(* file is emptied before it is written and a crash may come in between.   *)
(*                                                                         *)
(* FileStorage.tla is shown to implement this module; ProgramCache.tla     *)
(* uses it as the store below the OpenCL runtime.                          *)
(***************************************************************************)

CONSTANTS
  Key, Value,
  None,          \* no entry
  Garbage,       \* an entry read from beyond the end of a damaged file
  Faults         \* which of "open", "write" and "crash" may go wrong

Content == [Key -> Value \cup {None, Garbage}]
Empty   == [k \in Key |-> None]

ASSUME KVStoreAssumption ==
  /\ None \notin Value /\ Garbage \notin Value /\ None # Garbage
  /\ Faults \subseteq {"open", "write", "crash"}

VARIABLES
  loaded,        \* the process runs and has loaded its store
  data,          \* FileStorage::data_
  data_changed,  \* FileStorage::data_changed_
  flushing,      \* a Flush has emptied the file and not yet written it
  file           \* the file: its state and the entries found in it

kvvars == <<loaded, data, data_changed, flushing, file>>

FileStates == {"absent", "torn", "whole"}

TypeOK ==
  /\ loaded \in BOOLEAN /\ data_changed \in BOOLEAN /\ flushing \in BOOLEAN
  /\ data \in Content
  /\ file \in [state : FileStates, kv : Content]

Init ==
  /\ loaded = FALSE /\ data_changed = FALSE /\ flushing = FALSE
  /\ data = Empty
  /\ file = [state |-> "absent", kv |-> Empty]

-----------------------------------------------------------------------------
(* std::map::emplace: a key that is there keeps its value.                 *)
Emplace(d, k, v) == IF d[k] = None THEN [d EXCEPT ![k] = v] ELSE d

(* A prefix of the bytes of m reached the disk.                            *)
Parts(m) == {p \in Content : \A k \in Key : p[k] \in {None, m[k]}}

(* What Load may find in a torn file.  The number of entries and their     *)
(* lengths are read without looking at the size of the file: beyond its    *)
(* end the entries come from whatever is in memory there.  (The build may  *)
(* as well stop at the bad access; the process then has not started.)      *)
TornReadings(m) ==
  {r \in Content : \A k \in Key : r[k] = m[k] \/ (m[k] = None /\ r[k] = Garbage)}

Load ==
  /\ ~loaded
  /\ \/ file.state = "absent" /\ data' = Empty
     \/ file.state = "whole"  /\ data' = file.kv
     \/ file.state = "torn"   /\ data' \in TornReadings(file.kv)
     \/ "open" \in Faults     /\ data' = Empty
  /\ loaded' = TRUE
  /\ UNCHANGED <<data_changed, flushing, file>>

Insert(k, v) ==
  /\ loaded /\ ~flushing
  /\ data' = Emplace(data, k, v)
  /\ data_changed' = (data_changed \/ data[k] = None)
  /\ UNCHANGED <<loaded, flushing, file>>

FlushOpen ==
  /\ loaded /\ ~flushing /\ data_changed
  /\ flushing' = TRUE
  /\ file' = [state |-> "torn", kv |-> Empty]
  /\ UNCHANGED <<loaded, data, data_changed>>

FlushWrite ==
  /\ flushing
  /\ \/ file' = [state |-> "whole", kv |-> data]
     \/ /\ "write" \in Faults
        /\ \E p \in Parts(data) : file' = [state |-> "torn", kv |-> p]
  /\ flushing' = FALSE
  /\ data_changed' = FALSE
  /\ UNCHANGED <<loaded, data>>

(* The process ends, in the middle of a Flush only if it crashes; then     *)
(* part of the bytes may have been written.                                *)
Stop ==
  /\ loaded
  /\ flushing => "crash" \in Faults
  /\ loaded' = FALSE /\ data_changed' = FALSE /\ flushing' = FALSE
  /\ data' = Empty
  /\ \/ UNCHANGED file
     \/ flushing /\ \E p \in Parts(data) : file' = [state |-> "torn", kv |-> p]

Next ==
  \/ Load \/ FlushOpen \/ FlushWrite \/ Stop
  \/ \E k \in Key, v \in Value : Insert(k, v)

Spec == Init /\ [][Next]_kvvars
=============================================================================
