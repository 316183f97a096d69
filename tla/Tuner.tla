--------------------------------- MODULE Tuner ---------------------------------
(***************************************************************************)
(* The table of tuned work sizes that all engines of a process share       *)
(* (mace/utils/tuner.h), and the file it is kept in.                       *)
(*                                                                         *)
(* No lock guards the table: what a thread does with it has a beginning    *)
(* and an end.  The file is read when the process first asks for the       *)
(* table, and written word by word by the destructor, when it ends.  A     *)
(* name is a sequence, since reading may yield others than were written:   *)
(* spaces, or nothing.  Words are whole: sizes and work sizes are less     *)
(* than 256, so that the first byte of a word is its value.                *)
(***************************************************************************)
EXTENDS Integers, Sequences, FiniteSets

CONSTANTS
  Threads,
  Keys,         \* of the kernels
  Candidates,   \* what tuning tries, by key
  Default

ASSUME TunerAssumption ==
  /\ IsFiniteSet(Keys) /\ " " \notin Keys
  /\ \A k \in Keys : Candidates[k] \subseteq Seq(Nat)

VARIABLES
  table,    \* param_table_
  disk,     \* the file: entries, and how far it was written
  access,   \* what a thread is doing with the table
  ran,      \* what the last kernel of a thread was run with
  tuned,    \* history: what tuning found, and for which key
  cuts      \* history: how often the file was cut off

tunerVars == <<table, disk, access, ran, tuned, cuts>>

Name(k) == <<k>>
Spaces  == <<" ">>

Idle      == [kind |-> "none"]
NotRun    == [key |-> "none", params |-> <<>>]
EmptyFile == [count |-> 0, entries |-> <<>>, whole |-> 0, words |-> 0]

TunerInit ==
  /\ table = <<>>
  /\ disk = EmptyFile
  /\ access = [t \in Threads |-> Idle]
  /\ ran = [t \in Threads |-> NotRun]
  /\ tuned = {}
  /\ cuts = 0

-----------------------------------------------------------------------------
(* The file.  An entry: size of the name, name, size of the parameters,    *)
(* parameters.                                                             *)
Words(entry) == 2 + Len(entry.name) + Len(entry.params)

(* All orders an unordered_map may have.                                   *)
Listings(f) ==
  {[i \in 1..Cardinality(DOMAIN f) |-> [name |-> o[i], params |-> f[o[i]]]] :
     o \in {o \in [1..Cardinality(DOMAIN f) -> DOMAIN f] : \A i, j \in DOMAIN o : o[i] = o[j] => i = j}}

Written(d) == d.whole = Len(d.entries)

WriteWord(d) ==
  IF d.words + 1 = Words(d.entries[d.whole + 1]) THEN [d EXCEPT !.whole = @ + 1, !.words = 0]
  ELSE [d EXCEPT !.words = @ + 1]

(* What is read of an entry whose first words are there; the rest is       *)
(* what the reader's variables start with.                                 *)
ReadEntry(entry, words) ==
  LET n == Len(entry.name)
      params == [i \in DOMAIN entry.params |-> IF i <= words - 2 - n THEN entry.params[i] ELSE 0]
  IN  CASE words = 0                  -> [name |-> <<>>, params |-> <<>>]
        [] words > 0 /\ words < 1 + n -> [name |-> Spaces, params |-> <<>>]
        [] words = 1 + n              -> [name |-> entry.name, params |-> <<>>]
        [] words > 1 + n              -> [name |-> entry.name, params |-> params]

(* As many entries as the file says: of two with one name the first stays. *)
ReadRunParameters(d) ==
  LET there == [i \in 1..d.whole |-> d.entries[i]]
      cut   == IF d.whole < d.count THEN <<ReadEntry(d.entries[d.whole + 1], d.words)>> ELSE <<>>
      none  == IF d.whole + 1 < d.count THEN <<[name |-> <<>>, params |-> <<>>]>> ELSE <<>>
      all   == there \o cut \o none
      First(name) == CHOOSE i \in DOMAIN all : all[i].name = name /\ \A j \in 1..(i - 1) : all[j].name # name
  IN  [name \in {all[i].name : i \in DOMAIN all} |-> all[First(name)].params]

-----------------------------------------------------------------------------
(* Tuner::TuneOrRun.                                                       *)
Put(f, name, params) == [n \in DOMAIN f \cup {name} |-> IF n = name THEN params ELSE f[n]]

(* A group without items, or too few sizes: the kernel cannot be enqueued. *)
CanRun(params) == Len(params) = Len(Default) /\ params[1] # 0 /\ params[2] # 0

Ran(t, k, params) == ran' = [ran EXCEPT ![t] = [key |-> k, params |-> params]]

Storing(u) == access[u].kind = "store"

(* The fastest candidate is about to be stored; another thread may be      *)
(* storing one, too.                                                       *)
Tune(t, k) ==
  /\ access[t] = Idle
  /\ \E p \in Candidates[k] :
       /\ Ran(t, k, p)
       /\ access' = [u \in Threads |->
                       CASE u = t -> [kind |-> "store", key |-> k, params |-> p, raced |-> \E v \in Threads : Storing(v)]
                         [] u # t /\ Storing(u) -> [access[u] EXCEPT !.raced = TRUE]
                         [] u # t /\ ~Storing(u) -> access[u]]
       /\ tuned' = tuned \cup {<<k, p>>}
  /\ UNCHANGED <<table, disk, cuts>>

(* Two at a time may lose an entry (or end the process: see Process).      *)
Store(t) ==
  /\ Storing(t)
  /\ LET a == access[t] IN
     table' \in {Put(table, Name(a.key), a.params)} \cup (IF a.raced THEN {table} ELSE {})
  /\ access' = [access EXCEPT ![t] = Idle]
  /\ UNCHANGED <<disk, ran, tuned, cuts>>

(* Bug: looks an entry up without asking whether there is one, which makes *)
(* an empty one.                                                           *)
BugFind(t, k) ==
  /\ access[t] = Idle
  /\ access' = [access EXCEPT ![t] = [kind |-> "found", key |-> k]]
  /\ UNCHANGED <<table, disk, ran, tuned, cuts>>

Find(t, k) ==
  /\ access[t] = Idle
  /\ IF Name(k) \in DOMAIN table
     THEN access' = [access EXCEPT ![t] = [kind |-> "found", key |-> k]] /\ UNCHANGED ran
     ELSE Ran(t, k, Default) /\ UNCHANGED access
  /\ UNCHANGED <<table, disk, tuned, cuts>>

(* operator[] makes an entry where there is none.                          *)
Get(t) ==
  /\ access[t].kind = "found"
  /\ LET k == access[t].key
         entry == IF Name(k) \in DOMAIN table THEN table[Name(k)] ELSE <<>>
     IN  table' = Put(table, Name(k), entry) /\ Ran(t, k, entry)
  /\ access' = [access EXCEPT ![t] = Idle]
  /\ UNCHANGED <<disk, tuned, cuts>>

-----------------------------------------------------------------------------
(* The beginning of what was tuned for k.                                  *)
CutFrom(k, params) ==
  \E x \in tuned : x[1] = k /\
    \/ params = <<>>
    \/ \E n \in 0..Len(x[2]) : params = [i \in DOMAIN x[2] |-> IF i <= n THEN x[2][i] ELSE 0]

WasTuned(k, params) == <<k, params>> \in tuned

Spoilt == {k \in Keys : Name(k) \in DOMAIN table /\ ~WasTuned(k, table[Name(k)])}

(* Whichever threads tune or run at the same time, and wherever a process  *)
(* that writes the file is killed: a kernel runs with its default or with  *)
(* what was tuned for it, in this process or in one before, and each file  *)
(* cut off has spoilt one kernel's entry at most, of which the beginning   *)
(* is what was tuned (tuner.h TuneOrRun, ReadRunParamters).                *)
KernelsRunTuned ==
  /\ Cardinality(Spoilt) <= cuts
  /\ \A k \in Spoilt : CutFrom(k, table[Name(k)])
  /\ \A t \in Threads : ran[t] # NotRun =>
       LET r == ran[t] IN
       r.params = Default \/ WasTuned(r.key, r.params) \/ (cuts > 0 /\ CutFrom(r.key, r.params))
=============================================================================
