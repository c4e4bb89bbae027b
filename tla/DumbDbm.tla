------------------------------- MODULE DumbDbm -------------------------------
(* Class _Database of src/Lib/dumbdbm.py: a data file (.dat) that only grows,*)
(* an index of it in memory, the same index as lines of a text file (.dir),  *)
(* and the previous index file (.bak).                                       *)
(*                                                                           *)
(* Several processes may have the database open; as the module's comment     *)
(* says, they take turns making updates.  A process may crash between any    *)
(* two changes to the files.  A file that is opened, written and closed is   *)
(* written at the close (the lines fit stdio's buffer).                      *)
EXTENDS Integers, SequencesExt

CONSTANTS
  Process,     \* the processes that may open the database
  Key,         \* the keys in use
  Val,         \* the values in use: [len, tag]; the tag tells them apart
  _BLOCKSIZE,
  MaxUpdates,  \* bound on the number of updates
  NULL         \* no process, no file, no value

ASSUME BlockAssumption == _BLOCKSIZE \in Nat \ {0}
ASSUME KeyAssumption == IsFiniteSet(Key) /\ NULL \notin Key
ASSUME ValAssumption == NULL \notin Val /\ \A v \in Val : v.len \in Nat
ASSUME ProcessAssumption == NULL \notin Process
ASSUME BoundAssumption == MaxUpdates \in Nat

VARIABLES
  dat, dir, bak,  \* the files; a missing index file is NULL
  open,           \* the processes that have the database open
  index,          \* self._index of each of them
  turn,           \* the process in the middle of an update, or NULL
  step,           \* what it does next
  key, val, loc,  \* the key, the value and the (pos, siz) of that update
  updates,        \* history: the number of updates begun
  value,          \* history: what each key was last set to; NULL if deleted
  fresh,          \* history: processes that know every update
  doubt,          \* history: keys whose update a crash interrupted
  lost,           \* history: how much of the index a crash took with it
  messed          \* history: a process that was not up to date rewrote the index

files == <<dat, dir, bak>>
update == <<turn, step, key, val, loc, updates>>
history == <<value, fresh, doubt, lost, messed>>
vars == <<files, open, index, update, history>>

Pad == [key |-> NULL, tag |-> NULL]
Bytes(k, v) == [i \in 1 .. v.len |-> [key |-> k, tag |-> v.tag]]

(* The lines of an index file; a file that is missing has none.             *)
Lines(f) == IF f = NULL THEN <<>> ELSE f

Loc == [pos : Nat, siz : Nat]
Line == [key : Key, loc : Loc]

ASSUME FileAssumption == NULL \notin Seq(Line)

TypeOK ==
  /\ dat \in Seq([key : Key \cup {NULL}, tag : {v.tag : v \in Val} \cup {NULL}])
  /\ Lines(dir) \in Seq(Line)
  /\ Lines(bak) \in Seq(Line)
  /\ open \subseteq Process /\ fresh \subseteq open
  /\ \A p \in Process : DOMAIN index[p] \subseteq Key /\ Range(index[p]) \subseteq Loc
  /\ turn \in open \cup {NULL}
  /\ step \in {"none", "addkey", "rename", "create", "flush"}
  /\ step = "none" <=> turn = NULL
  /\ doubt \subseteq Key /\ updates \in 0 .. MaxUpdates

Init ==
  /\ dat = <<>> /\ dir = NULL /\ bak = NULL
  /\ open = {} /\ index = [p \in Process |-> <<>>]
  /\ turn = NULL /\ step = "none" /\ key = NULL /\ val = NULL /\ loc = NULL
  /\ updates = 0
  /\ value = [k \in Key |-> NULL]
  /\ fresh = {} /\ doubt = {} /\ lost = "nothing" /\ messed = FALSE

------------------------------------------------------------------------------
BadIndex(f) ==
  [k \in {l.key : l \in Range(Lines(f))} |-> f[SelectInSeq(f, LAMBDA l : l.key = k)].loc]

(* _update(): the index that the lines of a file make; later lines win.      *)
Index(f) ==
  [k \in {l.key : l \in Range(Lines(f))} |-> f[SelectLastInSeq(f, LAMBDA l : l.key = k)].loc]

(* __getitem__()                                                             *)
Read(l) == SubSeq(dat, l.pos + 1, l.pos + l.siz)

BadBlocks(n) == n \div _BLOCKSIZE

Blocks(n) == (n + _BLOCKSIZE - 1) \div _BLOCKSIZE

(* _addval(): padded to a block, at the end.                                 *)
Appended(k, v) ==
  dat \o [i \in 1 .. (Blocks(Len(dat)) * _BLOCKSIZE - Len(dat)) |-> Pad] \o Bytes(k, v)

(* _setval(): over what is there, perhaps beyond the end.                    *)
Overwritten(pos, k, v) ==
  [i \in 1 .. (IF pos + v.len > Len(dat) THEN pos + v.len ELSE Len(dat)) |->
     IF i \in (pos + 1) .. (pos + v.len) THEN Bytes(k, v)[i - pos] ELSE dat[i]]

Open(p) ==
  /\ p \notin open /\ turn = NULL
  /\ open' = open \cup {p}
  /\ index' = [index EXCEPT ![p] = Index(dir)]
  /\ fresh' = fresh \cup {p}
  /\ UNCHANGED <<files, update, value, doubt, lost, messed>>

Close(p) ==
  /\ p \in open /\ turn # p
  /\ open' = open \ {p}
  /\ index' = [index EXCEPT ![p] = <<>>]
  /\ fresh' = fresh \ {p}
  /\ UNCHANGED <<files, update, value, doubt, lost, messed>>

Begin(p, k, v, l, s) ==
  /\ updates < MaxUpdates /\ updates' = updates + 1
  /\ turn' = p /\ key' = k /\ val' = v /\ loc' = l /\ step' = s

(* The new value needs no more blocks than the old one had.                  *)
Fits(p, k, v) ==
  k \in DOMAIN index[p] /\ Blocks(v.len) <= Blocks(index[p][k].siz)

(* __setitem__() up to the new line of the index: the value goes to the      *)
(* file.                                                                     *)
SetInPlace(p, k, v) ==
  /\ p \in open /\ turn = NULL /\ Fits(p, k, v)
  /\ LET pos == index[p][k].pos
     IN  /\ dat' = Overwritten(pos, k, v)
         /\ Begin(p, k, v, [pos |-> pos, siz |-> v.len], "addkey")
  /\ UNCHANGED <<dir, bak, open, index, history>>

SetAppend(p, k, v) ==
  /\ p \in open /\ turn = NULL /\ ~Fits(p, k, v)
  /\ dat' = Appended(k, v)
  /\ Begin(p, k, v, [pos |-> Len(dat') - v.len, siz |-> v.len], "addkey")
  /\ UNCHANGED <<dir, bak, open, index, history>>

(* The update is over; those who did not make it do not know of it.          *)
Done == turn' = NULL /\ step' = "none" /\ key' = NULL /\ val' = NULL /\ loc' = NULL /\ UNCHANGED updates
Known == fresh' = fresh \cap {turn}
Certain == doubt' = doubt \ {key} /\ value' = [value EXCEPT ![key] = val]

with(f, k, l) == [j \in DOMAIN f \cup {k} |-> IF j = k THEN l ELSE f[j]]

(* The file with a line more; opened for appending, it need not exist.       *)
Logged(k, l) == Append(Lines(dir), [key |-> k, loc |-> l])

(* _addkey()                                                                 *)
AddKey ==
  /\ step = "addkey"
  /\ index' = [index EXCEPT ![turn] = with(@, key, loc)]
  /\ dir' = Logged(key, loc)
  /\ Done /\ Known /\ Certain
  /\ UNCHANGED <<dat, bak, open, lost, messed>>

without(f, k) == [j \in DOMAIN f \ {k} |-> f[j]]

(* __delitem__() and _commit(): the backup goes, ...                         *)
DelItem(p, k) ==
  /\ p \in open /\ turn = NULL /\ k \in DOMAIN index[p]
  /\ index' = [index EXCEPT ![p] = without(@, k)]
  /\ bak' = NULL
  /\ Begin(p, k, NULL, NULL, "rename")
  /\ lost' = IF lost = "nothing" THEN lost ELSE "backup"
  /\ messed' = (messed \/ p \notin fresh)
  /\ UNCHANGED <<dat, dir, open, value, fresh, doubt>>

BadCommitRename ==
  /\ step = "rename" /\ step' = "create"
  /\ dir' = NULL
  /\ UNCHANGED <<dat, bak, open, index, turn, key, val, loc, updates, history>>

(* ... the index file becomes the backup (if there is one), ...              *)
CommitRename ==
  /\ step = "rename" /\ step' = "create"
  /\ bak' = IF dir = NULL THEN bak ELSE dir
  /\ dir' = NULL
  /\ UNCHANGED <<dat, open, index, turn, key, val, loc, updates, history>>

(* ... an empty one is created, ...                                          *)
CommitCreate ==
  /\ step = "create" /\ step' = "flush"
  /\ dir' = <<>>
  /\ UNCHANGED <<dat, bak, open, index, turn, key, val, loc, updates, history>>

(* ... and written, a line for every key.                                    *)
CommitWrite ==
  /\ step = "flush"
  /\ dir' = SetToSeq({[key |-> k, loc |-> index[turn][k]] : k \in DOMAIN index[turn]})
  /\ Done /\ Known /\ Certain
  /\ UNCHANGED <<dat, bak, open, index, lost, messed>>

(* The process in its turn crashes: what it knew is gone, what it wrote is   *)
(* there.                                                                    *)
Crash ==
  /\ turn # NULL
  /\ open' = open \ {turn}
  /\ index' = [index EXCEPT ![turn] = <<>>]
  /\ fresh' = {}
  /\ doubt' = doubt \cup {key}
  /\ lost' = IF step \in {"create", "flush"} /\ lost = "nothing" THEN "index" ELSE lost
  /\ Done
  /\ UNCHANGED <<files, value, messed>>

Next ==
  \/ \E p \in Process :
       \/ Open(p) \/ Close(p)
       \/ \E k \in Key, v \in Val : SetInPlace(p, k, v) \/ SetAppend(p, k, v)
       \/ \E k \in Key : DelItem(p, k)
  \/ AddKey \/ CommitRename \/ CommitCreate \/ CommitWrite \/ Crash

Spec == Init /\ [][Next]_vars
------------------------------------------------------------------------------
Holds(ix, k) == IF value[k] = NULL THEN k \notin DOMAIN ix
                ELSE k \in DOMAIN ix /\ Read(ix[k]) = Bytes(k, value[k])

(* Every index there is, in memory or on disk, up to date or not.            *)
Indices == {Index(dir), Index(bak)} \cup Range(index)

(* Whatever the processes do in turns, and wherever they crash, no key is    *)
(* ever given bytes that were written for another one: space in the data     *)
(* file is never used again, not even through an index that is out of date.  *)
OwnBytes == \A ix \in Indices : \A k \in DOMAIN ix :
  \A i \in (ix[k].pos + 1) .. (ix[k].pos + ix[k].siz) : i <= Len(dat) /\ dat[i].key = k

(* Between updates the files hold what was stored: whoever opens the         *)
(* database finds every key, except one whose own update was interrupted by  *)
(* a crash, as long as no crash hit _commit() and nobody deleted a key       *)
(* through an index that was out of date.  Storing through an index that is  *)
(* out of date does no harm.                                                 *)
Durable ==
  turn = NULL /\ lost = "nothing" /\ ~messed
    => \A k \in Key \ doubt : Holds(Index(dir), k)

(* At every instant of _commit(), and after a crash in it, the index file    *)
(* and the backup hold every key between them - until the next _commit(),    *)
(* since nothing ever reads the backup.                                      *)
Recoverable ==
  lost # "backup" /\ ~messed
    => \A k \in Key \ (doubt \cup {key}) :
         value[k] # NULL => Holds(Index(dir), k) \/ Holds(Index(bak), k)
=============================================================================
