------------------------------- MODULE CvsLock -------------------------------
(* Classes ReadLock and WriteLock and function MultipleWriteLock of          *)
(* src/Demo/pdist/cvslock.py: processes lock CVS repositories by creating    *)
(* files and directories in them.  A step is one system call on a shared     *)
(* directory, with what the process does until the next one.                 *)
EXTENDS Naturals, FiniteSets, Sequences

CONSTANTS
  Process,     \* the processes, each with one thread
  Repository,  \* the repositories they share
  Nested,      \* sequences of repositories given to MultipleWriteLock
  NULL         \* no repository

VARIABLES
  lck,       \* repositories that hold the meta-lock, directory "#cvs.lck"
  rfl, wfl,  \* files "#cvs.rfl.<pid>" and "#cvs.wfl.<pid>": <<process, repository>>
  lockdir,   \* the Lock object of <<process, repository>> has self.lockdir
  pc,        \* where a process is in the constructor or in unlock()
  repo,      \* the repository it locks or unlocks
  impatient, \* delay <= 0: raise Locked instead of sleeping
  listed,    \* what os.listdir() showed it: the processes with a read lock
  multi,     \* the argument of MultipleWriteLock, <<>> outside it
  held       \* the repositories whose Lock object a process keeps

local == <<pc, repo, impatient, listed, multi, held>>
vars == <<lck, rfl, wfl, lockdir, local>>

Init ==
  /\ lck = {} /\ rfl = {} /\ wfl = {} /\ lockdir = {}
  /\ pc = [p \in Process |-> "idle"]
  /\ repo = [p \in Process |-> NULL]
  /\ impatient = [p \in Process |-> FALSE]
  /\ listed = [p \in Process |-> {}]
  /\ multi = [p \in Process |-> <<>>]
  /\ held = [p \in Process |-> {}]

At(p, from, to) == pc[p] = from /\ pc' = [pc EXCEPT ![p] = to]
me(p) == <<p, repo[p]>>

------------------------------------------------------------------------------
(* ReadLock(r, delay) or WriteLock(r, delay) is called.                      *)
New(p, kind, r, hasty) ==
  /\ At(p, "idle", kind)
  /\ held[p] = {}
  /\ repo' = [repo EXCEPT ![p] = r]
  /\ impatient' = [impatient EXCEPT ![p] = hasty]
  /\ UNCHANGED <<lck, rfl, wfl, lockdir, listed, multi, held>>

(* Locked is raised.  A single lock is given up; MultipleWriteLock drops the *)
(* locks it has, whose __del__ unlocks them, and starts again.               *)
Locked(p) ==
  /\ pc' = [pc EXCEPT ![p] = IF multi[p] = <<>> THEN "idle" ELSE "drop"]
  /\ UNCHANGED <<repo, impatient, listed, multi, held>>

(* setlockdir(): os.mkdir() succeeds, ...                                    *)
MkDir(p, kind, next) ==
  /\ At(p, kind, next)
  /\ repo[p] \notin lck
  /\ lck' = lck \cup {repo[p]}
  /\ lockdir' = lockdir \cup {me(p)}
  /\ UNCHANGED <<rfl, wfl, repo, impatient, listed, multi, held>>

(* ... or fails, and an impatient process gives up.  A patient one sleeps    *)
(* and tries again.                                                          *)
MkDirFails(p) ==
  /\ pc[p] \in {"read", "write"} /\ repo[p] \in lck /\ impatient[p]
  /\ Locked(p)
  /\ UNCHANGED <<lck, rfl, wfl, lockdir>>

(* unlockdir(): os.rmdir() of a directory this Lock object made.             *)
RmDir(p) ==
  /\ lck' = IF me(p) \in lockdir THEN lck \ {repo[p]} ELSE lck
  /\ lockdir' = lockdir \ {me(p)}

(* ReadLock: the file is created, then the meta-lock released.               *)
ReadCreate(p) ==
  /\ At(p, "read_create", "read_rmdir")
  /\ rfl' = rfl \cup {me(p)}
  /\ UNCHANGED <<lck, wfl, lockdir, repo, impatient, listed, multi, held>>

ReadRmDir(p) ==
  /\ At(p, "read_rmdir", "idle")
  /\ RmDir(p)
  /\ held' = [held EXCEPT ![p] = @ \cup {repo[p]}]
  /\ UNCHANGED <<rfl, wfl, repo, impatient, listed, multi>>

(* WriteLock, readers_exist(): the names, ...                                *)
ListDir(p) ==
  /\ At(p, "list", "stat")
  /\ listed' = [listed EXCEPT ![p] = {q \in Process : <<q, repo[p]>> \in rfl}]
  /\ UNCHANGED <<lck, rfl, wfl, lockdir, repo, impatient, multi, held>>

(* ... and those of them that are still there.                               *)
Readers(p) == {q \in listed[p] : <<q, repo[p]>> \in rfl}

NoReaders(p) ==
  /\ At(p, "stat", "write_create")
  /\ Readers(p) = {}
  /\ UNCHANGED <<lck, rfl, wfl, lockdir, repo, impatient, listed, multi, held>>

(* The meta-lock is released; then sleep() sleeps or raises Locked, and the  *)
(* loop starts with readers_exist() again.                                   *)
SomeReaders(p) ==
  /\ pc[p] = "stat" /\ Readers(p) # {}
  /\ RmDir(p)
  /\ IF impatient[p]
       THEN Locked(p)
       ELSE pc' = [pc EXCEPT ![p] = "list"] /\ UNCHANGED <<repo, impatient, listed, multi, held>>
  /\ UNCHANGED <<rfl, wfl>>

WriteCreate(p) ==
  /\ At(p, "write_create", IF multi[p] = <<>> THEN "idle" ELSE "multi")
  /\ wfl' = wfl \cup {me(p)}
  /\ held' = [held EXCEPT ![p] = @ \cup {repo[p]}]
  /\ UNCHANGED <<lck, rfl, lockdir, repo, impatient, listed, multi>>

(* unlock() of a lock that is kept: os.unlink(), ...                         *)
Unlink(p, r, from, to) ==
  /\ At(p, from, to)
  /\ r \in held[p]
  /\ repo' = [repo EXCEPT ![p] = r]
  /\ rfl' = rfl \ {<<p, r>>} /\ wfl' = wfl \ {<<p, r>>}
  /\ UNCHANGED <<lck, lockdir, impatient, listed, multi, held>>

(* ... then os.rmdir().                                                      *)
Unlocked(p, from, to) ==
  /\ At(p, from, to)
  /\ RmDir(p)
  /\ held' = [held EXCEPT ![p] = @ \ {repo[p]}]
  /\ UNCHANGED <<rfl, wfl, repo, impatient, listed, multi>>

------------------------------------------------------------------------------
(* MultipleWriteLock(repositories): the locks one by one, impatiently.       *)
MultiCall(p, rs) ==
  /\ At(p, "idle", "multi")
  /\ held[p] = {}
  /\ multi' = [multi EXCEPT ![p] = rs]
  /\ UNCHANGED <<lck, rfl, wfl, lockdir, repo, impatient, listed, held>>

Locks(p) == Cardinality(held[p])

MultiNext(p) ==
  /\ At(p, "multi", "write")
  /\ Locks(p) < Len(multi[p])
  /\ repo' = [repo EXCEPT ![p] = multi[p][Locks(p) + 1]]
  /\ impatient' = [impatient EXCEPT ![p] = TRUE]
  /\ UNCHANGED <<lck, rfl, wfl, lockdir, listed, multi, held>>

(* "return list" returns the built-in function of that name: the locks go    *)
(* with the local variable that holds them.                                  *)
MultiReturn(p) ==
  /\ At(p, "multi", "drop")
  /\ Locks(p) = Len(multi[p])
  /\ multi' = [multi EXCEPT ![p] = <<>>]
  /\ UNCHANGED <<lck, rfl, wfl, lockdir, repo, impatient, listed, held>>

(* All locks are dropped: the function has returned, or sleeps and starts    *)
(* again.                                                                    *)
Dropped(p) ==
  /\ At(p, "drop", IF multi[p] = <<>> THEN "idle" ELSE "multi")
  /\ held[p] = {}
  /\ UNCHANGED <<lck, rfl, wfl, lockdir, repo, impatient, listed, multi, held>>

Next == \E p \in Process :
  \/ \E kind \in {"read", "write"}, r \in Repository, hasty \in BOOLEAN : New(p, kind, r, hasty)
  \/ MkDir(p, "read", "read_create") \/ MkDir(p, "write", "list") \/ MkDirFails(p)
  \/ ReadCreate(p) \/ ReadRmDir(p)
  \/ ListDir(p) \/ NoReaders(p) \/ SomeReaders(p) \/ WriteCreate(p)
  \/ \E r \in Repository : Unlink(p, r, "idle", "rmdir") \/ Unlink(p, r, "drop", "drop_rmdir")
  \/ Unlocked(p, "rmdir", "idle") \/ Unlocked(p, "drop_rmdir", "drop")
  \/ \E rs \in Nested : MultiCall(p, rs)
  \/ MultiNext(p) \/ MultiReturn(p) \/ Dropped(p)

Spec == Init /\ [][Next]_vars
------------------------------------------------------------------------------
(* "The meta-lock is also held while a write lock is held": where there is a *)
(* write lock file, there is the directory that keeps readers and writers    *)
(* out, and it is the one the writer made.                                   *)
WriterHasMetaLock == wfl \subseteq lockdir
=============================================================================
