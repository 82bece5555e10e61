-------------------------------- MODULE Log --------------------------------
(***************************************************************************)
(* The operations of src/lib/Log.js as operators on values.  A log is a    *)
(* sequence of entries; the entry at position i is the one whose `index`   *)
(* is i, since an entry is only ever added at lastIndex + 1.  The          *)
(* operators are pure: the modules that use them decide when a result      *)
(* becomes the server's log in memory and when it becomes durable.         *)
(***************************************************************************)
EXTENDS Naturals, Sequences

-----------------------------------------------------------------------------
(* Reading a log *)

LastIndex(log) == Len(log)

(* The log starts at index 1; index 0 stands for "before the first entry". *)
TermAt(log, index) == IF index = 0 THEN 0 ELSE log[index].term

LastTerm(log) == TermAt(log, LastIndex(log))

HasEntry(log, index) == index \in 1 .. LastIndex(log)

EntriesSince(log, index) == SubSeq(log, index, LastIndex(log))

(* Whether a log that ends at `index` with an entry of `term` is behind    *)
(* `log`, which is what a vote is refused for.                             *)
Outdated(log, term, index) ==
  \/ term < LastTerm(log)
  \/ term = LastTerm(log) /\ index < LastIndex(log)

-----------------------------------------------------------------------------
(* Changing a log *)

(* A follower may only add entries after one it shares with the leader.    *)
Follows(log, prevLogIndex, prevLogTerm) ==
  \/ prevLogIndex = 0
  \/ HasEntry(log, prevLogIndex) /\ log[prevLogIndex].term = prevLogTerm

(* A faulty variant: entries that conflict stay where they are.            *)
TruncatedToFaulty(log, prevLogIndex) == log

(* What mergeEntries() does at once, before it persists anything: every    *)
(* entry past prevLogIndex goes, also when the message carries no entries. *)
TruncatedTo(log, prevLogIndex) == SubSeq(log, 1, prevLogIndex)

(* What it does once the entries are persisted.  The entries start at      *)
(* lastIndex + 1 of the truncated log, so none is left to filter out and   *)
(* none overwrites another.                                                *)
Extended(log, entries) == log \o entries

(* The index a follower asks the leader to go back to.                     *)
ConflictingIndex(log, prevLogIndex) ==
  LET atLeastOne == IF LastIndex(log) = 0 THEN 1 ELSE LastIndex(log)
  IN  IF prevLogIndex < atLeastOne THEN prevLogIndex ELSE atLeastOne

(* A faulty variant: what the write displaces is restored as well.         *)
JournalledFaulty(storedLog, index, entries) == storedLog \o entries

(* The entries replace() restores from everything that was persisted, one  *)
(* write at a time: a write of entries from `index` on displaces what was  *)
(* persisted from there.  Truncations are not persisted, so what would be  *)
(* restored can be longer than the log in memory.                          *)
Journalled(storedLog, index, entries) ==
  SubSeq(storedLog, 1, index - 1) \o entries

=============================================================================
